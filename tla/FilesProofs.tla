----------------------------- MODULE FilesProofs -----------------------------
(***************************************************************************)
(* The file system for disks, directories and files of any size, shared or *)
(* not: no block is used twice, and none that is used is free; and, as     *)
(* long as none has been freed, the disk alone is a sound file system too. *)
(*                                                                         *)
(* The argument does not need the tree of directories.  It counts the      *)
(* pointers of every struct File of every block, of Files that were        *)
(* removed and of blocks that are free as well: what fs.c does to them is  *)
(* to clear a pointer, to lose it with its page, or to set one to a block  *)
(* that it has just taken out of the bitmap.  For the disk it counts the   *)
(* pointers of every File on it as well: a write makes a File's pointers   *)
(* on the disk those it has in memory, or leaves them, and memory is sound *)
(* at each write, so that neither two Files on the disk nor one there and  *)
(* one in memory share a block.                                            *)
(*                                                                         *)
(* That nothing leaks, and that a client's pages are its file's, does need *)
(* the tree, and that no request names a File that is open. The second     *)
(* part keeps, beside one use per block, that sizes, names and blocks      *)
(* agree: a File has no block past its size, a regular file has all that   *)
(* its size counts, and a File without a name has none; that a path finds  *)
(* each open file; and that what is not free can be reached from Root or   *)
(* has been counted as lost. Each function of fs.c is shown to do exactly  *)
(* what its caller counts on: to find, to add blocks (Adds), to give back  *)
(* some (Cuts), to change no File but in f_dir (Still), and the requests   *)
(* to grow directories only (Rise), or to alter the one File they name     *)
(* (Trims).                                                                *)
(***************************************************************************)
EXTENDS Files, WellFoundedInduction, TLAPS

Indices == 0..(NINDIRECT - 1)
Directs == 0..(NDIRECT - 1)
Js == 0..(FILE2BLK - 1)
Slots == 0..NINDIRECT
Ptrs == [Indices -> Blocks \cup {0}]

(* The Files there can be, and those of a directory's blocks.              *)
InBlocks == {Pos(b, j) : b \in Blocks, j \in Js}
Where == {Root} \cup InBlocks

Page(c) == Entries(c) \in [Js -> File] /\ Pointers(c) \in Ptrs

Typed(s) ==
  /\ DOMAIN s = {"free", "disk_free", "cache", "disk", "dirty", "root"}
  /\ s.free \subseteq Blocks /\ s.disk_free \subseteq s.free /\ s.dirty \subseteq Blocks
  /\ s.root \in File
  /\ s.cache = [b \in Blocks |-> s.cache[b]] /\ s.disk = [b \in Blocks |-> s.disk[b]]
  /\ \A b \in Blocks : Page(s.cache[b]) /\ Page(s.disk[b])

(* The block that slot i of the File at p points to; slot NINDIRECT is the *)
(* indirect block itself.                                                  *)
FileAt(s, p) == At(Memory(s), s.root, p)
Slot(s, p, i) ==
  IF i = NINDIRECT THEN FileAt(s, p).indirect ELSE PtrOf(Memory(s), FileAt(s, p), i)

Unique(s) ==
  \A p, q \in Where, i, k \in Slots :
    Slot(s, p, i) # 0 /\ Slot(s, p, i) = Slot(s, q, k) => p = q /\ i = k
NotFree(s) == \A p \in Where, i \in Slots : Slot(s, p, i) \notin s.free

Sound(s) == Typed(s) /\ Unique(s) /\ NotFree(s)

(* What a step may do to the pointers: t has those of s or fewer; and slot *)
(* i of p is b.                                                            *)
Shrinks(s, t) == \A p \in Where, i \in Slots : Slot(t, p, i) \in {0, Slot(s, p, i)}
Sets(s, t, f, n, b) ==
  /\ Slot(t, f, n) \in {0, b}
  /\ \A p \in Where, i \in Slots : p # f \/ i # n => Slot(t, p, i) \in {0, Slot(s, p, i)}

(* A block that is taken and not used yet.                                 *)
Fresh(s, b) ==
  b \in Blocks /\ b \notin s.free /\ \A p \in Where, i \in Slots : Slot(s, p, i) # b

(* The pointers in the Files on the disk. *)
Cells == Directs \cup {NINDIRECT}
OnDisk(s, p) == At(s.disk, FirstRoot, p)
Cell(s, p, i) == IF i = NINDIRECT THEN OnDisk(s, p).indirect ELSE OnDisk(s, p).direct[i]

(* Quiet: a step that allocates and frees nothing and leaves the disk      *)
(* alone, and what is to be written there; Drops: it may free blocks.      *)
(* Same: a step that allocates and frees nothing; it marks blocks of Files *)
(* dirty and writes dirty ones.                                            *)
InMemory(s, t) == t.disk_free = s.disk_free /\ t.disk = s.disk /\ t.dirty = s.dirty
Quiet(s, t) == Typed(t) /\ Shrinks(s, t) /\ t.free = s.free /\ InMemory(s, t)
Drops(s, t) == Shrinks(s, t) /\ InMemory(s, t)
Same(s, t) ==
  /\ Typed(t) /\ Shrinks(s, t) /\ t.free = s.free /\ t.disk_free = s.disk_free
  /\ s.dirty \subseteq t.dirty
  /\ \A b \in t.dirty \ s.dirty : \E p \in Where, i \in Indices : b = Slot(s, p, i)
  /\ \A b \in Blocks \ t.dirty : t.disk[b] = s.disk[b]
  /\ \A p \in Where, i \in Cells : Cell(t, p, i) \in {0, Cell(s, p, i), Slot(s, p, i)}

(* A step that writes nothing but the bitmap, before and after the blocks  *)
(* it frees, if any, are free.                                             *)
Near(s, t) ==
  /\ t.disk = s.disk /\ t.dirty = s.dirty /\ t.disk_free \subseteq s.free
  /\ \A p \in Where, i \in Slots : Slot(t, p, i) \in {0, Slot(s, p, i)} \cup s.free
Grows(s, t) == Near(s, t) /\ t.free \subseteq s.free

-----------------------------------------------------------------------------
(* Constants, files and pages.                                             *)

LEMMA Numbers ==
  /\ NBlocks \in Nat /\ NDIRECT \in Nat \ {0} /\ NINDIRECT \in Nat \ {0}
  /\ FILE2BLK \in Nat \ {0} /\ BLOCK_SIZE \in Nat \ {0} /\ NDIRECT < NINDIRECT
  /\ Blocks \subseteq Nat /\ 0 \notin Blocks /\ 1 \notin Blocks
  /\ Directs \subseteq Indices /\ Indices \subseteq Slots /\ NINDIRECT \in Slots
  /\ NINDIRECT \notin Indices /\ 0 \in Js /\ Js \subseteq Nat
<1>1. /\ NBlocks \in Nat /\ NDIRECT \in Nat \ {0} /\ NINDIRECT \in Nat \ {0}
      /\ FILE2BLK \in Nat \ {0} /\ BLOCK_SIZE \in Nat \ {0} /\ NDIRECT < NINDIRECT
  BY SizesAssumption
<1>2. Blocks \subseteq Nat /\ 0 \notin Blocks /\ 1 \notin Blocks
  BY <1>1 DEF Blocks
<1>3. /\ Directs \subseteq Indices /\ Indices \subseteq Slots /\ NINDIRECT \in Slots
      /\ NINDIRECT \notin Indices /\ 0 \in Js /\ Js \subseteq Nat
  BY <1>1 DEF Directs, Indices, Slots, Js
<1> QED BY <1>1, <1>2, <1>3

LEMMA Places ==
  /\ Root \notin InBlocks /\ Nil \notin Where
  /\ Positions = {Nil} \cup Where
  /\ \A p \in InBlocks : p.blk \in Blocks /\ p.idx \in Js
  /\ \A b \in Blocks, j \in Js : Pos(b, j) \in InBlocks /\ Pos(b, j).blk = b /\ Pos(b, j).idx = j
  /\ \A p, q \in InBlocks : p.blk = q.blk /\ p.idx = q.idx => p = q
<1>1. 0 \notin Blocks /\ 1 \notin Blocks
  BY Numbers
<1>2. \A b, j : Pos(b, j).blk = b /\ Pos(b, j).idx = j
  BY DEF Pos
<1>3. \A p \in InBlocks : p.blk \in Blocks /\ p.idx \in Js /\ p = Pos(p.blk, p.idx)
  BY <1>2 DEF InBlocks
<1>4. Root.blk = 1 /\ Nil.blk = 0 /\ Root # Nil
  BY <1>2 DEF Root, Nil
<1>5. Positions = {Nil} \cup Where
  BY DEF Positions, Where, InBlocks, Js
<1>6. \A b \in Blocks, j \in Js : Pos(b, j) \in InBlocks
  BY DEF InBlocks
<1>7. Root \notin InBlocks /\ Nil \notin Where
  BY <1>1, <1>3, <1>4 DEF Where
<1> QED BY <1>2, <1>3, <1>5, <1>6, <1>7

LEMMA FileFields ==
  ASSUME NEW x \in File
  PROVE  /\ x.size \in Nat /\ x.indirect \in Blocks \cup {0} /\ x.dir \in Positions
         /\ x.direct \in [Directs -> Blocks \cup {0}]
         /\ \A i \in Directs : x.direct[i] \in Blocks \cup {0}
BY DEF File, Directs

LEMMA EmptyFile ==
  /\ NoFile \in File /\ NoFile.indirect = 0
  /\ \A i \in Directs : NoFile.direct[i] = 0
<1>1. Nil \in Positions
  BY DEF Positions
<1>2. [i \in 0..(NDIRECT - 1) |-> 0] \in [0..(NDIRECT - 1) -> Blocks \cup {0}]
  OBVIOUS
<1> QED BY <1>1, <1>2 DEF NoFile, File, Directs

LEMMA PathIs ==
  ASSUME NEW path \in Paths
  PROVE  Len(path) \in 1..2 /\ \A i \in 1..Len(path) : path[i] \in Names
<1>1. CASE \E n \in Names : path = <<n>>
  BY <1>1
<1>2. CASE \E n, m \in Names : path = <<n, m>>
  BY <1>2
<1> QED BY <1>1, <1>2, SizesAssumption

LEMMA FirstFiles ==
  /\ FirstRoot \in File /\ FirstDir \in File /\ FirstFile \in File
  /\ FirstRoot.indirect = 0 /\ FirstDir.indirect = 0 /\ FirstFile.indirect = 0
  /\ FirstRoot.direct[0] = 3 /\ FirstDir.direct[0] = 4 /\ FirstFile.direct[0] = 5
  /\ \A i \in Directs : i # 0 => /\ FirstRoot.direct[i] = 0 /\ FirstDir.direct[i] = 0
                                 /\ FirstFile.direct[i] = 0
  /\ 0 \in Directs /\ 3 \in Blocks /\ 4 \in Blocks /\ 5 \in Blocks
<1>1. 0 \in Directs
  BY Numbers DEF Directs
<1>2. 3 \in Blocks /\ 4 \in Blocks /\ 5 \in Blocks
  BY SizesAssumption DEF Blocks
<1>3. FirstPath \in Paths /\ Len(FirstPath) = 2
  BY SizesAssumption DEF FirstPath
<1>4. FirstPath[1] \in Names /\ FirstPath[2] \in Names
  BY <1>3, PathIs
<1>5. NoFile \in File /\ NoFile.indirect = 0 /\ \A i \in Directs : NoFile.direct[i] = 0
  BY EmptyFile
<1>6. FirstRoot \in File /\ FirstDir \in File /\ FirstFile \in File
  BY <1>1, <1>2, <1>4, <1>5, Numbers DEF FirstRoot, FirstDir, FirstFile, File, Directs
<1>7. FirstRoot.indirect = 0 /\ FirstDir.indirect = 0 /\ FirstFile.indirect = 0
  BY <1>5 DEF FirstRoot, FirstDir, FirstFile, File
<1>8. /\ FirstRoot.direct = [NoFile.direct EXCEPT ![0] = 3]
      /\ FirstDir.direct = [NoFile.direct EXCEPT ![0] = 4]
      /\ FirstFile.direct = [NoFile.direct EXCEPT ![0] = 5]
  BY <1>5 DEF FirstRoot, FirstDir, FirstFile, File
<1>9. NoFile.direct \in [Directs -> Blocks \cup {0}]
  BY <1>5, FileFields
<1>10. /\ FirstRoot.direct[0] = 3 /\ FirstDir.direct[0] = 4 /\ FirstFile.direct[0] = 5
       /\ \A i \in Directs : i # 0 => /\ FirstRoot.direct[i] = 0 /\ FirstDir.direct[i] = 0
                                      /\ FirstFile.direct[i] = 0
  BY <1>1, <1>5, <1>8, <1>9
<1> QED BY <1>1, <1>2, <1>6, <1>7, <1>10

LEMMA PlainPage ==
  ASSUME NEW c, c.kind # "dir", c.kind # "ptrs"
  PROVE  /\ Page(c) /\ Entries(c) = [j \in Js |-> NoFile]
         /\ \A i \in Indices : Pointers(c)[i] = 0
BY EmptyFile DEF Page, Entries, Pointers, Js, Indices, Ptrs

LEMMA FilesPage ==
  ASSUME NEW e \in [Js -> File]
  PROVE  /\ Page(DirBlock(e)) /\ Entries(DirBlock(e)) = e
         /\ \A i \in Indices : Pointers(DirBlock(e))[i] = 0
<1>1. DirBlock(e).kind = "dir" /\ DirBlock(e).e = e
  BY DEF DirBlock
<1> QED BY <1>1 DEF Page, Entries, Pointers, Indices, Ptrs

LEMMA PointersPage ==
  ASSUME NEW ps \in Ptrs
  PROVE  /\ Page(PtrBlock(ps)) /\ Entries(PtrBlock(ps)) = [j \in Js |-> NoFile]
         /\ Pointers(PtrBlock(ps)) = ps
<1>1. CASE \A i \in Indices : ps[i] = 0
  <2>1. PtrBlock(ps) = Zero
    BY <1>1 DEF PtrBlock, Ptrs
  <2>2. Zero.kind = "zero"
    BY DEF Zero
  <2>3. Pointers(Zero) = [i \in Indices |-> 0]
    BY <2>2 DEF Pointers, Indices
  <2>4. ps = [i \in Indices |-> 0]
    BY <1>1 DEF Ptrs
  <2> QED BY <2>1, <2>2, <2>3, <2>4, PlainPage
<1>2. CASE ~ \A i \in Indices : ps[i] = 0
  <2>1. PtrBlock(ps) = [kind |-> "ptrs", p |-> ps]
    BY <1>2 DEF PtrBlock, Ptrs
  <2>2. PtrBlock(ps).kind = "ptrs" /\ PtrBlock(ps).p = ps
    BY <2>1
  <2> QED BY <2>2, EmptyFile DEF Page, Entries, Pointers, Js
<1> QED BY <1>1, <1>2

LEMMA MemoryPages ==
  ASSUME NEW s, Typed(s)
  PROVE  /\ \A b \in Blocks : Page(Memory(s)[b])
         /\ \A b \in Blocks : s.cache[b] # Unmapped => Memory(s)[b] = s.cache[b]
         /\ \A b \in Blocks : s.cache[b] = Unmapped => Memory(s)[b] = s.disk[b]
BY DEF Typed, Memory

LEMMA FileTypes ==
  ASSUME NEW s, Typed(s), NEW p \in Where
  PROVE  /\ FileAt(s, p) \in File
         /\ p = Root => FileAt(s, p) = s.root
         /\ p # Root => p \in InBlocks /\ FileAt(s, p) = Entries(Memory(s)[p.blk])[p.idx]
<1>1. CASE p = Root
  BY <1>1 DEF FileAt, At, Typed
<1>2. CASE p # Root
  <2>1. p \in InBlocks /\ p.blk \in Blocks /\ p.idx \in Js
    BY <1>2, Places DEF Where
  <2>2. FileAt(s, p) = Entries(Memory(s)[p.blk])[p.idx]
    BY <1>2 DEF FileAt, At
  <2>3. Entries(Memory(s)[p.blk]) \in [Js -> File]
    BY <2>1, MemoryPages DEF Page
  <2> QED BY <1>2, <2>1, <2>2, <2>3
<1> QED BY <1>1, <1>2

LEMMA PtrTypes ==
  ASSUME NEW store, \A b \in Blocks : Page(store[b]), NEW x \in File, NEW i \in Indices
  PROVE  PtrOf(store, x, i) \in Blocks \cup {0}
<1>1. CASE i < NDIRECT
  <2>1. i \in Directs
    BY <1>1, Numbers DEF Indices, Directs
  <2> QED BY <1>1, <2>1, FileFields DEF PtrOf
<1>2. CASE ~(i < NDIRECT) /\ x.indirect = 0
  BY <1>2 DEF PtrOf
<1>3. CASE ~(i < NDIRECT) /\ x.indirect # 0
  <2>1. x.indirect \in Blocks
    BY <1>3, FileFields
  <2>2. Pointers(store[x.indirect])[i] \in Blocks \cup {0}
    BY <2>1 DEF Page, Ptrs
  <2> QED BY <1>3, <2>2 DEF PtrOf
<1> QED BY <1>1, <1>2, <1>3

LEMMA SlotIs ==
  ASSUME NEW s, Typed(s), NEW p \in Where, NEW i \in Slots
  PROVE  /\ Slot(s, p, i) \in Blocks \cup {0}
         /\ i = NINDIRECT => Slot(s, p, i) = FileAt(s, p).indirect
         /\ i # NINDIRECT => i \in Indices /\ Slot(s, p, i) = PtrOf(Memory(s), FileAt(s, p), i)
         /\ i \in Directs => i \in Indices /\ i < NDIRECT /\ Slot(s, p, i) = FileAt(s, p).direct[i]
         /\ i # NINDIRECT /\ i \notin Directs => ~(i < NDIRECT) /\
              Slot(s, p, i) = IF FileAt(s, p).indirect = 0 THEN 0
                              ELSE Pointers(Memory(s)[FileAt(s, p).indirect])[i]
<1>1. i # NINDIRECT => i \in Indices
  BY Numbers DEF Indices, Slots
<1>2. i \in Directs => i \in Indices /\ i < NDIRECT /\ i # NINDIRECT
  BY Numbers DEF Directs, Indices
<1>3. i # NINDIRECT /\ i \notin Directs => ~(i < NDIRECT)
  BY <1>1, Numbers DEF Directs, Indices
<1>4. i = NINDIRECT => Slot(s, p, i) = FileAt(s, p).indirect
  BY DEF Slot
<1>5. i # NINDIRECT => Slot(s, p, i) = PtrOf(Memory(s), FileAt(s, p), i)
  BY DEF Slot
<1>6. FileAt(s, p) \in File /\ \A b \in Blocks : Page(Memory(s)[b])
  BY FileTypes, MemoryPages
<1>7. Slot(s, p, i) \in Blocks \cup {0}
  BY <1>1, <1>4, <1>5, <1>6, FileFields, PtrTypes
<1> QED BY <1>1, <1>2, <1>3, <1>4, <1>5, <1>7 DEF PtrOf

(* The server reads the File through its cache: it finds the File, or none *)
(* when the page is not there.                                             *)
LEMMA GetIs ==
  ASSUME NEW s, Typed(s), NEW f \in Where
  PROVE  Get(s, f) \in File /\ (Get(s, f) = FileAt(s, f) \/ Get(s, f) = NoFile)
<1>1. CASE f = Root
  BY <1>1, FileTypes DEF Get, Typed
<1>2. CASE f # Root
  <2>1. f.blk \in Blocks /\ f.idx \in Js /\ Get(s, f) = Entries(s.cache[f.blk])[f.idx]
    BY <1>2, Places DEF Get, Where
  <2>2. Get(s, f) \in File
    BY <2>1 DEF Typed, Page
  <2>3. CASE s.cache[f.blk] # Unmapped
    BY <1>2, <2>1, <2>2, <2>3, FileTypes, MemoryPages
  <2>4. CASE s.cache[f.blk] = Unmapped
    <3>1. Unmapped.kind = "unmapped"
      BY DEF Unmapped
    <3>2. Entries(s.cache[f.blk]) = [j \in Js |-> NoFile]
      BY <2>4, <3>1, PlainPage
    <3> QED BY <2>1, <2>2, <3>2
  <2> QED BY <2>3, <2>4
<1> QED BY <1>1, <1>2

LEMMA CachedPointers ==
  ASSUME NEW s, Typed(s), NEW b \in Blocks, NEW i \in Indices
  PROVE  Pointers(s.cache[b])[i] \in {0, Pointers(Memory(s)[b])[i]}
<1>1. CASE s.cache[b] # Unmapped
  BY <1>1, MemoryPages
<1>2. CASE s.cache[b] = Unmapped
  <2>1. Unmapped.kind = "unmapped"
    BY DEF Unmapped
  <2> QED BY <1>2, <2>1, PlainPage
<1> QED BY <1>1, <1>2

LEMMA GetPtr ==
  ASSUME NEW s, Typed(s), NEW f \in Where, NEW i \in Indices
  PROVE  PtrOf(s.cache, Get(s, f), i) \in {0, Slot(s, f, i)}
<1>1. i \in Slots /\ i # NINDIRECT
  BY Numbers
<1>2. CASE Get(s, f) = NoFile
  <2>1. i < NDIRECT => i \in Directs
    BY Numbers DEF Directs, Indices
  <2> QED BY <1>2, <2>1, EmptyFile DEF PtrOf
<1>3. CASE Get(s, f) = FileAt(s, f)
  <2>1. CASE i < NDIRECT
    <3>1. i \in Directs
      BY <2>1, Numbers DEF Directs, Indices
    <3> QED BY <1>1, <1>3, <2>1, <3>1, SlotIs DEF PtrOf
  <2>2. CASE ~(i < NDIRECT)
    <3>1. i \notin Directs
      BY <2>2, Numbers DEF Directs
    <3>2. FileAt(s, f).indirect \in Blocks \cup {0}
      BY FileTypes, FileFields
    <3> QED BY <1>1, <1>3, <2>2, <3>1, <3>2, SlotIs, CachedPointers DEF PtrOf
  <2> QED BY <2>1, <2>2
<1> QED BY <1>2, <1>3, GetIs

-----------------------------------------------------------------------------
(* What a call returns.                                                    *)

LEMMA Results ==
  /\ \A s, x : Ok(s, x).fs = s /\ Ok(s, x).r = x /\ Ok(s, x).err = "ok"
  /\ \A s, e : Fail(s, e).fs = s /\ Fail(s, e).err = e
<1>1. \A s, x : Ok(s, x).fs = s /\ Ok(s, x).r = x /\ Ok(s, x).err = "ok"
  BY DEF Ok
<1>2. \A s, e : Fail(s, e).fs = s /\ Fail(s, e).err = e
  BY DEF Fail
<1> QED BY <1>1, <1>2

-----------------------------------------------------------------------------
(* What keeps the state sound.                                             *)

LEMMA ShrinkSound ==
  ASSUME NEW s, NEW t, Sound(s), Typed(t), Shrinks(s, t), t.free \subseteq s.free
  PROVE  Sound(t)
<1>1. Unique(t)
  BY DEF Sound, Unique, Shrinks
<1>2. \A p \in Where, i \in Slots : Slot(t, p, i) # 0 => Slot(t, p, i) \notin t.free
  BY DEF Sound, NotFree, Shrinks
<1>3. 0 \notin t.free
  BY Numbers DEF Typed
<1> QED BY <1>1, <1>2, <1>3 DEF Sound, NotFree

LEMMA SetSound ==
  ASSUME NEW s, NEW t, Sound(s), Typed(t), NEW f \in Where, NEW n \in Slots, NEW b,
         Sets(s, t, f, n, b), Fresh(s, b), t.free \subseteq s.free
  PROVE  Sound(t)
<1>1. Unique(t)
  BY DEF Sound, Unique, Sets, Fresh
<1>2. \A p \in Where, i \in Slots : Slot(t, p, i) # 0 => Slot(t, p, i) \notin t.free
  BY DEF Sound, NotFree, Sets, Fresh
<1>3. 0 \notin t.free
  BY Numbers DEF Typed
<1> QED BY <1>1, <1>2, <1>3 DEF Sound, NotFree

LEMMA ClearSound ==
  ASSUME NEW s, NEW t, Sound(s), Typed(t), NEW f \in Where, NEW n \in Slots,
         Sets(s, t, f, n, 0), t.free \subseteq s.free \cup {Slot(s, f, n)}
  PROVE  Sound(t)
<1>1. Unique(t)
  BY DEF Sound, Unique, Sets
<1>2. 0 \notin t.free
  BY Numbers DEF Typed
<1>3. ASSUME NEW p \in Where, NEW i \in Slots, Slot(t, p, i) # 0
      PROVE  Slot(t, p, i) \notin t.free
  <2>1. (p # f \/ i # n) /\ Slot(t, p, i) = Slot(s, p, i)
    BY <1>3 DEF Sets
  <2>2. Slot(s, p, i) # Slot(s, f, n) /\ Slot(s, p, i) \notin s.free
    BY <1>3, <2>1 DEF Sound, Unique, NotFree
  <2> QED BY <2>1, <2>2
<1> QED BY <1>1, <1>2, <1>3 DEF Sound, NotFree

LEMMA FreshStays ==
  ASSUME NEW s, NEW t, NEW b, Fresh(s, b), Shrinks(s, t), t.free \subseteq s.free
  PROVE  Fresh(t, b)
BY Numbers DEF Fresh, Shrinks

(* Pages that lose what they held.                                         *)
Plain(c) == Entries(c) = [j \in Js |-> NoFile] /\ \A i \in Indices : Pointers(c)[i] = 0

LEMMA SlotsOf ==
  ASSUME NEW s, NEW t, Typed(s), Typed(t), NEW p \in Where,
         FileAt(t, p) = FileAt(s, p) \/ FileAt(t, p) = NoFile,
         \A b \in Blocks, i \in Indices :
           Pointers(Memory(t)[b])[i] \in {0, Pointers(Memory(s)[b])[i]}
  PROVE  \A i \in Slots : Slot(t, p, i) \in {0, Slot(s, p, i)}
<1> SUFFICES ASSUME NEW i \in Slots PROVE Slot(t, p, i) \in {0, Slot(s, p, i)}
  OBVIOUS
<1>1. CASE FileAt(t, p) = NoFile
  BY <1>1, SlotIs, EmptyFile
<1>2. CASE FileAt(t, p) = FileAt(s, p)
  <2>1. CASE i = NINDIRECT \/ i \in Directs
    BY <1>2, <2>1, SlotIs
  <2>2. CASE i # NINDIRECT /\ i \notin Directs
    <3>1. FileAt(s, p).indirect \in Blocks \cup {0} /\ i \in Indices
      BY <2>2, FileTypes, FileFields, SlotIs
    <3> QED BY <1>2, <2>2, <3>1, SlotIs
  <2> QED BY <2>1, <2>2
<1> QED BY <1>1, <1>2

LEMMA PagesLost ==
  ASSUME NEW s, NEW t, Typed(s), Typed(t), t.root = s.root,
         \A b \in Blocks : Memory(t)[b] = Memory(s)[b] \/ Plain(Memory(t)[b])
  PROVE  Shrinks(s, t)
<1> SUFFICES ASSUME NEW p \in Where PROVE \A i \in Slots : Slot(t, p, i) \in {0, Slot(s, p, i)}
  BY DEF Shrinks
<1>1. FileAt(t, p) = FileAt(s, p) \/ FileAt(t, p) = NoFile
  <2>1. CASE p = Root
    BY <2>1, FileTypes
  <2>2. CASE p # Root
    <3>1. p.blk \in Blocks /\ p.idx \in Js
      BY <2>2, Places DEF Where
    <3> QED BY <2>2, <3>1, FileTypes DEF Plain
  <2> QED BY <2>1, <2>2
<1>2. \A b \in Blocks, i \in Indices : Pointers(Memory(t)[b])[i] \in {0, Pointers(Memory(s)[b])[i]}
  BY DEF Plain
<1> QED BY <1>1, <1>2, SlotsOf

-----------------------------------------------------------------------------
(* Blocks.                                                                 *)

LEMMA CacheSet ==
  ASSUME NEW s, Typed(s), NEW b \in Blocks, NEW c, Page(c), c.kind # "unmapped",
         NEW t, t = [s EXCEPT !.cache[b] = c]
  PROVE  /\ Typed(t) /\ t.free = s.free /\ t.root = s.root
         /\ InMemory(s, t)
         /\ t.cache[b] = c /\ Memory(t)[b] = c
         /\ \A k \in Blocks : k # b => t.cache[k] = s.cache[k] /\ Memory(t)[k] = Memory(s)[k]
<1>1. /\ DOMAIN t = DOMAIN s /\ t.free = s.free /\ t.disk_free = s.disk_free /\ t.dirty = s.dirty
      /\ t.root = s.root /\ t.disk = s.disk /\ t.cache = [s.cache EXCEPT ![b] = c]
  BY DEF Typed
<1>2. c # Unmapped
  BY DEF Unmapped
<1>3. /\ t.cache[b] = c /\ DOMAIN t.cache = Blocks
      /\ \A k \in Blocks : k # b => t.cache[k] = s.cache[k]
  BY <1>1 DEF Typed
<1>4. t.cache = [k \in Blocks |-> t.cache[k]]
  BY <1>1, <1>3
<1>5. Typed(t)
  BY <1>1, <1>3, <1>4 DEF Typed
<1>6. Memory(t)[b] = c /\ \A k \in Blocks : k # b => Memory(t)[k] = Memory(s)[k]
  BY <1>1, <1>2, <1>3 DEF Memory
<1> QED BY <1>1, <1>3, <1>5, <1>6 DEF InMemory

LEMMA ReadTyped ==
  ASSUME NEW s, Typed(s), NEW b \in Blocks, NEW t, t = [s EXCEPT !.cache[b] = s.disk[b]],
         s.cache[b] = Unmapped
  PROVE  Quiet(s, t)
<1>1. /\ DOMAIN t = DOMAIN s /\ t.free = s.free /\ t.disk_free = s.disk_free /\ t.dirty = s.dirty
      /\ t.root = s.root /\ t.disk = s.disk /\ t.cache = [s.cache EXCEPT ![b] = s.disk[b]]
  BY DEF Typed
<1>2. /\ t.cache[b] = s.disk[b] /\ DOMAIN t.cache = Blocks
      /\ \A k \in Blocks : k # b => t.cache[k] = s.cache[k]
  BY <1>1 DEF Typed
<1>3. t.cache = [k \in Blocks |-> t.cache[k]]
  BY <1>1, <1>2
<1>4. Typed(t)
  BY <1>1, <1>2, <1>3 DEF Typed
<1>5. \A k \in Blocks : Memory(t)[k] = Memory(s)[k]
  BY <1>1, <1>2 DEF Memory
<1> QED BY <1>1, <1>4, <1>5, PagesLost DEF Quiet, InMemory

LEMMA QuietSound ==
  ASSUME NEW s, NEW t, Quiet(s, t)
  PROVE  /\ Sound(s) => Sound(t)
         /\ \A b : Fresh(s, b) => Fresh(t, b)
BY ShrinkSound, FreshStays DEF Quiet

LEMMA QuietSelf == \A s : Typed(s) => Quiet(s, s)
BY DEF Quiet, Shrinks, InMemory

LEMMA QuietIs ==
  ASSUME NEW s, NEW t, Typed(s), Quiet(s, t)
  PROVE  Same(s, t) /\ Grows(s, t)
<1>1. \A p, i : Cell(t, p, i) = Cell(s, p, i)
  BY DEF Quiet, InMemory, Cell, OnDisk
<1> QED BY <1>1 DEF Quiet, InMemory, Same, Grows, Near, Shrinks, Typed

LEMMA SameSound ==
  ASSUME NEW s, NEW t, Same(s, t)
  PROVE  Sound(s) => Sound(t)
BY ShrinkSound DEF Same

LEMMA SameSelf == \A s : Typed(s) => Same(s, s)
BY QuietIs, QuietSelf

LEMMA SameTrans ==
  ASSUME NEW s, NEW t, NEW u, Same(s, t), Same(t, u)
  PROVE  Same(s, u)
<1>1. Shrinks(s, u) /\ Typed(u)
  BY DEF Same, Shrinks
<1>2. ASSUME NEW b \in u.dirty \ s.dirty PROVE \E p \in Where, i \in Indices : b = Slot(s, p, i)
  <2>1. CASE b \in t.dirty
    BY <1>2, <2>1 DEF Same
  <2>2. CASE b \notin t.dirty
    <3>1. PICK p \in Where, i \in Indices : b = Slot(t, p, i)
      BY <1>2, <2>2 DEF Same
    <3>2. b # 0 /\ i \in Slots
      BY <1>1, <1>2, Numbers DEF Typed
    <3> QED BY <3>1, <3>2 DEF Same, Shrinks
  <2> QED BY <2>1, <2>2
<1>3. \A b \in Blocks \ u.dirty : u.disk[b] = s.disk[b]
  BY DEF Same
<1>4. \A p \in Where, i \in Cells : Cell(u, p, i) \in {0, Cell(s, p, i), Slot(s, p, i)}
  BY Numbers DEF Same, Shrinks, Cells
<1> QED BY <1>1, <1>2, <1>3, <1>4 DEF Same

(* A block that has just been taken is used. *)
LEMMA SetGrows ==
  ASSUME NEW s, NEW t, NEW u, Grows(s, t), NEW f, NEW n, NEW b \in s.free,
         Sets(t, u, f, n, b), InMemory(t, u), u.free = t.free
  PROVE  Grows(s, u)
BY DEF Grows, Near, Sets, InMemory

LEMMA DropsOf ==
  /\ \A s, t : Quiet(s, t) => Drops(s, t)
  /\ \A s, t, u : Drops(s, t) /\ Drops(t, u) => Drops(s, u)
  /\ \A s, t : Typed(s) /\ Drops(s, t) => Near(s, t)
BY DEF Quiet, Drops, Shrinks, InMemory, Near, Typed

LEMMA GrowsTrans ==
  ASSUME NEW s, NEW t, NEW u, Grows(s, t)
  PROVE  (Near(t, u) => Near(s, u)) /\ (Grows(t, u) => Grows(s, u))
BY DEF Grows, Near

LEMMA ReadBlock ==
  ASSUME NEW s, Typed(s), NEW b \in Blocks
  PROVE  Quiet(s, read_block(s, b).fs) /\ (read_block(s, b).err = "ok" => read_block(s, b).r \in Blocks)
<1> DEFINE u == [s EXCEPT !.cache[b] = s.disk[b]]
<1>1. CASE read_block(s, b) = Fail(s, "panic") \/ read_block(s, b) = Ok(s, b)
  <2>1. /\ read_block(s, b).fs = s /\ read_block(s, b).err \in {"ok", "panic"}
        /\ read_block(s, b).err = "ok" => read_block(s, b).r = b
    BY <1>1, Results
  <2> QED BY <2>1, QuietSelf
<1>2. CASE s.cache[b] = Unmapped /\ read_block(s, b) = Ok(u, b)
  <2>1. Quiet(s, u)
    BY <1>2, ReadTyped DEF Quiet
  <2> HIDE DEF u
  <2>2. read_block(s, b).fs = u /\ read_block(s, b).err = "ok" /\ read_block(s, b).r = b
    BY <1>2, Results
  <2> QED BY <2>1, <2>2
<1> QED BY <1>1, <1>2 DEF read_block

LEMMA MapBlock ==
  ASSUME NEW s, Typed(s), NEW b \in Blocks
  PROVE  Quiet(s, map_block(s, b))
<1>1. CASE s.cache[b] = Unmapped
  <2> DEFINE t == [s EXCEPT !.cache[b] = Zero]
  <2>1. Zero.kind = "zero"
    BY DEF Zero
  <2>2. Page(Zero) /\ Plain(Zero)
    BY <2>1, PlainPage DEF Plain
  <2>3. /\ Typed(t) /\ t.free = s.free /\ t.root = s.root /\ Memory(t)[b] = Zero
        /\ InMemory(s, t)
        /\ \A k \in Blocks : k # b => Memory(t)[k] = Memory(s)[k]
    BY <2>1, <2>2, CacheSet
  <2>4. Shrinks(s, t)
    BY <2>2, <2>3, PagesLost
  <2> QED BY <1>1, <2>3, <2>4 DEF map_block, Quiet, InMemory
<1>2. CASE s.cache[b] # Unmapped
  BY <1>2, QuietSelf DEF map_block
<1> QED BY <1>1, <1>2

LEMMA OtherFields ==
  ASSUME NEW s, Typed(s), NEW t, Typed(t), t.cache = s.cache, t.disk = s.disk, t.root = s.root
  PROVE  Memory(t) = Memory(s) /\ Shrinks(s, t) /\ Shrinks(t, s)
<1>1. Memory(t) = Memory(s)
  BY DEF Memory
<1> QED BY <1>1, PagesLost

LEMMA DirtyBlock ==
  ASSUME NEW s, Typed(s), NEW b \in Blocks,
         NEW p \in Where, NEW i \in Indices, b = Slot(s, p, i)
  PROVE  Same(s, dirty_block(s, b))
<1> DEFINE t == [s EXCEPT !.dirty = @ \cup {b}]
<1>1. /\ DOMAIN t = DOMAIN s /\ t.free = s.free /\ t.disk_free = s.disk_free
      /\ t.dirty = s.dirty \cup {b} /\ t.root = s.root /\ t.disk = s.disk /\ t.cache = s.cache
  BY DEF Typed
<1>2. Typed(t)
  BY <1>1 DEF Typed
<1>3. \A q, k : Cell(t, q, k) = Cell(s, q, k)
  BY <1>1 DEF Cell, OnDisk
<1>4. Same(s, t)
  BY <1>1, <1>2, <1>3, OtherFields DEF Same
<1> QED BY <1>4, SameSelf DEF dirty_block

LEMMA WriteBlocks ==
  ASSUME NEW s, Typed(s), NEW B, B \subseteq s.dirty
  PROVE  Same(s, write_blocks(s, B))
<1> DEFINE d == [b \in Blocks |-> IF b \in B THEN s.cache[b] ELSE s.disk[b]]
           t == [s EXCEPT !.disk = d]
<1>1. /\ DOMAIN t = DOMAIN s /\ t.free = s.free /\ t.disk_free = s.disk_free /\ t.dirty = s.dirty
      /\ t.root = s.root /\ t.cache = s.cache /\ t.disk = d
  BY DEF Typed
<1>2. Typed(t)
  BY <1>1 DEF Typed
<1>3. ASSUME NEW b \in Blocks PROVE Memory(t)[b] = Memory(s)[b] \/ Plain(Memory(t)[b])
  <2>1. Unmapped.kind = "unmapped"
    BY DEF Unmapped
  <2>2. Plain(Unmapped)
    BY <2>1, PlainPage DEF Plain
  <2> QED BY <1>1, <2>2 DEF Memory
<1>4. ASSUME NEW p \in Where, NEW i \in Cells
      PROVE  Cell(t, p, i) \in {0, Cell(s, p, i), Slot(s, p, i)}
  <2>1. i \in Slots /\ (i # NINDIRECT => i \in Directs)
    BY Numbers DEF Cells
  <2>2. CASE OnDisk(t, p) = OnDisk(s, p)
    BY <2>2 DEF Cell
  <2>3. CASE OnDisk(t, p) = Get(s, p)
    BY <2>1, <2>3, GetIs, SlotIs, EmptyFile DEF Cell
  <2>4. OnDisk(t, p) = OnDisk(s, p) \/ OnDisk(t, p) = Get(s, p)
    <3>1. CASE p = Root
      BY <3>1 DEF OnDisk, At
    <3>2. CASE p # Root
      <4>1. p.blk \in Blocks
        BY <3>2, Places DEF Where
      <4> QED BY <1>1, <3>2, <4>1 DEF OnDisk, At, Get
    <3> QED BY <3>1, <3>2
  <2> QED BY <2>2, <2>3, <2>4
<1>5. Shrinks(s, t)
  BY <1>1, <1>2, <1>3, PagesLost
<1>6. \A b \in Blocks \ t.dirty : t.disk[b] = s.disk[b]
  BY <1>1
<1> HIDE DEF t
<1>7. Same(s, t)
  BY <1>1, <1>2, <1>4, <1>5, <1>6 DEF Same
<1>8. write_blocks(s, B) = t
  BY DEF write_blocks, t
<1> QED BY <1>7, <1>8

Less == {ss \in Nat \X Nat : ss[1] < ss[2]}

LEMMA LessWellFounded == IsWellFoundedOn(Less, Nat)
<1>1. OpToRel(<, Nat) = Less
  BY Zenon DEF OpToRel, Less
<1> QED BY <1>1, NatLessThanWellFounded, Zenon

(* The smallest of some numbers is one of them.                            *)
LEMMA MinIn ==
  ASSUME NEW S \in SUBSET Nat, S # {}
  PROVE  Min(S) \in S /\ \A y \in S : Min(S) <= y
<1>1. PICK x \in S : \A y \in S : ~(<<y, x>> \in Less)
  BY LessWellFounded, WFMin
<1>2. ASSUME NEW y \in S PROVE x <= y
  <2>1. x \in Nat /\ y \in Nat /\ ~(<<y, x>> \in Less)
    BY <1>1
  <2>2. <<y, x>> \in Nat \X Nat => ~(y < x)
    BY <2>1 DEF Less
  <2> QED BY <2>1, <2>2
<1>3. \E m \in S : \A y \in S : m <= y
  BY <1>2
<1> QED BY <1>3 DEF Min

LEMMA AllocBlock ==
  ASSUME NEW s, Sound(s)
  PROVE  LET a == alloc_block(s) IN
         /\ Sound(a.fs) /\ a.err \in {"ok", "E_NO_DISK"} /\ Grows(s, a.fs)
         /\ a.err = "ok" => Fresh(a.fs, a.r) /\ a.r \in s.free
<1>1. CASE s.free = {}
  <2>1. alloc_block_num(s) = Fail(s, "E_NO_DISK")
    BY <1>1 DEF alloc_block_num
  <2>2. Grows(s, s)
    BY QuietIs, QuietSelf DEF Sound
  <2> QED BY <2>1, <2>2 DEF alloc_block, Then, Fail
<1>2. CASE s.free # {}
  <2> DEFINE b == Min(s.free)
             u == [s EXCEPT !.free = @ \ {b}, !.disk_free = s.free \ {b}]
  <2>1. s.free \subseteq Blocks /\ b \in s.free
    BY <1>2, Numbers, MinIn DEF Sound, Typed
  <2>2. alloc_block_num(s) = Ok(u, b)
    BY <1>2 DEF alloc_block_num
  <2> HIDE DEF b
  <2>3. /\ DOMAIN u = DOMAIN s /\ u.free = s.free \ {b} /\ u.disk_free = s.free \ {b}
        /\ u.dirty = s.dirty /\ u.root = s.root /\ u.disk = s.disk /\ u.cache = s.cache
    BY DEF Sound, Typed
  <2>4. Typed(u)
    BY <2>1, <2>3 DEF Sound, Typed
  <2>5. Shrinks(s, u)
    BY <2>3, <2>4, OtherFields DEF Sound
  <2>6. Sound(u)
    BY <2>3, <2>4, <2>5, ShrinkSound
  <2>7. Fresh(u, b)
    BY <2>1, <2>3, <2>5, Numbers DEF Fresh, Shrinks, Sound, NotFree
  <2>8. Grows(s, u)
    BY <2>3, <2>5 DEF Grows, Near, Shrinks
  <2> HIDE DEF u
  <2>9. alloc_block(s) = Ok(map_block(u, b), b)
    <3>1. /\ alloc_block_num(s).fs = u /\ alloc_block_num(s).r = b
          /\ alloc_block_num(s).err = "ok"
      BY <2>2, Results
    <3> QED BY <3>1 DEF alloc_block, Then
  <2>10. Sound(map_block(u, b)) /\ Fresh(map_block(u, b), b) /\ Grows(s, map_block(u, b))
    BY <2>1, <2>4, <2>6, <2>7, <2>8, MapBlock, QuietSound, QuietIs, GrowsTrans
  <2>11. /\ alloc_block(s).fs = map_block(u, b) /\ alloc_block(s).err = "ok"
         /\ alloc_block(s).r = b
    BY <2>9, Results
  <2> QED BY <2>1, <2>10, <2>11
<1> QED BY <1>1, <1>2

-----------------------------------------------------------------------------
(* Assignments to a File.                                                  *)

(* x has the pointers of y or fewer.                                       *)
Under(x, y) ==
  x.indirect \in {0, y.indirect} /\ \A i \in Directs : x.direct[i] \in {0, y.direct[i]}

LEMMA PutIs ==
  ASSUME NEW s, Typed(s), NEW f \in Where, NEW x \in File
  PROVE  LET t == Put(s, f, x) IN
         /\ Typed(t) /\ t.free = s.free /\ InMemory(s, t) /\ FileAt(t, f) = x
         /\ \A p \in Where : p # f => FileAt(t, p) = FileAt(s, p) \/ FileAt(t, p) = NoFile
         /\ \A b \in Blocks, i \in Indices :
              Pointers(Memory(t)[b])[i] \in {0, Pointers(Memory(s)[b])[i]}
         /\ Get(t, f) = x
<1> DEFINE t == Put(s, f, x)
<1>1. CASE f = Root
  <2>1. t = [s EXCEPT !.root = x]
    BY <1>1 DEF Put
  <2>2. /\ DOMAIN t = DOMAIN s /\ t.free = s.free /\ t.disk_free = s.disk_free /\ t.dirty = s.dirty
        /\ t.root = x /\ t.disk = s.disk /\ t.cache = s.cache
    BY <2>1 DEF Typed
  <2> HIDE DEF t
  <2>3. Typed(t)
    BY <2>2 DEF Typed
  <2>4. Memory(t) = Memory(s)
    BY <2>2 DEF Memory
  <2>5. FileAt(t, f) = x /\ Get(t, f) = x
    BY <1>1, <2>2 DEF FileAt, At, Get
  <2>6. \A p \in Where : p # f => FileAt(t, p) = FileAt(s, p)
    BY <1>1, <2>4 DEF FileAt, At
  <2> QED BY <2>2, <2>3, <2>4, <2>5, <2>6 DEF t, InMemory
<1>2. CASE f # Root
  <2> DEFINE b == f.blk
             e == [Entries(s.cache[b]) EXCEPT ![f.idx] = x]
  <2>1. b \in Blocks /\ f.idx \in Js /\ f \in InBlocks
    BY <1>2, Places DEF Where
  <2>2. Entries(s.cache[b]) \in [Js -> File]
    BY <2>1 DEF Typed, Page
  <2>3. e \in [Js -> File] /\ e[f.idx] = x /\ \A j \in Js : j # f.idx => e[j] = Entries(s.cache[b])[j]
    BY <2>1, <2>2
  <2>4. t = [s EXCEPT !.cache[b] = DirBlock(e)]
    BY <1>2 DEF Put
  <2> HIDE DEF b, e, t
  <2>5. DirBlock(e).kind = "dir"
    BY DEF DirBlock
  <2>6. /\ Typed(t) /\ t.free = s.free /\ t.root = s.root /\ InMemory(s, t)
        /\ t.cache[b] = DirBlock(e) /\ Memory(t)[b] = DirBlock(e)
        /\ \A k \in Blocks : k # b => Memory(t)[k] = Memory(s)[k]
    <3> DEFINE c == DirBlock(e)
    <3>1. Page(c) /\ c.kind # "unmapped"
      BY <2>3, <2>5, FilesPage
    <3>2. t = [s EXCEPT !.cache[b] = c]
      BY <2>4
    <3> HIDE DEF c
    <3>3. /\ Typed(t) /\ t.free = s.free /\ t.root = s.root /\ InMemory(s, t)
          /\ t.cache[b] = c /\ Memory(t)[b] = c
          /\ \A k \in Blocks : k # b => Memory(t)[k] = Memory(s)[k]
      <4>1. t.cache[b] = c
        BY <2>1, <3>2 DEF Typed
      <4> QED BY <2>1, <3>1, <3>2, <4>1, CacheSet
    <3> QED BY <3>3 DEF c
  <2>7. Entries(DirBlock(e)) = e /\ \A i \in Indices : Pointers(DirBlock(e))[i] = 0
    BY <2>3, FilesPage
  <2>8. FileAt(t, f) = x /\ Get(t, f) = x
    BY <1>2, <2>3, <2>6, <2>7 DEF FileAt, At, Get, b
  <2>9. ASSUME NEW p \in Where, p # f
        PROVE  FileAt(t, p) = FileAt(s, p) \/ FileAt(t, p) = NoFile
    <3>1. CASE p = Root
      BY <2>6, <3>1 DEF FileAt, At
    <3>2. CASE p # Root /\ p.blk # b
      <4>1. p.blk \in Blocks
        BY <3>2, Places DEF Where
      <4> QED BY <2>6, <3>2, <4>1 DEF FileAt, At
    <3>3. CASE p # Root /\ p.blk = b
      <4>1. p \in InBlocks /\ p.idx \in Js /\ p.idx # f.idx
        BY <2>1, <2>9, <3>3, Places DEF Where, b
      <4>2. FileAt(t, p) = Entries(s.cache[b])[p.idx]
        BY <2>3, <2>6, <2>7, <3>3, <4>1 DEF FileAt, At
      <4>3. Get(s, p) = FileAt(t, p)
        BY <3>3, <4>2 DEF Get
      <4> QED BY <4>3, GetIs
    <3> QED BY <3>1, <3>2, <3>3
  <2>10. \A k \in Blocks, i \in Indices :
           Pointers(Memory(t)[k])[i] \in {0, Pointers(Memory(s)[k])[i]}
    BY <2>6, <2>7
  <2> QED BY <2>6, <2>8, <2>9, <2>10 DEF t
<1> QED BY <1>1, <1>2

LEMMA PutOthers ==
  ASSUME NEW s, Typed(s), NEW f \in Where, NEW x \in File, NEW p \in Where, p # f
  PROVE  \A i \in Slots : Slot(Put(s, f, x), p, i) \in {0, Slot(s, p, i)}
<1>1. /\ Typed(Put(s, f, x))
      /\ FileAt(Put(s, f, x), p) = FileAt(s, p) \/ FileAt(Put(s, f, x), p) = NoFile
      /\ \A b \in Blocks, i \in Indices :
           Pointers(Memory(Put(s, f, x))[b])[i] \in {0, Pointers(Memory(s)[b])[i]}
  BY PutIs
<1> QED BY <1>1, SlotsOf

(* Slot i of the File that is assigned.                                    *)
LEMMA PutSlot ==
  ASSUME NEW s, Typed(s), NEW f \in Where, NEW x \in File, NEW i \in Slots
  PROVE  LET t == Put(s, f, x) IN
         /\ i = NINDIRECT => Slot(t, f, i) = x.indirect
         /\ i \in Directs => Slot(t, f, i) = x.direct[i]
         /\ i # NINDIRECT /\ i \notin Directs /\ x.indirect \in {0, FileAt(s, f).indirect} =>
              Slot(t, f, i) \in {0, Slot(s, f, i)}
<1> DEFINE t == Put(s, f, x)
<1>1. /\ Typed(t) /\ FileAt(t, f) = x
      /\ \A b \in Blocks, k \in Indices :
           Pointers(Memory(t)[b])[k] \in {0, Pointers(Memory(s)[b])[k]}
  BY PutIs
<1> HIDE DEF t
<1>2. i = NINDIRECT => Slot(t, f, i) = x.indirect
  BY <1>1, SlotIs
<1>3. i \in Directs => Slot(t, f, i) = x.direct[i]
  BY <1>1, SlotIs
<1>4. ASSUME i # NINDIRECT, i \notin Directs, x.indirect \in {0, FileAt(s, f).indirect}
      PROVE  Slot(t, f, i) \in {0, Slot(s, f, i)}
  <2>1. CASE x.indirect = 0
    BY <1>1, <1>4, <2>1, SlotIs
  <2>2. CASE x.indirect # 0
    <3>1. x.indirect \in Blocks /\ FileAt(s, f).indirect = x.indirect /\ i \in Indices
      BY <1>4, <2>2, FileFields, SlotIs
    <3>2. Slot(t, f, i) = Pointers(Memory(t)[x.indirect])[i]
      BY <1>1, <1>4, <2>2, SlotIs
    <3>3. Slot(s, f, i) = Pointers(Memory(s)[x.indirect])[i]
      BY <1>4, <2>2, <3>1, SlotIs
    <3> QED BY <1>1, <3>1, <3>2, <3>3
  <2> QED BY <2>1, <2>2
<1> QED BY <1>2, <1>3, <1>4 DEF t

LEMMA PutUnder ==
  ASSUME NEW s, Typed(s), NEW f \in Where, NEW x \in File, Under(x, Get(s, f))
  PROVE  Quiet(s, Put(s, f, x))
<1> DEFINE t == Put(s, f, x)
<1>1. Under(x, FileAt(s, f))
  BY GetIs, EmptyFile DEF Under
<1>2. Typed(t) /\ t.free = s.free /\ InMemory(s, t)
  BY PutIs
<1>3. ASSUME NEW i \in Slots PROVE Slot(t, f, i) \in {0, Slot(s, f, i)}
  BY <1>1, PutSlot, SlotIs DEF Under
<1>4. \A p \in Where, i \in Slots : p # f => Slot(t, p, i) \in {0, Slot(s, p, i)}
  BY PutOthers
<1> HIDE DEF t
<1>5. Shrinks(s, t)
  BY <1>3, <1>4 DEF Shrinks
<1> QED BY <1>2, <1>5 DEF Quiet, t

LEMMA PutDirect ==
  ASSUME NEW s, Typed(s), NEW f \in Where, NEW n \in Directs, NEW b \in Blocks \cup {0}
  PROVE  LET t == Put(s, f, [Get(s, f) EXCEPT !.direct[n] = b]) IN
         Typed(t) /\ t.free = s.free /\ InMemory(s, t) /\ Sets(s, t, f, n, b)
<1> DEFINE x == [Get(s, f) EXCEPT !.direct[n] = b]
           t == Put(s, f, x)
<1>1. Get(s, f) \in File
  BY GetIs
<1>2. x \in File
  BY <1>1 DEF File, Directs
<1>3. /\ x.indirect = Get(s, f).indirect /\ x.direct[n] = b
      /\ \A i \in Directs : i # n => x.direct[i] = Get(s, f).direct[i]
  BY <1>1 DEF File, Directs
<1> HIDE DEF x
<1>4. /\ x.indirect \in {0, FileAt(s, f).indirect}
      /\ \A i \in Directs : i # n => x.direct[i] \in {0, FileAt(s, f).direct[i]}
  BY <1>3, GetIs, EmptyFile
<1>5. Typed(t) /\ t.free = s.free /\ InMemory(s, t)
  BY <1>2, PutIs
<1>6. n \in Slots /\ Slot(t, f, n) = b
  BY <1>2, <1>3, PutSlot, Numbers
<1>7. ASSUME NEW i \in Slots, i # n PROVE Slot(t, f, i) \in {0, Slot(s, f, i)}
  BY <1>2, <1>4, <1>7, PutSlot, SlotIs
<1>8. \A p \in Where, i \in Slots : p # f => Slot(t, p, i) \in {0, Slot(s, p, i)}
  BY <1>2, PutOthers
<1> HIDE DEF t
<1>9. Sets(s, t, f, n, b)
  BY <1>6, <1>7, <1>8 DEF Sets
<1> QED BY <1>5, <1>9 DEF t, x

(* The indirect block that a File gets must be empty, or it is lost.       *)
LEMMA PutIndirect ==
  ASSUME NEW s, Typed(s), NEW f \in Where, NEW x \in File, NEW b \in Blocks \cup {0},
         x.indirect = b, \A i \in Directs : x.direct[i] = Get(s, f).direct[i],
         b # 0 => Put(s, f, x).cache[b] = Zero
  PROVE  Sets(s, Put(s, f, x), f, NINDIRECT, b)
<1> DEFINE t == Put(s, f, x)
<1>1. Typed(t) /\ FileAt(t, f) = x
  BY PutIs
<1>2. \A i \in Directs : x.direct[i] \in {0, FileAt(s, f).direct[i]}
  BY GetIs, EmptyFile
<1>3. NINDIRECT \in Slots /\ Slot(t, f, NINDIRECT) = b
  BY Numbers, PutSlot
<1>4. ASSUME NEW i \in Slots, i # NINDIRECT PROVE Slot(t, f, i) \in {0, Slot(s, f, i)}
  <2>1. CASE i \in Directs
    BY <1>2, <2>1, PutSlot, SlotIs
  <2>2. CASE i \notin Directs /\ b = 0
    BY <1>4, <2>2, PutSlot
  <2>3. CASE i \notin Directs /\ b # 0
    <3> HIDE DEF t
    <3>1. b \in Blocks /\ t.cache[b] = Zero
      BY <2>3 DEF t
    <3>2. Zero.kind = "zero" /\ Zero # Unmapped
      BY DEF Zero, Unmapped
    <3>3. Memory(t)[b] = Zero
      BY <1>1, <3>1, <3>2, MemoryPages
    <3>4. i \in Indices /\ Slot(t, f, i) = Pointers(Memory(t)[b])[i]
      BY <1>1, <1>4, <2>3, SlotIs
    <3> QED BY <3>2, <3>3, <3>4, PlainPage
  <2> QED BY <2>1, <2>2, <2>3
<1>5. \A p \in Where, i \in Slots : p # f => Slot(t, p, i) \in {0, Slot(s, p, i)}
  BY PutOthers
<1> HIDE DEF t
<1>6. Sets(s, t, f, NINDIRECT, b)
  BY <1>3, <1>4, <1>5 DEF Sets
<1> QED BY <1>6 DEF t

(* The assignment through a pointer. *)
LEMMA SetPtrSets ==
  ASSUME NEW s, Typed(s), Unique(s), NEW f \in Where, NEW n \in Indices,
         NEW b \in Blocks \cup {0}
  PROVE  LET t == SetPtr(s, f, n, b) IN
         /\ Typed(t) /\ t.free = s.free /\ InMemory(s, t)
         /\ IF n < NDIRECT \/ Get(s, f).indirect # 0 THEN Sets(s, t, f, n, b) ELSE Quiet(s, t)
<1> DEFINE t == SetPtr(s, f, n, b)
           m == Get(s, f).indirect
<1>1. CASE n < NDIRECT
  <2>1. n \in Directs
    BY <1>1, Numbers DEF Indices, Directs
  <2> QED BY <1>1, <2>1, PutDirect DEF SetPtr
<1>2. CASE ~(n < NDIRECT)
  <2> DEFINE ps == [Pointers(s.cache[m]) EXCEPT ![n] = b]
             c == PtrBlock(ps)
  <2>1. t = [s EXCEPT !.cache[m] = c]
    BY <1>2 DEF SetPtr
  <2>2. m \in Blocks \cup {0} /\ n \in Slots /\ n # NINDIRECT /\ n \notin Directs
    BY <1>2, GetIs, FileFields, Numbers DEF Directs
  <2>3. CASE m = 0
    <3>1. s.cache = [s.cache EXCEPT ![m] = c]
      BY <2>3, Numbers DEF Typed
    <3>2. /\ DOMAIN t = DOMAIN s /\ t.free = s.free /\ t.disk_free = s.disk_free
          /\ t.dirty = s.dirty /\ t.root = s.root /\ t.disk = s.disk /\ t.cache = s.cache
      BY <2>1, <3>1 DEF Typed
    <3> HIDE DEF t
    <3>3. Typed(t)
      BY <3>2 DEF Typed
    <3>4. Quiet(s, t)
      BY <3>2, <3>3, OtherFields DEF Quiet, InMemory
    <3> QED BY <1>2, <2>3, <3>2, <3>3, <3>4 DEF t, InMemory
  <2>4. CASE m # 0
    <3>1. m \in Blocks /\ FileAt(s, f).indirect = m
      BY <2>2, <2>4, GetIs, EmptyFile
    <3>2. Pointers(s.cache[m]) \in Ptrs
      BY <3>1 DEF Typed, Page
    <3>3. /\ ps \in Ptrs /\ ps[n] = b
          /\ \A i \in Indices : i # n => ps[i] = Pointers(s.cache[m])[i]
      BY <3>2 DEF Ptrs
    <3> HIDE DEF ps
    <3>4. Page(c) /\ Entries(c) = [j \in Js |-> NoFile] /\ Pointers(c) = ps
      BY <3>3, PointersPage
    <3>5. c.kind # "unmapped"
      BY DEF PtrBlock, Zero
    <3> HIDE DEF m, c, t
    <3>6. /\ Typed(t) /\ t.free = s.free /\ t.root = s.root /\ InMemory(s, t)
          /\ Memory(t)[m] = c /\ \A k \in Blocks : k # m => Memory(t)[k] = Memory(s)[k]
      BY <2>1, <3>1, <3>4, <3>5, CacheSet
    <3>7. ASSUME NEW p \in Where
          PROVE  FileAt(t, p) = FileAt(s, p) \/ FileAt(t, p) = NoFile
      <4>1. CASE p = Root
        BY <3>6, <4>1 DEF FileAt, At
      <4>2. CASE p # Root
        <5>1. p.blk \in Blocks /\ p.idx \in Js
          BY <4>2, Places DEF Where
        <5> QED BY <3>4, <3>6, <4>2, <5>1 DEF FileAt, At
      <4> QED BY <4>1, <4>2
    <3>8. \A k \in Blocks, i \in Indices : k # m \/ i # n =>
            Pointers(Memory(t)[k])[i] \in {0, Pointers(Memory(s)[k])[i]}
      BY <3>1, <3>3, <3>4, <3>6, CachedPointers
    <3>9. Slot(t, f, n) \in {0, b}
      <4>1. CASE FileAt(t, f) = NoFile
        BY <2>2, <3>6, <4>1, SlotIs, EmptyFile
      <4>2. CASE FileAt(t, f) = FileAt(s, f)
        BY <2>2, <3>1, <3>3, <3>4, <3>6, <4>2, SlotIs
      <4> QED BY <3>7, <4>1, <4>2
    <3>10. ASSUME NEW p \in Where, NEW i \in Slots, p # f \/ i # n
           PROVE  Slot(t, p, i) \in {0, Slot(s, p, i)}
      <4>1. CASE FileAt(t, p) = NoFile
        BY <3>6, <4>1, SlotIs, EmptyFile
      <4>2. CASE FileAt(t, p) = FileAt(s, p) /\ (i = NINDIRECT \/ i \in Directs)
        BY <3>6, <4>2, SlotIs
      <4>3. CASE FileAt(t, p) = FileAt(s, p) /\ i # NINDIRECT /\ i \notin Directs
        <5> DEFINE k == FileAt(s, p).indirect
        <5>1. CASE k = 0
          BY <3>6, <4>3, <5>1, SlotIs
        <5>2. CASE k # 0
          <6>1. k \in Blocks /\ i \in Indices
            BY <4>3, <5>2, FileTypes, FileFields, SlotIs
          <6>2. k # m \/ i # n
            <7>1. Slot(s, p, NINDIRECT) = k /\ Slot(s, f, NINDIRECT) = m /\ NINDIRECT \in Slots
              BY <3>1, Numbers, SlotIs
            <7>2. k = m => p = f
              BY <5>2, <7>1 DEF Unique
            <7> QED BY <3>10, <7>2
          <6>3. Slot(t, p, i) = Pointers(Memory(t)[k])[i] /\ Slot(s, p, i) = Pointers(Memory(s)[k])[i]
            BY <3>6, <4>3, <5>2, SlotIs
          <6> HIDE DEF k
          <6> QED BY <3>8, <6>1, <6>2, <6>3
        <5> QED BY <5>1, <5>2
      <4> QED BY <3>7, <4>1, <4>2, <4>3
    <3>11. Sets(s, t, f, n, b)
      BY <3>9, <3>10 DEF Sets
    <3> QED BY <2>4, <3>6, <3>11 DEF t, m
  <2> QED BY <2>3, <2>4
<1> QED BY <1>1, <1>2

LEMMA FreeBlock ==
  ASSUME NEW s, Typed(s), NEW b \in Blocks
  PROVE  LET t == free_block(s, b) IN
         /\ Typed(t) /\ t.free = s.free \cup {b} /\ Shrinks(s, t) /\ Shrinks(t, s)
         /\ InMemory(s, t) /\ \A f : Get(t, f) = Get(s, f)
<1> DEFINE t == free_block(s, b)
<1>1. b # 0 /\ ~(b >= NBlocks)
  BY Numbers DEF Blocks
<1>2. t = [s EXCEPT !.free = @ \cup {b}]
  BY <1>1 DEF free_block
<1>3. /\ DOMAIN t = DOMAIN s /\ t.free = s.free \cup {b} /\ t.disk_free = s.disk_free
      /\ t.dirty = s.dirty /\ t.root = s.root /\ t.disk = s.disk /\ t.cache = s.cache
  BY <1>2 DEF Typed
<1> HIDE DEF t
<1>4. Typed(t)
  BY <1>3 DEF Typed
<1>5. Shrinks(s, t) /\ Shrinks(t, s)
  BY <1>3, <1>4, OtherFields
<1>6. \A f : Get(t, f) = Get(s, f)
  BY <1>3 DEF Get
<1> QED BY <1>3, <1>4, <1>5, <1>6 DEF t, InMemory

-----------------------------------------------------------------------------
(* The functions of fs.c.  A call that stops the server may leave a state  *)
(* that is not sound: the server serves no more.                           *)

Good(t) == Typed(t.fs) /\ (t.err \notin Stops => Sound(t.fs))

LEMMA GoodOf ==
  /\ \A t : Sound(t.fs) => Good(t)
  /\ \A t : Good(t) /\ t.err = "ok" => Sound(t.fs)
  /\ \A s, x : Sound(s) => Good(Ok(s, x))
  /\ \A s, e : Sound(s) => Good(Fail(s, e))
  /\ \A s, e : Typed(s) /\ e \in Stops => Good(Fail(s, e))
BY Results DEF Good, Sound, Stops

LEMMA SoundIs == \A s : Sound(s) => Typed(s) /\ Unique(s)
BY DEF Sound

(* A call that allocates.  When it stops the server, the disk is what it   *)
(* was.                                                                    *)
DiskKept(s, t) == t.fs.disk = s.disk /\ t.fs.disk_free \subseteq s.free
Grown(s, t) == DiskKept(s, t) /\ (t.err \notin Stops => Grows(s, t.fs))

(* A call that may free and then writes. *)
Settles(s, t) == \E m : Drops(s, m) /\ Sound(m) /\ Same(m, t)
Settled(s, t) ==
  (t.err \in Stops => DiskKept(s, t)) /\ (t.err \notin Stops => Settles(s, t.fs))

LEMMA SettlesOf ==
  /\ \A s, t : Drops(s, t) /\ Sound(t) => Settles(s, t)
  /\ \A s, t, u : Settles(s, t) /\ Same(t, u) => Settles(s, u)
  /\ \A s, t : Typed(s) /\ Drops(s, t.fs) /\ Good(t) => Settled(s, t)
<1>1. \A s, t : Drops(s, t) /\ Sound(t) => Settles(s, t)
  BY SoundIs, SameSelf DEF Settles
<1>2. \A s, t, u : Settles(s, t) /\ Same(t, u) => Settles(s, u)
  BY SameTrans DEF Settles
<1>3. \A s, t : Typed(s) /\ Drops(s, t.fs) => DiskKept(s, t)
  BY DEF Typed, Drops, InMemory, DiskKept
<1> QED BY <1>1, <1>2, <1>3 DEF Good, Settled

LEMMA GrownOf ==
  /\ \A s, t : Grown(s, t) /\ t.err \notin Stops => Grows(s, t.fs)
  /\ \A s, t : Grows(s, t.fs) => Grown(s, t)
  /\ \A s, t, u : Grows(s, t) /\ Grown(t, u) => Grown(s, u)
<1>1. \A s, t, u : Grows(s, t) /\ DiskKept(t, u) => DiskKept(s, u)
  BY DEF Grows, Near, DiskKept
<1>2. \A s, t : Grows(s, t.fs) => DiskKept(s, t)
  BY DEF Grows, Near, DiskKept
<1> QED BY <1>1, <1>2, GrowsTrans DEF Grown

LEMMA BlockWalk ==
  ASSUME NEW s, Sound(s), NEW f \in Where, NEW i \in Nat, NEW alloc \in BOOLEAN
  PROVE  LET w == file_block_walk(s, f, i, alloc) IN
         /\ Good(w) /\ (w.err = "ok" => i \in Indices) /\ (~alloc => Quiet(s, w.fs))
         /\ Grown(s, w)
<1> DEFINE w == file_block_walk(s, f, i, alloc)
           n == Get(s, f).indirect
<1>1. Typed(s) /\ Unique(s) /\ Quiet(s, s) /\ Grows(s, s) /\ n \in Blocks \cup {0}
  BY SoundIs, QuietSelf, QuietIs, GetIs, FileFields
<1>2. CASE i < NDIRECT
  <2>1. w = Ok(s, 0) /\ i \in Indices
    BY <1>2, Numbers DEF file_block_walk, Indices
  <2> QED BY <1>1, <2>1, Results, GoodOf, GrownOf
<1>3. CASE i >= NINDIRECT
  <2>1. w = Fail(s, "E_INVAL")
    BY <1>3, Numbers DEF file_block_walk
  <2> QED BY <1>1, <2>1, Results, GoodOf, GrownOf
<1>4. CASE ~(i < NDIRECT) /\ ~(i >= NINDIRECT) /\ n # 0
  <2>1. w = read_block(s, n)
    BY <1>4 DEF file_block_walk
  <2>2. n \in Blocks /\ i \in Indices
    BY <1>1, <1>4, Numbers DEF Indices
  <2> HIDE DEF n, w
  <2>3. Quiet(s, w.fs)
    <3>1. Quiet(s, read_block(s, n).fs)
      BY <1>1, <2>2, ReadBlock
    <3> QED BY <2>1, <3>1
  <2>4. Sound(w.fs) /\ Grown(s, w)
    BY <1>1, <2>3, QuietSound, QuietIs, GrownOf
  <2> QED BY <2>2, <2>3, <2>4, GoodOf DEF w
<1>5. CASE ~(i < NDIRECT) /\ ~(i >= NINDIRECT) /\ n = 0 /\ ~alloc
  <2>1. w = Fail(s, "E_NOT_FOUND")
    BY <1>5 DEF file_block_walk
  <2> QED BY <1>1, <2>1, Results, GoodOf, GrownOf
<1>6. CASE ~(i < NDIRECT) /\ ~(i >= NINDIRECT) /\ n = 0 /\ alloc
  <2> DEFINE a == alloc_block(s)
             x == [Get(a.fs, f) EXCEPT !.indirect = a.r]
             t == Put(a.fs, f, x)
  <2>1. w = IF a.err # "ok" THEN a
            ELSE IF t.cache[a.r] # Zero THEN Fail(t, "garbled") ELSE read_block(t, a.r)
    BY <1>6 DEF file_block_walk, Then
  <2>2. /\ Sound(a.fs) /\ a.err \in {"ok", "E_NO_DISK"} /\ Grows(s, a.fs)
        /\ a.err = "ok" => Fresh(a.fs, a.r) /\ a.r \in s.free
    BY AllocBlock
  <2>3. i \in Indices
    BY <1>6, Numbers DEF Indices
  <2> HIDE DEF a
  <2>4. CASE a.err # "ok"
    BY <1>6, <2>1, <2>2, <2>4, GoodOf, GrownOf
  <2>5. CASE a.err = "ok"
    <3>1. Typed(a.fs) /\ a.r \in Blocks
      BY <2>2, <2>5 DEF Sound, Fresh
    <3>2. Get(a.fs, f) \in File
      BY <3>1, GetIs
    <3>3. x \in File /\ x.indirect = a.r /\ \A k \in Directs : x.direct[k] = Get(a.fs, f).direct[k]
      BY <3>1, <3>2 DEF File, Directs
    <3> HIDE DEF x
    <3>4. Typed(t) /\ t.free = a.fs.free /\ InMemory(a.fs, t)
      BY <3>1, <3>3, PutIs
    <3>5. CASE t.cache[a.r] # Zero
      <4>1. w = Fail(t, "garbled")
        BY <2>1, <2>5, <3>5
      <4>2. w.fs = t /\ w.err = "garbled"
        BY <4>1, Results
      <4>3. Grown(s, w)
        BY <2>2, <3>4, <4>2 DEF Grown, DiskKept, Grows, Near, InMemory, Stops
      <4> QED BY <1>6, <2>3, <3>4, <4>1, <4>3, GoodOf DEF Stops
    <3>6. CASE t.cache[a.r] = Zero
      <4>1. Sets(a.fs, t, f, NINDIRECT, a.r)
        BY <3>1, <3>3, <3>6, PutIndirect
      <4> HIDE DEF t, w
      <4>2. Sound(t)
        BY <2>2, <2>5, <3>4, <4>1, SetSound, Numbers
      <4>3. w = read_block(t, a.r)
        BY <2>1, <2>5, <3>6
      <4>4. Quiet(t, w.fs)
        <5>1. Quiet(t, read_block(t, a.r).fs)
          BY <3>1, <3>4, ReadBlock
        <5> QED BY <4>3, <5>1
      <4>5. Sound(w.fs)
        BY <4>2, <4>4, QuietSound
      <4>6. Grows(s, t)
        BY <2>2, <2>5, <3>4, <4>1, SetGrows
      <4>7. Grown(s, w)
        BY <3>4, <4>4, <4>6, QuietIs, GrownOf
      <4> QED BY <1>6, <2>3, <4>5, <4>7, GoodOf DEF w
    <3> QED BY <3>5, <3>6
  <2> QED BY <2>4, <2>5
<1> QED BY <1>2, <1>3, <1>4, <1>5, <1>6

LEMMA MapFileBlock ==
  ASSUME NEW s, Sound(s), NEW f \in Where, NEW i \in Nat, NEW alloc \in BOOLEAN
  PROVE  LET m == file_map_block(s, f, i, alloc) IN
         /\ Good(m) /\ (m.err = "ok" => m.r \in Blocks) /\ Grown(s, m)
         /\ ~alloc => /\ Quiet(s, m.fs)
                      /\ m.err = "ok" => i \in Indices /\ m.r = Slot(m.fs, f, i)
<1> DEFINE m == file_map_block(s, f, i, alloc)
           w == file_block_walk(s, f, i, alloc)
           b == PtrOf(w.fs.cache, Get(w.fs, f), i)
           a == alloc_block(w.fs)
<1>1. Good(w) /\ (w.err = "ok" => i \in Indices) /\ (~alloc => Quiet(s, w.fs)) /\ Grown(s, w)
  BY BlockWalk
<1>2. m = IF w.err # "ok" THEN w
          ELSE IF b # 0 THEN Ok(w.fs, b)
          ELSE IF ~alloc THEN Fail(w.fs, "E_NOT_FOUND")
          ELSE IF a.err # "ok" THEN a ELSE Ok(SetPtr(a.fs, f, i, a.r), a.r)
  BY DEF file_map_block, Then
<1> HIDE DEF m, w
<1>3. CASE w.err # "ok"
  BY <1>1, <1>2, <1>3 DEF m
<1>4. CASE w.err = "ok"
  <2>1. Sound(w.fs) /\ Typed(w.fs) /\ i \in Indices
    BY <1>1, <1>4, GoodOf, SoundIs
  <2>2. b \in Blocks \cup {0} /\ (b # 0 => b = Slot(w.fs, f, i)) /\ Grows(s, w.fs)
    <3>1. b \in {0, Slot(w.fs, f, i)}
      BY <2>1, GetPtr
    <3>2. Grows(s, w.fs)
      BY <1>1, <1>4, GrownOf DEF Stops
    <3> QED BY <2>1, <3>1, <3>2, SlotIs, Numbers
  <2> HIDE DEF b
  <2>3. CASE b # 0
    <3>1. m = Ok(w.fs, b) /\ b \in Blocks
      BY <1>2, <1>4, <2>2, <2>3
    <3>2. m.fs = w.fs /\ m.err = "ok" /\ m.r = b
      BY <3>1, Results
    <3>3. Good(m) /\ Grown(s, m)
      BY <2>1, <2>2, <3>2, GoodOf, GrownOf
    <3> QED BY <1>1, <2>1, <2>2, <2>3, <3>1, <3>2, <3>3 DEF m
  <2>4. CASE b = 0 /\ ~alloc
    <3>1. m = Fail(w.fs, "E_NOT_FOUND")
      BY <1>2, <1>4, <2>4
    <3>2. m.fs = w.fs /\ m.err = "E_NOT_FOUND"
      BY <3>1, Results
    <3>3. Good(m) /\ Grown(s, m)
      BY <2>1, <2>2, <3>2, GoodOf, GrownOf
    <3> QED BY <1>1, <2>4, <3>2, <3>3 DEF m
  <2>5. CASE b = 0 /\ alloc
    <3>1. /\ Sound(a.fs) /\ a.err \in {"ok", "E_NO_DISK"} /\ Grows(w.fs, a.fs)
          /\ a.err = "ok" => Fresh(a.fs, a.r) /\ a.r \in w.fs.free
      BY <2>1, AllocBlock
    <3> HIDE DEF a
    <3>2. CASE a.err # "ok"
      <4>1. m = a
        BY <1>2, <1>4, <2>5, <3>2
      <4> QED BY <2>2, <2>5, <3>1, <3>2, <4>1, GoodOf, GrownOf DEF m
    <3>3. CASE a.err = "ok"
      <4> DEFINE t == SetPtr(a.fs, f, i, a.r)
      <4>1. m = Ok(t, a.r)
        BY <1>2, <1>4, <2>5, <3>3
      <4>2. a.r \in Blocks /\ Typed(a.fs) /\ Unique(a.fs)
        BY <3>1, <3>3, SoundIs DEF Fresh
      <4>3. /\ Typed(t) /\ t.free = a.fs.free /\ InMemory(a.fs, t)
            /\ Sets(a.fs, t, f, i, a.r) \/ Quiet(a.fs, t)
        BY <2>1, <4>2, SetPtrSets
      <4> HIDE DEF t
      <4>4. Sound(t)
        BY <2>1, <3>1, <3>3, <4>3, SetSound, QuietSound, Numbers
      <4>5. Grows(w.fs, t)
        BY <3>1, <3>3, <4>2, <4>3, SetGrows, QuietIs, GrowsTrans
      <4>6. Good(m) /\ m.r \in Blocks /\ Grown(s, m)
        BY <2>2, <4>1, <4>2, <4>4, <4>5, Results, GoodOf, GrownOf
      <4> QED BY <2>5, <4>6 DEF m
    <3> QED BY <3>2, <3>3
  <2> QED BY <2>3, <2>4, <2>5
<1> QED BY <1>3, <1>4

LEMMA ClearFileBlock ==
  ASSUME NEW s, Sound(s), NEW f \in Where, NEW i \in Nat
  PROVE  Good(file_clear_block(s, f, i)) /\ Drops(s, file_clear_block(s, f, i).fs)
<1> DEFINE c == file_clear_block(s, f, i)
           w == file_block_walk(s, f, i, FALSE)
           b == PtrOf(w.fs.cache, Get(w.fs, f), i)
           u == free_block(w.fs, b)
           t == SetPtr(u, f, i, 0)
<1>1. Good(w) /\ (w.err = "ok" => i \in Indices) /\ Drops(s, w.fs)
  BY BlockWalk, DropsOf
<1>2. c = IF w.err # "ok" THEN w ELSE IF b = 0 THEN Ok(w.fs, 0) ELSE Ok(t, 0)
  BY DEF file_clear_block, Then
<1> HIDE DEF c, w
<1>3. CASE w.err # "ok"
  BY <1>1, <1>2, <1>3 DEF c
<1>4. CASE w.err = "ok"
  <2>1. Sound(w.fs) /\ Typed(w.fs) /\ Unique(w.fs) /\ i \in Indices
    BY <1>1, <1>4, GoodOf, SoundIs
  <2>2. b \in {0, Slot(w.fs, f, i)} /\ i \in Slots
    BY <2>1, GetPtr, Numbers
  <2>3. CASE b = 0
    <3>1. c = Ok(w.fs, 0)
      BY <1>2, <1>4, <2>3
    <3> QED BY <1>1, <2>1, <3>1, GoodOf, Results DEF c
  <2>4. CASE b # 0
    <3>1. b \in Blocks /\ b = Slot(w.fs, f, i)
      BY <2>1, <2>2, <2>4, SlotIs
    <3>2. i < NDIRECT \/ Get(w.fs, f).indirect # 0
      BY <2>4 DEF PtrOf
    <3>3. c = Ok(t, 0)
      BY <1>2, <1>4, <2>4
    <3> HIDE DEF b
    <3>4. /\ Typed(u) /\ u.free = w.fs.free \cup {b} /\ Shrinks(w.fs, u) /\ Shrinks(u, w.fs)
          /\ Get(u, f) = Get(w.fs, f) /\ InMemory(w.fs, u)
      BY <2>1, <3>1, FreeBlock
    <3> HIDE DEF u
    <3>5. Unique(u)
      BY <2>1, <3>4 DEF Unique, Shrinks
    <3>6. Typed(t) /\ t.free = u.free /\ Sets(u, t, f, i, 0) /\ InMemory(u, t)
      BY <2>1, <3>2, <3>4, <3>5, SetPtrSets
    <3> HIDE DEF t
    <3>7. Sets(w.fs, t, f, i, 0)
      BY <3>4, <3>6 DEF Sets, Shrinks
    <3>8. Sound(t)
      BY <2>1, <2>2, <3>1, <3>4, <3>6, <3>7, ClearSound
    <3>9. Drops(w.fs, t)
      BY <3>4, <3>6, <3>7 DEF Drops, InMemory, Sets, Shrinks
    <3>10. Drops(s, t)
      BY <1>1, <3>9, DropsOf
    <3> QED BY <3>3, <3>8, <3>10, GoodOf, Results DEF c
  <2> QED BY <2>3, <2>4
<1> QED BY <1>3, <1>4

LEMMA GetFileBlock ==
  ASSUME NEW s, Sound(s), NEW f \in Where, NEW i \in Nat
  PROVE  LET g == file_get_block(s, f, i) IN
         Good(g) /\ (g.err = "ok" => g.r \in Blocks) /\ Grown(s, g)
<1> DEFINE g == file_get_block(s, f, i)
           m == file_map_block(s, f, i, TRUE)
<1>1. Good(m) /\ (m.err = "ok" => m.r \in Blocks) /\ Grown(s, m)
  BY MapFileBlock
<1>2. g = IF m.err # "ok" THEN m ELSE read_block(m.fs, m.r)
  BY DEF file_get_block, Then
<1> HIDE DEF g, m
<1>3. CASE m.err # "ok"
  BY <1>1, <1>2, <1>3 DEF g
<1>4. CASE m.err = "ok"
  <2>1. Sound(m.fs) /\ Typed(m.fs) /\ m.r \in Blocks
    BY <1>1, <1>4, GoodOf, SoundIs
  <2>2. g = read_block(m.fs, m.r)
    BY <1>2, <1>4
  <2>3. Quiet(m.fs, g.fs) /\ (g.err = "ok" => g.r \in Blocks)
    <3>1. LET h == read_block(m.fs, m.r) IN Quiet(m.fs, h.fs) /\ (h.err = "ok" => h.r \in Blocks)
      BY <2>1, ReadBlock
    <3> QED BY <2>2, <3>1
  <2>4. Sound(g.fs) /\ Grown(s, g)
    <3>1. Grows(s, m.fs) /\ Grows(m.fs, g.fs)
      BY <1>1, <1>4, <2>1, <2>3, GrownOf, QuietIs DEF Stops
    <3> QED BY <2>1, <2>3, <3>1, QuietSound, GrownOf
  <2> QED BY <2>1, <2>3, <2>4, GoodOf DEF g
<1> QED BY <1>3, <1>4

LEMMA DirBlockIs ==
  ASSUME NEW s, Sound(s), NEW d \in Where, NEW i \in Nat
  PROVE  LET g == dir_block(s, d, i) IN
         Good(g) /\ (g.err = "ok" => g.r \in Blocks) /\ Grown(s, g)
<1> DEFINE h == dir_block(s, d, i)
           g == file_get_block(s, d, i)
<1>1. Good(g) /\ (g.err = "ok" => g.r \in Blocks) /\ Grown(s, g)
  BY GetFileBlock
<1>2. h = g \/ (h = Fail(g.fs, "garbled") /\ g.err = "ok")
  BY DEF dir_block, Then
<1> HIDE DEF g, h
<1>3. CASE h = g
  BY <1>1, <1>3 DEF h
<1>4. CASE h = Fail(g.fs, "garbled") /\ g.err = "ok"
  BY <1>1, <1>4, Results, GoodOf, GrownOf DEF h, Grown, DiskKept, Stops
<1> QED BY <1>2, <1>3, <1>4

LEMMA FileDirty ==
  ASSUME NEW s, Sound(s), NEW f \in Where, NEW i \in Nat
  PROVE  Good(file_dirty(s, f, i)) /\ Same(s, file_dirty(s, f, i).fs)
<1> DEFINE c == file_dirty(s, f, i)
           m == file_map_block(s, f, i, FALSE)
<1>1. /\ Good(m) /\ Quiet(s, m.fs) /\ Same(s, m.fs) /\ Typed(m.fs)
      /\ m.err = "ok" => m.r \in Blocks /\ i \in Indices /\ m.r = Slot(m.fs, f, i)
  <2>1. /\ Good(m) /\ Quiet(s, m.fs)
        /\ m.err = "ok" => m.r \in Blocks /\ i \in Indices /\ m.r = Slot(m.fs, f, i)
    BY MapFileBlock
  <2> HIDE DEF m
  <2>2. Typed(s)
    BY SoundIs
  <2>3. Same(s, m.fs) /\ Typed(m.fs)
    BY <2>1, <2>2, QuietIs DEF Quiet
  <2> QED BY <2>1, <2>3
<1>2. c = IF m.err # "ok" THEN m ELSE Ok(dirty_block(m.fs, m.r), 0)
  BY DEF file_dirty, Then
<1> HIDE DEF c, m
<1>3. CASE m.err # "ok"
  BY <1>1, <1>2, <1>3 DEF c
<1>4. CASE m.err = "ok"
  <2>1. c.fs = dirty_block(m.fs, m.r)
    BY <1>2, <1>4, Results
  <2>2. Same(m.fs, c.fs)
    BY <1>1, <1>4, <2>1, DirtyBlock
  <2>3. Same(s, c.fs)
    BY <1>1, <2>2, SameTrans
  <2> QED BY <2>3, SameSound, GoodOf DEF c
<1> QED BY <1>3, <1>4

-----------------------------------------------------------------------------
(* The loops.                                                              *)

LEMMA Upto ==
  ASSUME NEW n \in Nat, NEW S, 0 \in S, \A i \in 1..n : i - 1 \in S => i \in S
  PROVE  \A i \in 0..n : i \in S
<1> DEFINE C == {i \in 0..n : i \notin S}
<1> SUFFICES ASSUME C # {} PROVE FALSE
  OBVIOUS
<1>1. PICK m \in C : \A y \in C : m <= y
  <2>1. C \in SUBSET Nat
    OBVIOUS
  <2> QED BY <2>1, MinIn
<1>2. m \in 1..n /\ m - 1 \in 0..n /\ ~(m <= m - 1)
  BY <1>1
<1>3. m - 1 \in S
  BY <1>1, <1>2
<1> QED BY <1>1, <1>2, <1>3

LEMMA ClearBlocks ==
  ASSUME NEW s, Sound(s), NEW f \in Where, NEW from \in Nat, NEW to \in Nat
  PROVE  Good(clear_blocks(s, f, from, to)) /\ Drops(s, clear_blocks(s, f, from, to).fs)
<1> DEFINE one(t, i) == file_clear_block(t.fs, f, i)
           step(x, i) == IF x.err # "ok" THEN x
                         ELSE IF one(x, i - 1).err # "ok" THEN Fail(one(x, i - 1).fs, "panic")
                         ELSE one(x, i - 1)
           Loop(g, n) == g = [i \in 0..n |-> IF i <= from THEN Ok(s, 0) ELSE step(g[i - 1], i)]
           g0 == CHOOSE g : Loop(g, to)
<1>1. clear_blocks(s, f, from, to) = g0[to]
  BY DEF clear_blocks, Then
<1> DEFINE Fine(x) == Good(x) /\ Drops(s, x.fs)
<1>2. \A x, i : i \in Nat \ {0} /\ Fine(x) => Fine(step(x, i))
  <2> SUFFICES ASSUME NEW x, NEW i \in Nat \ {0}, Fine(x) PROVE Fine(step(x, i))
    OBVIOUS
  <2>1. CASE x.err # "ok"
    BY <2>1
  <2>2. CASE x.err = "ok"
    <3>1. Good(one(x, i - 1)) /\ Drops(x.fs, one(x, i - 1).fs)
      BY <2>2, GoodOf, ClearFileBlock
    <3>2. Drops(s, one(x, i - 1).fs)
      BY <3>1, DropsOf
    <3> HIDE DEF one
    <3>3. Fine(Fail(one(x, i - 1).fs, "panic"))
      BY <3>1, <3>2, GoodOf, Results DEF Good, Stops
    <3> QED BY <2>2, <3>1, <3>2, <3>3
  <2> QED BY <2>1, <2>2
<1>3. Fine(Ok(s, 0))
  BY GoodOf, Results, SoundIs, QuietSelf, DropsOf
<1> HIDE DEF step, Fine
<1>4. \E g : Loop(g, to)
  <2> DEFINE S == {n \in Nat : \E g : Loop(g, n)}
  <2>1. 0 \in S
    <3>1. Loop([i \in {0} |-> Ok(s, 0)], 0)
      OBVIOUS
    <3> QED BY <3>1
  <2>2. ASSUME NEW n \in 1..to, n - 1 \in S PROVE n \in S
    <3>1. PICK g : Loop(g, n - 1)
      BY <2>2
    <3> DEFINE h == [i \in 0..n |-> IF i # n THEN g[i] ELSE IF n <= from THEN Ok(s, 0)
                                    ELSE step(g[n - 1], n)]
    <3>2. ASSUME NEW i \in 0..n
          PROVE  h[i] = IF i <= from THEN Ok(s, 0) ELSE step(h[i - 1], i)
      BY <3>1
    <3>3. Loop(h, n)
      BY <3>2
    <3> HIDE DEF h
    <3> QED BY <3>3
  <2> HIDE DEF S
  <2>3. to \in S
    BY <2>1, <2>2, Upto
  <2> QED BY <2>3 DEF S
<1>5. Loop(g0, to)
  BY <1>4
<1> HIDE DEF g0
<1>6. \A i \in 0..to : g0[i] = IF i <= from THEN Ok(s, 0) ELSE step(g0[i - 1], i)
  BY <1>5
<1> DEFINE S == {i \in 0..to : Fine(g0[i])}
<1>7. 0 \in S
  BY <1>6, <1>3
<1>8. ASSUME NEW i \in 1..to, i - 1 \in S PROVE i \in S
  BY <1>2, <1>6, <1>8, <1>3
<1> HIDE DEF S
<1>9. to \in S
  BY <1>7, <1>8, Upto
<1> QED BY <1>1, <1>9 DEF S, Fine

-----------------------------------------------------------------------------
(* Sizes, and what is written to the disk.                                 *)

LEMMA DivNat == \A n \in Nat, k \in Nat \ {0} : n \div k \in Nat
OBVIOUS

LEMMA NblocksNat == \A n \in Nat : Nblocks(n) \in Nat
<1> SUFFICES ASSUME NEW n \in Nat PROVE Nblocks(n) \in Nat
  OBVIOUS
<1>1. n + BLOCK_SIZE - 1 \in Nat
  BY Numbers
<1>2. (n + BLOCK_SIZE - 1) \div BLOCK_SIZE \in Nat
  BY <1>1, Numbers, DivNat
<1> DEFINE q == (n + BLOCK_SIZE - 1) \div BLOCK_SIZE
<1>3. ROUND(n) = q * BLOCK_SIZE
  BY DEF ROUND
<1> HIDE DEF q
<1>4. ROUND(n) \in Nat
  BY <1>2, <1>3, Numbers DEF q
<1> QED BY <1>4, Numbers, DivNat DEF Nblocks

LEMMA DivMono ==
  ASSUME NEW a \in Nat, NEW b \in Nat, a <= b, NEW k \in Nat \ {0}
  PROVE  a \div k <= b \div k /\ a * k <= b * k /\ (a < k => a \div k = 0)
<1> DEFINE q == a \div k
           p == b \div k
<1>1. q \in Nat /\ p \in Nat /\ a = k * q + (a % k) /\ b = k * p + (b % k)
  BY DivNat
<1>2. a % k \in 0..(k - 1) /\ b % k \in 0..(k - 1)
  OBVIOUS
<1>3. q <= p
  <2> SUFFICES ASSUME q > p PROVE FALSE
    BY <1>1
  <2>1. k * q >= k * p + k
    <3> DEFINE m == q - p - 1
    <3>1. m \in Nat /\ q = p + 1 + m
      BY <1>1
    <3> HIDE DEF m, q, p
    <3>2. k * m >= 0 /\ k * (p + 1 + m) = k * p + k + k * m
      BY <1>1, <3>1
    <3> QED BY <1>1, <3>1, <3>2
  <2> HIDE DEF q, p
  <2> QED BY <1>1, <1>2, <2>1
<1>4. a * k <= b * k
  <2> DEFINE m == b - a
  <2>1. m \in Nat /\ b = a + m
    OBVIOUS
  <2> HIDE DEF m
  <2>2. m * k >= 0 /\ (a + m) * k = a * k + m * k
    BY <2>1
  <2> QED BY <2>1, <2>2
<1>5. a < k => q = 0
  OBVIOUS
<1> QED BY <1>3, <1>4, <1>5

LEMMA NblocksMono ==
  /\ \A a, b \in Nat : a <= b => Nblocks(a) <= Nblocks(b)
  /\ Nblocks(0) = 0
<1> DEFINE q(n) == (n + BLOCK_SIZE - 1) \div BLOCK_SIZE
<1>1. \A n \in Nat : n + BLOCK_SIZE - 1 \in Nat /\ q(n) \in Nat
  BY Numbers, DivNat
<1>2. \A n \in Nat : Nblocks(n) = (q(n) * BLOCK_SIZE) \div BLOCK_SIZE
  BY DEF Nblocks, ROUND
<1>3. ASSUME NEW a \in Nat, NEW b \in Nat, a <= b PROVE Nblocks(a) <= Nblocks(b)
  <2>1. q(a) <= q(b)
    BY <1>1, <1>3, Numbers, DivMono
  <2> HIDE DEF q
  <2>2. q(a) * BLOCK_SIZE <= q(b) * BLOCK_SIZE
    BY <1>1, <2>1, Numbers, DivMono
  <2>3. q(a) * BLOCK_SIZE \in Nat /\ q(b) * BLOCK_SIZE \in Nat
    BY <1>1, Numbers
  <2> QED BY <1>2, <2>2, <2>3, Numbers, DivMono
<1>4. Nblocks(0) = 0
  <2>1. q(0) = 0
    BY Numbers, DivMono
  <2> HIDE DEF q
  <2>2. q(0) * BLOCK_SIZE = 0
    BY <2>1, Numbers
  <2> QED BY <1>2, <2>2, Numbers, DivMono
<1> QED BY <1>3, <1>4

LEMMA Resized ==
  ASSUME NEW s, Typed(s), NEW f \in Where, NEW n \in Nat
  PROVE  Quiet(s, Put(s, f, [Get(s, f) EXCEPT !.size = n]))
<1> DEFINE x == [Get(s, f) EXCEPT !.size = n]
<1>1. Get(s, f) \in File
  BY GetIs
<1>2. x \in File /\ x.direct = Get(s, f).direct /\ x.indirect = Get(s, f).indirect
  BY <1>1 DEF File
<1>3. Under(x, Get(s, f))
  BY <1>2 DEF Under
<1> HIDE DEF x
<1>4. Quiet(s, Put(s, f, x))
  BY <1>2, <1>3, PutUnder
<1> QED BY <1>4 DEF x

LEMMA Truncate ==
  ASSUME NEW s, Sound(s), NEW f \in Where, NEW n \in Nat
  PROVE  Good(file_truncate(s, f, n)) /\ Drops(s, file_truncate(s, f, n).fs)
<1> DEFINE c == file_truncate(s, f, n)
           new == Nblocks(n)
           t == clear_blocks(s, f, new, Nblocks(Get(s, f).size))
           x == Get(t.fs, f)
           y == [x EXCEPT !.indirect = 0, !.size = n]
           u == free_block(t.fs, x.indirect)
           freed1 == Put(u, f, y)
           kept == Put(t.fs, f, [x EXCEPT !.size = n])
<1>1. Good(t) /\ Drops(s, t.fs)
  <2>1. Get(s, f).size \in Nat
    BY SoundIs, GetIs, FileFields
  <2> QED BY <2>1, NblocksNat, ClearBlocks
<1>2. c = IF t.err # "ok" THEN t
          ELSE IF new <= NDIRECT /\ x.indirect # 0 THEN Ok(freed1, 0) ELSE Ok(kept, 0)
  BY DEF file_truncate, Then
<1> HIDE DEF c, t, new
<1>3. CASE t.err # "ok"
  BY <1>1, <1>2, <1>3 DEF c
<1>4. CASE t.err = "ok"
  <2>1. Sound(t.fs) /\ Typed(t.fs) /\ Unique(t.fs)
    BY <1>1, <1>4, GoodOf, SoundIs
  <2>2. Sound(kept) /\ Drops(s, kept)
    BY <1>1, <2>1, Resized, QuietSound, DropsOf
  <2>3. CASE x.indirect = 0 \/ ~(new <= NDIRECT)
    <3>1. c = Ok(kept, 0)
      BY <1>2, <1>4, <2>3
    <3> QED BY <2>2, <3>1, GoodOf, Results DEF c
  <2>4. CASE x.indirect # 0 /\ new <= NDIRECT
    <3>1. x \in File /\ FileAt(t.fs, f).indirect = x.indirect
      BY <2>1, <2>4, GetIs, EmptyFile
    <3>2. /\ x.indirect \in Blocks /\ NINDIRECT \in Slots
          /\ Slot(t.fs, f, NINDIRECT) = x.indirect
      BY <2>1, <2>4, <3>1, FileFields, Numbers, SlotIs
    <3>3. y \in File /\ y.direct = x.direct /\ y.indirect = 0
      BY <3>1 DEF File
    <3>4. c = Ok(freed1, 0)
      BY <1>2, <1>4, <2>4
    <3> HIDE DEF x, y
    <3>5. /\ Typed(u) /\ u.free = t.fs.free \cup {x.indirect} /\ Shrinks(t.fs, u)
          /\ Get(u, f) = x /\ InMemory(t.fs, u)
      BY <2>1, <3>2, FreeBlock DEF x
    <3> HIDE DEF u
    <3>6. Typed(freed1) /\ freed1.free = u.free /\ InMemory(u, freed1)
      BY <3>3, <3>5, PutIs
    <3>7. Sets(u, freed1, f, NINDIRECT, 0)
      BY <3>3, <3>5, PutIndirect
    <3> HIDE DEF freed1
    <3>8. Sets(t.fs, freed1, f, NINDIRECT, 0)
      BY <3>5, <3>7 DEF Sets, Shrinks
    <3>9. Sound(freed1)
      BY <2>1, <3>2, <3>5, <3>6, <3>8, ClearSound
    <3>10. Drops(t.fs, freed1)
      BY <3>5, <3>6, <3>8 DEF Drops, InMemory, Sets, Shrinks
    <3>11. Drops(s, freed1)
      BY <1>1, <3>10, DropsOf
    <3> QED BY <3>4, <3>9, <3>11, GoodOf, Results DEF c
  <2> QED BY <2>3, <2>4
<1> QED BY <1>3, <1>4

LEMMA Walked ==
  ASSUME NEW s, Typed(s), NEW x \in File, NEW n
  PROVE  Quiet(s, walked(s, x, n))
<1>1. CASE n > NDIRECT /\ x.indirect # 0
  <2>1. x.indirect \in Blocks
    BY <1>1, FileFields
  <2> QED BY <1>1, <2>1, ReadBlock DEF walked
<1>2. CASE ~(n > NDIRECT /\ x.indirect # 0)
  BY <1>2, QuietSelf DEF walked
<1> QED BY <1>1, <1>2

(* It finds the File it found before. *)
LEMMA WalkedGet ==
  ASSUME NEW s, Typed(s), NEW x \in File, NEW n, NEW f \in Where,
         f = Root \/ s.cache[f.blk] # Unmapped \/ x = Get(s, f)
  PROVE  Get(walked(s, x, n), f) = Get(s, f)
<1> DEFINE t == walked(s, x, n)
<1>1. CASE t = s
  BY <1>1
<1>2. CASE t # s
  <2>1. n > NDIRECT /\ x.indirect # 0 /\ t = read_block(s, x.indirect).fs
    BY <1>2 DEF walked
  <2> DEFINE b == x.indirect
             u == [s EXCEPT !.cache[b] = s.disk[b]]
  <2>2. t = u /\ s.cache[b] = Unmapped
    BY <1>2, <2>1, Results DEF read_block
  <2>3. u.root = s.root /\ \A k \in Blocks : k # b => u.cache[k] = s.cache[k]
    BY DEF Typed
  <2>4. CASE f = Root
    BY <2>2, <2>3, <2>4 DEF Get
  <2>5. CASE f # Root
    <3>1. f.blk \in Blocks /\ f.idx \in Js
      BY <2>5, Places DEF Where
    <3>2. f.blk # b
      <4>1. SUFFICES ASSUME f.blk = b PROVE FALSE
        OBVIOUS
      <4>2. x = Get(s, f)
        BY <2>2, <2>5, <4>1
      <4>3. Unmapped.kind = "unmapped"
        BY DEF Unmapped
      <4>4. Get(s, f) = NoFile
        BY <2>2, <2>5, <3>1, <4>1, <4>3, PlainPage DEF Get
      <4> QED BY <2>1, <4>2, <4>4, EmptyFile
    <3> QED BY <2>2, <2>3, <2>5, <3>1, <3>2 DEF Get
  <2> QED BY <2>4, <2>5
<1> QED BY <1>1, <1>2

LEMMA FileFlush ==
  ASSUME NEW s, Typed(s), NEW f \in Where
  PROVE  Same(s, file_flush(s, f))
<1> DEFINE x == Get(s, f)
           t == walked(s, x, Nblocks(x.size))
           B == t.dirty \cap {PtrOf(t.cache, x, i) : i \in 0..(Min({Nblocks(x.size), NINDIRECT}) - 1)}
<1>1. Same(s, t) /\ Typed(t)
  BY GetIs, Walked, QuietIs DEF Quiet
<1>2. file_flush(s, f) = write_blocks(t, B)
  BY DEF file_flush
<1>3. B \subseteq t.dirty
  OBVIOUS
<1> HIDE DEF t, B
<1>4. Same(t, write_blocks(t, B))
  BY <1>1, <1>3, WriteBlocks
<1> QED BY <1>1, <1>2, <1>4, SameTrans

LEMMA FlushDir ==
  ASSUME NEW s, Typed(s), NEW d \in Positions
  PROVE  Same(s, flush_dir(s, d))
<1>1. d = Nil \/ d \in Where
  BY Places
<1> QED BY <1>1, FileFlush, SameSelf DEF flush_dir

LEMMA FlushGet ==
  ASSUME NEW s, Typed(s), NEW d \in Positions, NEW f \in Where,
         f = Root \/ s.cache[f.blk] # Unmapped
  PROVE  Get(flush_dir(s, d), f) = Get(s, f)
<1> DEFINE x == Get(s, d)
           t == walked(s, x, Nblocks(x.size))
<1>1. CASE d = Nil
  BY <1>1 DEF flush_dir
<1>2. CASE d # Nil
  <2>1. d \in Where
    BY <1>2, Places
  <2>2. Get(t, f) = Get(s, f) /\ Typed(t)
    BY <2>1, GetIs, WalkedGet, Walked DEF Quiet
  <2>3. \E B : flush_dir(s, d) = write_blocks(t, B)
    BY <1>2 DEF flush_dir, file_flush
  <2> HIDE DEF t
  <2>4. PICK B : flush_dir(s, d) = write_blocks(t, B)
    BY <2>3
  <2>5. Get(write_blocks(t, B), f) = Get(t, f)
    BY <2>2 DEF write_blocks, Get, Typed
  <2> QED BY <2>2, <2>4, <2>5
<1> QED BY <1>1, <1>2

LEMMA SetSize ==
  ASSUME NEW s, Sound(s), NEW f \in Where, NEW n \in Nat
  PROVE  LET c == file_set_size(s, f, n) IN
         /\ Good(c) /\ Settled(s, c) /\ (c.err = "ok" => Get(c.fs, f).size = n)
         /\ ~(Get(s, f).size > n) => c.err = "ok" /\ Same(s, c.fs)
<1> DEFINE c == file_set_size(s, f, n)
           t == IF Get(s, f).size > n THEN file_truncate(s, f, n) ELSE Ok(s, 0)
           u == Put(t.fs, f, [Get(t.fs, f) EXCEPT !.size = n])
           d == Get(t.fs, f).dir
<1>1. Good(t) /\ Drops(s, t.fs) /\ Typed(s)
  BY Truncate, GoodOf, Results, SoundIs, QuietSelf, DropsOf
<1>2. ~(Get(s, f).size > n) => t.err = "ok" /\ t.fs = s
  BY Results
<1>3. c = IF t.err # "ok" THEN t ELSE Ok(flush_dir(u, d), 0)
  BY DEF file_set_size, Then
<1> HIDE DEF c, t
<1>4. CASE t.err # "ok"
  BY <1>1, <1>3, <1>4, <1>2, SettlesOf DEF c
<1>5. CASE t.err = "ok"
  <2>1. Sound(t.fs) /\ Typed(t.fs)
    BY <1>1, <1>5, GoodOf, SoundIs
  <2>2. d \in Positions
    BY <2>1, GetIs, FileFields
  <2>3. Sound(u) /\ Typed(u) /\ Same(t.fs, u)
    BY <2>1, Resized, QuietSound, QuietIs, SoundIs
  <2>4. Get(u, f).size = n /\ (f = Root \/ u.cache[f.blk] # Unmapped)
    <3> DEFINE x == [Get(t.fs, f) EXCEPT !.size = n]
    <3>1. x \in File /\ x.size = n
      BY <2>1, GetIs DEF File
    <3> HIDE DEF x
    <3>2. Get(Put(t.fs, f, x), f) = x
      BY <2>1, <3>1, PutIs
    <3>3. f # Root => Put(t.fs, f, x).cache[f.blk] # Unmapped
      BY <2>1, Places DEF Put, Typed, Where, DirBlock, Unmapped
    <3> QED BY <3>1, <3>2, <3>3 DEF x
  <2> HIDE DEF u, d
  <2>5. Get(flush_dir(u, d), f).size = n
    BY <2>2, <2>3, <2>4, FlushGet
  <2>6. Sound(flush_dir(u, d)) /\ Same(t.fs, flush_dir(u, d))
    BY <2>2, <2>3, FlushDir, SameSound, SameTrans
  <2>7. c.err = "ok" /\ c.fs = flush_dir(u, d)
    BY <1>3, <1>5, Results
  <2>8. Settles(s, c.fs)
    BY <1>1, <2>1, <2>6, <2>7, SettlesOf
  <2> QED BY <1>2, <2>6, <2>7, <2>8, <2>5, GoodOf DEF c, Settled, Stops
<1> QED BY <1>4, <1>5

LEMMA FileClose ==
  ASSUME NEW s, Sound(s), NEW f \in Where
  PROVE  Sound(file_close(s, f)) /\ Same(s, file_close(s, f))
<1> DEFINE c == file_close(s, f)
           d == Get(s, f).dir
           t0 == file_flush(s, f)
           x == Get(t0, d)
           n == Min({x.size \div BLOCK_SIZE, NINDIRECT})
           t == walked(t0, x, n)
           own == \E i \in 0..(n - 1) : /\ PtrOf(t.cache, x, i) = f.blk
                                        /\ \A j \in 0..(i - 1) : PtrOf(t.cache, x, j) # 0
           u == IF own THEN dirty_block(t, f.blk) ELSE t
<1>1. c = IF d = Nil THEN t0 ELSE file_flush(u, d)
  BY DEF file_close
<1>2. Sound(t0) /\ Typed(t0) /\ Same(s, t0)
  BY SoundIs, FileFlush, SameSound
<1>3. d \in {Nil} \cup Where
  BY SoundIs, GetIs, FileFields, Places
<1> HIDE DEF c, t0, d
<1>4. CASE d = Nil
  BY <1>1, <1>2, <1>4 DEF c
<1>5. CASE d # Nil
  <2>1. x \in File /\ d \in Where /\ Get(t, d) = x
    BY <1>2, <1>3, <1>5, GetIs, WalkedGet
  <2> HIDE DEF x
  <2>2. n \in Nat /\ n <= NINDIRECT
    <3>1. x.size \div BLOCK_SIZE \in Nat
      BY <2>1, FileFields, Numbers, DivNat
    <3>2. {x.size \div BLOCK_SIZE, NINDIRECT} \in SUBSET Nat
      BY <3>1, Numbers
    <3> QED BY <3>2, MinIn
  <2> HIDE DEF n
  <2>3. Same(t0, t)
    BY <1>2, <2>1, Walked, QuietIs
  <2>4. Sound(t) /\ Typed(t) /\ Same(s, t)
    BY <1>2, <2>3, SameSound, SoundIs, SameTrans
  <2> HIDE DEF t
  <2>5. own => f.blk \in Blocks /\ \E i \in Indices : f.blk = Slot(t, d, i)
    <3>1. SUFFICES ASSUME NEW i \in 0..(n - 1), PtrOf(t.cache, x, i) = f.blk
                   PROVE  f.blk \in Blocks /\ \E k \in Indices : f.blk = Slot(t, d, k)
      OBVIOUS
    <3>2. i \in Indices /\ i \in Slots
      BY <2>2, Numbers DEF Indices, Slots
    <3>3. f.blk \in {0, Slot(t, d, i)} /\ f.blk \in Blocks \cup {0}
      BY <2>1, <2>4, <3>1, <3>2, GetPtr, SlotIs
    <3>4. f.blk # 0
      <4>1. Root.blk = 1
        BY DEF Root, Pos
      <4> QED BY <4>1, Places, Numbers DEF Where
    <3> QED BY <3>2, <3>3, <3>4
  <2> HIDE DEF own
  <2>6. Sound(u) /\ Typed(u) /\ Same(s, u)
    <3>1. Same(t, u)
      BY <2>1, <2>4, <2>5, DirtyBlock, SameSelf
    <3> QED BY <2>4, <3>1, SameSound, SoundIs, SameTrans
  <2> HIDE DEF u
  <2>7. Sound(file_flush(u, d)) /\ Same(s, file_flush(u, d))
    BY <2>1, <2>6, FileFlush, SameSound, SameTrans
  <2> QED BY <1>1, <1>5, <2>7 DEF c
<1> QED BY <1>4, <1>5

-----------------------------------------------------------------------------
(* Directories.                                                            *)

(* A call that returns a File.                                             *)
GoodAt(t) == Good(t) /\ (t.err = "ok" => t.r \in Where)

LEMMA GoodAtOf ==
  /\ \A s, x : Sound(s) /\ x \in Where => GoodAt(Ok(s, x))
  /\ \A s, e : Sound(s) /\ e # "ok" => GoodAt(Fail(s, e))
  /\ \A t : Good(t) /\ t.err # "ok" => GoodAt(t)
  /\ \A t : GoodAt(t) /\ t.err \notin Stops => Sound(t.fs)
BY Results, GoodOf DEF GoodAt, Good

LEMMA Directed ==
  ASSUME NEW s, Typed(s), NEW f \in Where, NEW d \in Positions
  PROVE  Quiet(s, Put(s, f, [Get(s, f) EXCEPT !.dir = d]))
<1> DEFINE x == [Get(s, f) EXCEPT !.dir = d]
<1>1. Get(s, f) \in File
  BY GetIs
<1>2. x \in File /\ x.direct = Get(s, f).direct /\ x.indirect = Get(s, f).indirect
  BY <1>1 DEF File
<1>3. Under(x, Get(s, f))
  BY <1>2 DEF Under
<1> HIDE DEF x
<1>4. Quiet(s, Put(s, f, x))
  BY <1>2, <1>3, PutUnder
<1> QED BY <1>4 DEF x

LEMMA Renamed ==
  ASSUME NEW s, Typed(s), NEW f \in Where, NEW n \in Names \cup {NoName}
  PROVE  Quiet(s, Put(s, f, [Get(s, f) EXCEPT !.name = n]))
<1> DEFINE x == [Get(s, f) EXCEPT !.name = n]
<1>1. Get(s, f) \in File
  BY GetIs
<1>2. x \in File /\ x.direct = Get(s, f).direct /\ x.indirect = Get(s, f).indirect
  BY <1>1 DEF File
<1>3. Under(x, Get(s, f))
  BY <1>2 DEF Under
<1> HIDE DEF x
<1>4. Quiet(s, Put(s, f, x))
  BY <1>2, <1>3, PutUnder
<1> QED BY <1>4 DEF x

LEMMA Retyped ==
  ASSUME NEW s, Typed(s), NEW f \in Where, NEW y \in {"REG", "DIR"}
  PROVE  Quiet(s, Put(s, f, [Get(s, f) EXCEPT !.type = y]))
<1> DEFINE x == [Get(s, f) EXCEPT !.type = y]
<1>1. Get(s, f) \in File
  BY GetIs
<1>2. x \in File /\ x.direct = Get(s, f).direct /\ x.indirect = Get(s, f).indirect
  BY <1>1 DEF File
<1>3. Under(x, Get(s, f))
  BY <1>2 DEF Under
<1> HIDE DEF x
<1>4. Quiet(s, Put(s, f, x))
  BY <1>2, <1>3, PutUnder
<1> QED BY <1>4 DEF x

LEMMA FirstJ ==
  ASSUME NEW b \in Blocks, NEW S \in SUBSET Js, S # {}
  PROVE  Pos(b, Min(S)) \in Where
<1>1. Min(S) \in S
  <2>1. S \in SUBSET Nat
    BY Numbers
  <2> QED BY <2>1, MinIn
<1> QED BY <1>1, Places DEF Where

LEMMA DirLookup ==
  ASSUME NEW s, Sound(s), NEW d \in Where, NEW name
  PROVE  GoodAt(dir_lookup(s, d, name)) /\ Grown(s, dir_lookup(s, d, name))
<1> DEFINE n == Get(s, d).size \div BLOCK_SIZE
           hits(g) == {j \in 0..(FILE2BLK - 1) : Entries(g.fs.cache[g.r])[j].name = name}
           found(t, f) == Ok(Put(t, f, [Get(t, f) EXCEPT !.dir = d]), f)
           search(g) == IF g.err # "ok" THEN g
                        ELSE IF hits(g) = {} THEN Fail(g.fs, "E_NOT_FOUND")
                        ELSE found(g.fs, Pos(g.r, Min(hits(g))))
           step(t, i) == IF t.err # "E_NOT_FOUND" THEN t ELSE search(dir_block(t.fs, d, i - 1))
           Loop(g, k) == g = [i \in 0..k |-> IF i = 0 THEN Fail(s, "E_NOT_FOUND")
                                             ELSE step(g[i - 1], i)]
           g0 == CHOOSE g : Loop(g, n)
           Fine(t) == GoodAt(t) /\ Grown(s, t)
<1>1. dir_lookup(s, d, name) = g0[n]
  BY DEF dir_lookup
<1>2. \A t, i : i \in Nat \ {0} /\ Fine(t) => Fine(step(t, i))
  <2> SUFFICES ASSUME NEW t, NEW i \in Nat \ {0}, Fine(t) PROVE Fine(step(t, i))
    OBVIOUS
  <2>1. CASE t.err # "E_NOT_FOUND"
    BY <2>1
  <2>2. CASE t.err = "E_NOT_FOUND"
    <3> DEFINE g == dir_block(t.fs, d, i - 1)
    <3>1. Sound(t.fs) /\ Grows(s, t.fs)
      BY <2>2, GoodAtOf, GrownOf DEF Stops
    <3>2. Good(g) /\ (g.err = "ok" => g.r \in Blocks) /\ Grown(s, g)
      BY <3>1, DirBlockIs, GrownOf
    <3>3. step(t, i) = search(g)
      BY <2>2
    <3> HIDE DEF g
    <3>4. CASE g.err # "ok"
      BY <3>2, <3>3, <3>4, GoodAtOf
    <3>5. CASE g.err = "ok" /\ hits(g) = {}
      <4>1. search(g) = Fail(g.fs, "E_NOT_FOUND") /\ Sound(g.fs) /\ Grows(s, g.fs)
        BY <3>2, <3>5, GoodOf, GrownOf DEF Stops
      <4> HIDE DEF search, step
      <4> QED BY <3>3, <4>1, GoodAtOf, GrownOf, Results
    <3>6. CASE g.err = "ok" /\ hits(g) # {}
      <4> DEFINE f == Pos(g.r, Min(hits(g)))
      <4>1. search(g) = found(g.fs, f) /\ Sound(g.fs) /\ Typed(g.fs) /\ Grows(s, g.fs)
        BY <3>2, <3>6, GoodOf, GrownOf, SoundIs DEF Stops
      <4>2. f \in Where
        BY <3>2, <3>6, FirstJ DEF Js
      <4>3. d \in Positions
        BY Places
      <4> HIDE DEF f, hits
      <4> DEFINE u == Put(g.fs, f, [Get(g.fs, f) EXCEPT !.dir = d])
      <4>4. Sound(u) /\ Grows(s, u)
        BY <4>1, <4>2, <4>3, Directed, QuietSound, QuietIs, GrowsTrans
      <4> HIDE DEF u
      <4>5. Fine(Ok(u, f))
        BY <4>2, <4>4, GoodAtOf, GrownOf, Results
      <4>6. found(g.fs, f) = Ok(u, f)
        BY DEF u
      <4> HIDE DEF search, step, found, Fine
      <4> QED BY <3>3, <4>1, <4>5, <4>6
    <3> QED BY <3>4, <3>5, <3>6
  <2> QED BY <2>1, <2>2
<1>3. Fine(Fail(s, "E_NOT_FOUND"))
  BY GoodAtOf, GrownOf, Results, SoundIs, QuietSelf, QuietIs
<1> HIDE DEF step, Fine
<1>4. n \in Nat
  <2>1. Get(s, d).size \in Nat
    BY SoundIs, GetIs, FileFields
  <2> QED BY <2>1, Numbers, DivNat
<1> HIDE DEF n
<1>5. \E g : Loop(g, n)
  <2> DEFINE S == {k \in Nat : \E g : Loop(g, k)}
  <2>1. 0 \in S
    <3>1. Loop([i \in {0} |-> Fail(s, "E_NOT_FOUND")], 0)
      OBVIOUS
    <3> QED BY <3>1
  <2>2. ASSUME NEW k \in 1..n, k - 1 \in S PROVE k \in S
    <3>1. PICK g : Loop(g, k - 1)
      BY <2>2
    <3> DEFINE h == [i \in 0..k |-> IF i # k THEN g[i] ELSE step(g[k - 1], k)]
    <3>2. ASSUME NEW i \in 0..k
          PROVE  h[i] = IF i = 0 THEN Fail(s, "E_NOT_FOUND") ELSE step(h[i - 1], i)
      BY <3>1
    <3>3. Loop(h, k)
      BY <3>2
    <3> HIDE DEF h
    <3> QED BY <1>4, <3>3
  <2> HIDE DEF S
  <2>3. n \in S
    BY <1>4, <2>1, <2>2, Upto
  <2> QED BY <2>3 DEF S
<1>6. Loop(g0, n)
  BY <1>5
<1> HIDE DEF g0
<1>7. \A i \in 0..n : g0[i] = IF i = 0 THEN Fail(s, "E_NOT_FOUND") ELSE step(g0[i - 1], i)
  BY <1>6
<1> DEFINE S == {i \in 0..n : Fine(g0[i])}
<1>8. 0 \in S
  BY <1>4, <1>7, <1>3
<1>9. ASSUME NEW i \in 1..n, i - 1 \in S PROVE i \in S
  BY <1>4, <1>2, <1>7, <1>9
<1> HIDE DEF S
<1>10. n \in S
  BY <1>4, <1>8, <1>9, Upto
<1> QED BY <1>1, <1>10 DEF S, Fine

LEMMA DirAllocFile ==
  ASSUME NEW s, Sound(s), NEW d \in Where
  PROVE  GoodAt(dir_alloc_file(s, d)) /\ Grown(s, dir_alloc_file(s, d))
<1> DEFINE n == Get(s, d).size \div BLOCK_SIZE
           empty(g) == {j \in 0..(FILE2BLK - 1) : Entries(g.fs.cache[g.r])[j].name = NoName}
           search(g) == IF g.err # "ok" THEN g
                        ELSE IF empty(g) = {} THEN Fail(g.fs, "none")
                        ELSE Ok(g.fs, Pos(g.r, Min(empty(g))))
           step(t, i) == IF t.err # "none" THEN t ELSE search(dir_block(t.fs, d, i - 1))
           Loop(g, k) == g = [i \in 0..k |-> IF i = 0 THEN Fail(s, "none") ELSE step(g[i - 1], i)]
           g0 == CHOOSE g : Loop(g, n)
           Fine(t) == GoodAt(t) /\ Grown(s, t)
           t0 == g0[n]
           u == Put(t0.fs, d, [Get(t0.fs, d) EXCEPT !.size = @ + BLOCK_SIZE])
           b0 == dir_block(u, d, n)
<1>1. dir_alloc_file(s, d) = IF t0.err # "none" THEN t0
                             ELSE IF b0.err # "ok" THEN b0 ELSE Ok(b0.fs, Pos(b0.r, 0))
  BY DEF dir_alloc_file, Then
<1>2. \A t, i : i \in Nat \ {0} /\ Fine(t) => Fine(step(t, i))
  <2> SUFFICES ASSUME NEW t, NEW i \in Nat \ {0}, Fine(t) PROVE Fine(step(t, i))
    OBVIOUS
  <2>1. CASE t.err # "none"
    BY <2>1
  <2>2. CASE t.err = "none"
    <3> DEFINE g == dir_block(t.fs, d, i - 1)
    <3>1. Sound(t.fs) /\ Grows(s, t.fs)
      BY <2>2, GoodAtOf, GrownOf DEF Stops
    <3>2. Good(g) /\ (g.err = "ok" => g.r \in Blocks) /\ Grown(s, g)
      BY <3>1, DirBlockIs, GrownOf
    <3>3. step(t, i) = search(g)
      BY <2>2
    <3> HIDE DEF g
    <3>4. CASE g.err # "ok"
      BY <3>2, <3>3, <3>4, GoodAtOf
    <3>5. CASE g.err = "ok" /\ empty(g) = {}
      <4>1. search(g) = Fail(g.fs, "none") /\ Sound(g.fs) /\ Grows(s, g.fs)
        BY <3>2, <3>5, GoodOf, GrownOf DEF Stops
      <4> HIDE DEF search, step
      <4> QED BY <3>3, <4>1, GoodAtOf, GrownOf, Results
    <3>6. CASE g.err = "ok" /\ empty(g) # {}
      <4> DEFINE f == Pos(g.r, Min(empty(g)))
      <4>1. search(g) = Ok(g.fs, f) /\ Sound(g.fs) /\ Grows(s, g.fs)
        BY <3>2, <3>6, GoodOf, GrownOf DEF Stops
      <4>2. f \in Where
        BY <3>2, <3>6, FirstJ DEF Js
      <4> HIDE DEF f, search, step
      <4> QED BY <3>3, <4>1, <4>2, GoodAtOf, GrownOf, Results
    <3> QED BY <3>4, <3>5, <3>6
  <2> QED BY <2>1, <2>2
<1>3. Fine(Fail(s, "none"))
  BY GoodAtOf, GrownOf, Results, SoundIs, QuietSelf, QuietIs
<1> HIDE DEF step, Fine
<1>4. n \in Nat
  <2>1. Get(s, d).size \in Nat
    BY SoundIs, GetIs, FileFields
  <2> QED BY <2>1, Numbers, DivNat
<1> HIDE DEF n
<1>5. \E g : Loop(g, n)
  <2> DEFINE S == {k \in Nat : \E g : Loop(g, k)}
  <2>1. 0 \in S
    <3>1. Loop([i \in {0} |-> Fail(s, "none")], 0)
      OBVIOUS
    <3> QED BY <3>1
  <2>2. ASSUME NEW k \in 1..n, k - 1 \in S PROVE k \in S
    <3>1. PICK g : Loop(g, k - 1)
      BY <2>2
    <3> DEFINE h == [i \in 0..k |-> IF i # k THEN g[i] ELSE step(g[k - 1], k)]
    <3>2. ASSUME NEW i \in 0..k
          PROVE  h[i] = IF i = 0 THEN Fail(s, "none") ELSE step(h[i - 1], i)
      BY <3>1
    <3>3. Loop(h, k)
      BY <3>2
    <3> HIDE DEF h
    <3> QED BY <1>4, <3>3
  <2> HIDE DEF S
  <2>3. n \in S
    BY <1>4, <2>1, <2>2, Upto
  <2> QED BY <2>3 DEF S
<1>6. Loop(g0, n)
  BY <1>5
<1> HIDE DEF g0
<1>7. \A i \in 0..n : g0[i] = IF i = 0 THEN Fail(s, "none") ELSE step(g0[i - 1], i)
  BY <1>6
<1> DEFINE S == {i \in 0..n : Fine(g0[i])}
<1>8. 0 \in S
  BY <1>4, <1>7, <1>3
<1>9. ASSUME NEW i \in 1..n, i - 1 \in S PROVE i \in S
  BY <1>4, <1>2, <1>7, <1>9
<1> HIDE DEF S
<1>10. n \in S
  BY <1>4, <1>8, <1>9, Upto
<1>11. GoodAt(t0) /\ Grown(s, t0)
  BY <1>10 DEF S, Fine
<1> HIDE DEF t0
<1>12. CASE t0.err # "none"
  BY <1>1, <1>11, <1>12
<1>13. CASE t0.err = "none"
  <2>1. Sound(t0.fs) /\ Typed(t0.fs) /\ Grows(s, t0.fs)
    BY <1>11, <1>13, GoodAtOf, GrownOf, SoundIs DEF Stops
  <2>2. Get(t0.fs, d) \in File
    BY <2>1, GetIs
  <2>3. Get(t0.fs, d).size + BLOCK_SIZE \in Nat
    BY <2>2, FileFields, Numbers
  <2>4. Sound(u) /\ Grows(s, u)
    BY <2>1, <2>3, Resized, QuietSound, QuietIs, GrowsTrans
  <2> HIDE DEF u
  <2>5. Good(b0) /\ (b0.err = "ok" => b0.r \in Blocks) /\ Grown(s, b0)
    BY <1>4, <2>4, DirBlockIs, GrownOf
  <2> HIDE DEF b0
  <2>6. CASE b0.err # "ok"
    BY <1>1, <1>13, <2>5, <2>6, GoodAtOf
  <2>7. CASE b0.err = "ok"
    <3>1. Pos(b0.r, 0) \in Where /\ Sound(b0.fs) /\ Grows(s, b0.fs)
      BY <2>5, <2>7, GoodOf, GrownOf, Places, Numbers DEF Where, Stops
    <3>2. dir_alloc_file(s, d) = Ok(b0.fs, Pos(b0.r, 0))
      BY <1>1, <1>13, <2>7
    <3> QED BY <3>1, <3>2, GoodAtOf, GrownOf, Results
  <2> QED BY <2>6, <2>7
<1> QED BY <1>12, <1>13

(* What walk_path returns: the File, and the directory of the last name.   *)
GoodWalk(w) == GoodAt(w) /\ w.dir \in Positions

LEMMA WalkPath ==
  ASSUME NEW s, Sound(s), NEW path, Len(path) \in Nat
  PROVE  GoodWalk(walk_path(s, path)) /\ Grown(s, walk_path(s, path))
<1> DEFINE n == Len(path)
           at(t, f, e, d) == [fs |-> t, r |-> f, err |-> e, dir |-> d]
           found(l, d, i) ==
             at(l.fs, l.r, l.err,
                IF l.err = "ok" \/ (l.err = "E_NOT_FOUND" /\ i = Len(path)) THEN d ELSE Nil)
           step(w, i) == IF w.err # "ok" THEN w
                         ELSE IF Get(w.fs, w.r).type # "DIR" THEN at(w.fs, Nil, "E_NOT_FOUND", Nil)
                         ELSE found(dir_lookup(w.fs, w.r, path[i]), w.r, i)
           Loop(g, k) == g = [i \in 0..k |-> IF i = 0 THEN at(s, Root, "ok", Nil)
                                             ELSE step(g[i - 1], i)]
           g0 == CHOOSE g : Loop(g, n)
           Fine(w) == GoodWalk(w) /\ Grown(s, w)
<1>1. walk_path(s, path) = g0[n]
  BY DEF walk_path, Then
<1>2. \A w, i : i \in Nat \ {0} /\ Fine(w) => Fine(step(w, i))
  <2> SUFFICES ASSUME NEW w, NEW i \in Nat \ {0}, Fine(w) PROVE Fine(step(w, i))
    OBVIOUS
  <2>1. CASE w.err # "ok"
    BY <2>1
  <2>2. CASE w.err = "ok" /\ Get(w.fs, w.r).type # "DIR"
    <3>1. Sound(w.fs) /\ Typed(w.fs) /\ Nil \in Positions /\ Grows(s, w.fs)
      BY <2>2, GoodAtOf, GrownOf, SoundIs, Places DEF GoodWalk, Stops
    <3>2. step(w, i) = at(w.fs, Nil, "E_NOT_FOUND", Nil)
      BY <2>2
    <3> HIDE DEF step
    <3> QED BY <3>1, <3>2, GrownOf DEF GoodWalk, GoodAt, Good
  <2>3. CASE w.err = "ok" /\ Get(w.fs, w.r).type = "DIR"
    <3> DEFINE l == dir_lookup(w.fs, w.r, path[i])
               e == IF l.err = "ok" \/ (l.err = "E_NOT_FOUND" /\ i = Len(path)) THEN w.r ELSE Nil
    <3>1. Sound(w.fs) /\ w.r \in Where /\ Grows(s, w.fs)
      BY <2>3, GoodAtOf, GrownOf DEF GoodWalk, GoodAt, Stops
    <3>2. GoodAt(l) /\ Grown(s, l)
      BY <3>1, DirLookup, GrownOf
    <3>3. e \in Positions
      BY <3>1, Places
    <3>4. step(w, i) = at(l.fs, l.r, l.err, e)
      BY <2>3
    <3> HIDE DEF step, l, e
    <3> QED BY <3>2, <3>3, <3>4 DEF GoodWalk, GoodAt, Good, Grown, DiskKept
  <2> QED BY <2>1, <2>2, <2>3
<1>3. n \in Nat
  OBVIOUS
<1>4. Fine(at(s, Root, "ok", Nil))
  <2>1. Root \in Where /\ Nil \in Positions /\ Typed(s) /\ Grows(s, s)
    BY Places, SoundIs, QuietSelf, QuietIs DEF Where
  <2> QED BY <2>1, GrownOf DEF GoodWalk, GoodAt, Good
<1> HIDE DEF step, n, at, Fine
<1>5. \E g : Loop(g, n)
  <2> DEFINE S == {k \in Nat : \E g : Loop(g, k)}
  <2>1. 0 \in S
    <3>1. Loop([i \in {0} |-> at(s, Root, "ok", Nil)], 0)
      OBVIOUS
    <3> QED BY <3>1
  <2>2. ASSUME NEW k \in 1..n, k - 1 \in S PROVE k \in S
    <3>1. PICK g : Loop(g, k - 1)
      BY <2>2
    <3> DEFINE h == [i \in 0..k |-> IF i # k THEN g[i] ELSE step(g[k - 1], k)]
    <3>2. ASSUME NEW i \in 0..k
          PROVE  h[i] = IF i = 0 THEN at(s, Root, "ok", Nil) ELSE step(h[i - 1], i)
      BY <3>1
    <3>3. Loop(h, k)
      BY <3>2
    <3> HIDE DEF h
    <3> QED BY <1>3, <3>3
  <2> HIDE DEF S
  <2>3. n \in S
    BY <1>3, <2>1, <2>2, Upto
  <2> QED BY <2>3 DEF S
<1>6. Loop(g0, n)
  BY <1>5
<1> HIDE DEF g0
<1>7. \A i \in 0..n : g0[i] = IF i = 0 THEN at(s, Root, "ok", Nil) ELSE step(g0[i - 1], i)
  BY <1>6
<1> DEFINE S == {i \in 0..n : Fine(g0[i])}
<1>8. 0 \in S
  BY <1>3, <1>7, <1>4
<1>9. ASSUME NEW i \in 1..n, i - 1 \in S PROVE i \in S
  BY <1>3, <1>2, <1>7, <1>9
<1> HIDE DEF S
<1>10. n \in S
  BY <1>3, <1>8, <1>9, Upto
<1> QED BY <1>1, <1>10 DEF S, Fine

(* A call that maps pages.                                                 *)
GoodPages(t) == Good(t) /\ t.r \in Ptrs

LEMMA FsipcMap ==
  ASSUME NEW s, Sound(s), NEW f \in Where, NEW pages \in Ptrs, NEW from \in Nat, NEW to \in Nat
  PROVE  /\ GoodPages(fsipc_map(s, f, pages, from, to))
         /\ Grown(s, fsipc_map(s, f, pages, from, to))
         /\ to <= from => fsipc_map(s, f, pages, from, to) = Ok(s, pages)
<1> DEFINE mapped(t, g, n) == IF g.err # "ok" THEN Returns(g, t.r)
                              ELSE Ok(g.fs, [t.r EXCEPT ![n] = g.r])
           step(t, n) == IF t.err # "ok" THEN t
                         ELSE mapped(t, file_get_block(t.fs, f, n - 1), n - 1)
           Loop(g, n) == g = [i \in 0..n |-> IF i <= from THEN Ok(s, pages) ELSE step(g[i - 1], i)]
           g0 == CHOOSE g : Loop(g, to)
           Fine(t) == GoodPages(t) /\ Grown(s, t)
<1>1. fsipc_map(s, f, pages, from, to) = g0[to]
  BY DEF fsipc_map, Then
<1>2. \A t, n : n \in Nat \ {0} /\ Fine(t) => Fine(step(t, n))
  <2> SUFFICES ASSUME NEW t, NEW n \in Nat \ {0}, Fine(t) PROVE Fine(step(t, n))
    OBVIOUS
  <2>1. CASE t.err # "ok"
    BY <2>1
  <2>2. CASE t.err = "ok"
    <3> DEFINE g == file_get_block(t.fs, f, n - 1)
               q == [t.r EXCEPT ![n - 1] = g.r]
    <3>1. Sound(t.fs) /\ t.r \in Ptrs /\ Grows(s, t.fs)
      BY <2>2, GoodOf, GrownOf DEF GoodPages, Stops
    <3>2. Good(g) /\ (g.err = "ok" => g.r \in Blocks) /\ Grown(s, g)
      BY <3>1, GetFileBlock, GrownOf
    <3>3. step(t, n) = IF g.err # "ok" THEN Returns(g, t.r) ELSE Ok(g.fs, q)
      BY <2>2
    <3> HIDE DEF g
    <3>4. g.err = "ok" => q \in Ptrs
      BY <3>1, <3>2 DEF Ptrs
    <3> HIDE DEF q, step
    <3>5. CASE g.err # "ok"
      BY <3>1, <3>2, <3>3, <3>5 DEF GoodPages, Good, Returns, Grown, DiskKept
    <3>6. CASE g.err = "ok"
      BY <3>2, <3>3, <3>4, <3>6, GoodOf, Results DEF GoodPages, Grown, DiskKept
    <3> QED BY <3>5, <3>6
  <2> QED BY <2>1, <2>2
<1>3. Fine(Ok(s, pages))
  BY GoodOf, Results, SoundIs, QuietSelf, QuietIs, GrownOf DEF GoodPages
<1> HIDE DEF step, Fine
<1>4. \E g : Loop(g, to)
  <2> DEFINE S == {k \in Nat : \E g : Loop(g, k)}
  <2>1. 0 \in S
    <3>1. Loop([i \in {0} |-> Ok(s, pages)], 0)
      OBVIOUS
    <3> QED BY <3>1
  <2>2. ASSUME NEW k \in 1..to, k - 1 \in S PROVE k \in S
    <3>1. PICK g : Loop(g, k - 1)
      BY <2>2
    <3> DEFINE h == [i \in 0..k |-> IF i # k THEN g[i] ELSE IF k <= from THEN Ok(s, pages) ELSE step(g[k - 1], k)]
    <3>2. ASSUME NEW i \in 0..k
          PROVE  h[i] = IF i <= from THEN Ok(s, pages) ELSE step(h[i - 1], i)
      BY <3>1
    <3>3. Loop(h, k)
      BY <3>2
    <3> HIDE DEF h
    <3> QED BY <3>3
  <2> HIDE DEF S
  <2>3. to \in S
    BY <2>1, <2>2, Upto
  <2> QED BY <2>3 DEF S
<1>5. Loop(g0, to)
  BY <1>4
<1> HIDE DEF g0
<1>6. \A i \in 0..to : g0[i] = IF i <= from THEN Ok(s, pages) ELSE step(g0[i - 1], i)
  BY <1>5
<1> DEFINE S == {i \in 0..to : Fine(g0[i])}
<1>7. 0 \in S
  BY <1>6, <1>3
<1>8. ASSUME NEW i \in 1..to, i - 1 \in S PROVE i \in S
  BY <1>2, <1>6, <1>8, <1>3
<1> HIDE DEF S
<1>9. to \in S
  BY <1>7, <1>8, Upto
<1> QED BY <1>1, <1>6, <1>9 DEF S, Fine

(* The pages that a close marks dirty.                                     *)
LEMMA MarkDirty ==
  ASSUME NEW s, Sound(s), NEW f \in Where, NEW last \in Nat
  PROVE  Good(dirty_blocks(s, f, last)) /\ Same(s, dirty_blocks(s, f, last).fs)
<1> DEFINE step(t, n) == IF t.err # "ok" THEN t ELSE file_dirty(t.fs, f, n - 1)
           Loop(g, n) == g = [i \in 0..n |-> IF i = 0 THEN Ok(s, 0) ELSE step(g[i - 1], i)]
           g0 == CHOOSE g : Loop(g, last)
           Fine(t) == Good(t) /\ Same(s, t.fs)
<1>1. dirty_blocks(s, f, last) = g0[last]
  BY DEF dirty_blocks, Then
<1>2. \A t, n : n \in Nat \ {0} /\ Fine(t) => Fine(step(t, n))
  BY GoodOf, FileDirty, SameTrans
<1>3. Fine(Ok(s, 0))
  BY GoodOf, Results, SoundIs, SameSelf
<1> HIDE DEF step, Fine
<1>4. \E g : Loop(g, last)
  <2> DEFINE S == {k \in Nat : \E g : Loop(g, k)}
  <2>1. 0 \in S
    <3>1. Loop([i \in {0} |-> Ok(s, 0)], 0)
      OBVIOUS
    <3> QED BY <3>1
  <2>2. ASSUME NEW k \in 1..last, k - 1 \in S PROVE k \in S
    <3>1. PICK g : Loop(g, k - 1)
      BY <2>2
    <3> DEFINE h == [i \in 0..k |-> IF i # k THEN g[i] ELSE step(g[k - 1], k)]
    <3>2. ASSUME NEW i \in 0..k
          PROVE  h[i] = IF i = 0 THEN Ok(s, 0) ELSE step(h[i - 1], i)
      BY <3>1
    <3>3. Loop(h, k)
      BY <3>2
    <3> HIDE DEF h
    <3> QED BY <3>3
  <2> HIDE DEF S
  <2>3. last \in S
    BY <2>1, <2>2, Upto
  <2> QED BY <2>3 DEF S
<1>5. Loop(g0, last)
  BY <1>4
<1> HIDE DEF g0
<1>6. \A i \in 0..last : g0[i] = IF i = 0 THEN Ok(s, 0) ELSE step(g0[i - 1], i)
  BY <1>5
<1> DEFINE S == {i \in 0..last : Fine(g0[i])}
<1>7. 0 \in S
  BY <1>6, <1>3
<1>8. ASSUME NEW i \in 1..last, i - 1 \in S PROVE i \in S
  BY <1>2, <1>6, <1>8
<1> HIDE DEF S
<1>9. last \in S
  BY <1>7, <1>8, Upto
<1> QED BY <1>1, <1>9 DEF S, Fine

-----------------------------------------------------------------------------
(* The disk.  As long as nothing has been freed, it is the disk of a sound *)
(* file system: no block is pointed to by two Files on it, or by one File  *)
(* on it and another in memory; none of those is free; and the indirect    *)
(* blocks on it are empty, as nothing marks them dirty.                    *)

CellsOnce(s) ==
  \A p, q \in Where, i, k \in Cells :
    Cell(s, p, i) # 0 /\ Cell(s, p, i) = Cell(s, q, k) => p = q /\ i = k
CellsAgree(s) ==
  \A p, q \in Where, i \in Cells, k \in Slots :
    Cell(s, p, i) # 0 /\ Cell(s, p, i) = Slot(s, q, k) => p = q /\ i = k
CellsNotFree(s) == \A p \in Where, i \in Cells : Cell(s, p, i) \notin s.free

Indirects(s) ==
  {Slot(s, p, NINDIRECT) : p \in Where} \cup {Cell(s, p, NINDIRECT) : p \in Where}
Empty(s, b) == \A i \in Indices : Pointers(s.disk[b])[i] = 0
Blank(s) == \A b \in (s.free \cup Indirects(s)) \ {0} : b \notin s.dirty /\ Empty(s, b)

DiskSound(s) == CellsOnce(s) /\ CellsAgree(s) /\ CellsNotFree(s) /\ Blank(s)

(* What is left of it when the server has stopped. *)
DiskSafe(s) ==
  /\ CellsOnce(s)
  /\ \A p \in Where, i \in Cells : Cell(s, p, i) \notin s.disk_free
  /\ \A p \in Where : Cell(s, p, NINDIRECT) # 0 => Empty(s, Cell(s, p, NINDIRECT))

LEMMA CellTypes ==
  ASSUME NEW s, Typed(s), NEW p \in Where
  PROVE  /\ OnDisk(s, p) \in File
         /\ \A i \in Cells : Cell(s, p, i) \in Blocks \cup {0} /\ i \in Slots
<1>1. OnDisk(s, p) \in File
  <2>1. CASE p = Root
    BY <2>1, FirstFiles DEF OnDisk, At
  <2>2. CASE p # Root
    <3>1. p.blk \in Blocks /\ p.idx \in Js
      BY <2>2, Places DEF Where
    <3> QED BY <2>2, <3>1 DEF OnDisk, At, Typed, Page
  <2> QED BY <2>1, <2>2
<1> QED BY <1>1, FileFields, Numbers DEF Cell, Cells

LEMMA SafeOf ==
  ASSUME NEW s, Typed(s), DiskSound(s), NEW t, t.disk = s.disk, t.disk_free \subseteq s.free
  PROVE  DiskSafe(t)
<1>1. \A p, i : Cell(t, p, i) = Cell(s, p, i)
  BY DEF Cell, OnDisk
<1>2. \A p \in Where : Cell(s, p, NINDIRECT) # 0 => Empty(s, Cell(s, p, NINDIRECT))
  BY DEF DiskSound, Blank, Indirects
<1> QED BY <1>1, <1>2 DEF DiskSound, CellsOnce, CellsNotFree, DiskSafe, Empty

LEMMA NearDisk ==
  ASSUME NEW s, Typed(s), DiskSound(s), NEW t, Near(s, t), t.free \subseteq s.free
  PROVE  DiskSound(t)
<1>1. /\ \A p, i : Cell(t, p, i) = Cell(s, p, i)
      /\ \A b : Empty(t, b) <=> Empty(s, b)
  BY DEF Near, Cell, OnDisk, Empty
<1>2. CellsOnce(t) /\ CellsNotFree(t)
  BY <1>1 DEF DiskSound, CellsOnce, CellsNotFree
<1>3. CellsAgree(t)
  BY <1>1 DEF DiskSound, CellsAgree, CellsNotFree, Near
<1>4. Blank(t)
  <2>1. Indirects(t) \subseteq Indirects(s) \cup s.free \cup {0}
    BY <1>1, Numbers DEF Indirects, Near
  <2> QED BY <1>1, <2>1 DEF DiskSound, Blank, Near
<1> QED BY <1>2, <1>3, <1>4 DEF DiskSound

LEMMA SameDisk ==
  ASSUME NEW s, Sound(s), DiskSound(s), NEW t, Same(s, t)
  PROVE  DiskSound(t)
<1>1. Typed(s) /\ Typed(t) /\ Unique(s) /\ NotFree(s)
  BY DEF Sound, Same
<1>2. \A i \in Cells : i \in Slots
  BY Numbers DEF Cells
<1>3. \A p \in Where, i \in Cells : Cell(t, p, i) \in {0, Cell(s, p, i), Slot(s, p, i)}
  BY DEF Same
<1>4. \A p \in Where, i \in Slots : Slot(t, p, i) \in {0, Slot(s, p, i)}
  BY DEF Same, Shrinks
<1>5. CellsOnce(t)
  BY <1>1, <1>2, <1>3 DEF DiskSound, CellsOnce, CellsAgree, Unique
<1>6. CellsAgree(t)
  BY <1>1, <1>2, <1>3, <1>4 DEF DiskSound, CellsAgree, Unique
<1>7. CellsNotFree(t)
  <2>1. 0 \notin t.free /\ t.free = s.free
    BY <1>1, Numbers DEF Typed, Same
  <2> QED BY <1>1, <1>2, <1>3, <2>1 DEF DiskSound, CellsNotFree, NotFree
<1>8. Blank(t)
  <2> SUFFICES ASSUME NEW b \in (t.free \cup Indirects(t)) \ {0}
               PROVE  b \notin t.dirty /\ Empty(t, b)
    BY DEF Blank
  <2>1. b \in s.free \cup Indirects(s) /\ b \in Blocks
    <3>1. CASE b \in t.free
      BY <1>1, <3>1 DEF Typed, Same
    <3>2. CASE b \in Indirects(t)
      <4>1. NINDIRECT \in Cells /\ NINDIRECT \in Slots
        BY Numbers DEF Cells
      <4>2. PICK p \in Where : b = Slot(t, p, NINDIRECT) \/ b = Cell(t, p, NINDIRECT)
        BY <3>2 DEF Indirects
      <4>3. b \in Blocks
        BY <1>1, <4>1, <4>2, SlotIs, CellTypes
      <4>4. b = Slot(s, p, NINDIRECT) \/ b = Cell(s, p, NINDIRECT)
        BY <1>3, <1>4, <4>1, <4>2
      <4> QED BY <4>3, <4>4 DEF Indirects
    <3> QED BY <3>1, <3>2
  <2>2. b \notin s.dirty /\ Empty(s, b)
    BY <2>1 DEF DiskSound, Blank
  <2>3. b \notin t.dirty
    <3> SUFFICES ASSUME b \in t.dirty PROVE FALSE
      OBVIOUS
    <3>1. PICK q \in Where, k \in Indices : b = Slot(s, q, k)
      BY <2>2 DEF Same
    <3>2. k \in Slots /\ k # NINDIRECT /\ NINDIRECT \in Slots /\ NINDIRECT \in Cells
      BY Numbers DEF Cells
    <3>3. b \notin s.free
      BY <1>1, <3>1, <3>2 DEF NotFree
    <3>4. PICK p \in Where : b = Slot(s, p, NINDIRECT) \/ b = Cell(s, p, NINDIRECT)
      BY <2>1, <3>3 DEF Indirects
    <3> QED BY <1>1, <3>1, <3>2, <3>4 DEF Unique, DiskSound, CellsAgree
  <2>4. t.disk[b] = s.disk[b]
    BY <2>1, <2>3 DEF Same
  <2> QED BY <2>2, <2>3, <2>4 DEF Empty
<1> QED BY <1>5, <1>6, <1>7, <1>8 DEF DiskSound

(* What a call leaves on the disk, when it has freed nothing in the end.   *)
Durable(s, t) ==
  /\ t.err \in Stops => DiskSafe(t.fs)
  /\ t.err \notin Stops /\ t.fs.free \subseteq s.free => DiskSound(t.fs)

LEMMA DurableOf ==
  ASSUME NEW s, Sound(s), DiskSound(s)
  PROVE  /\ \A t : Grown(s, t) => Durable(s, t)
         /\ \A t, u : Typed(t) /\ Grows(s, t) /\ Settled(t, u) => Durable(s, u)
         /\ \A t : Same(s, t.fs) => Durable(s, t)
<1>1. Typed(s)
  BY SoundIs
<1>2. ASSUME NEW t, Grown(s, t) PROVE Durable(s, t)
  BY <1>1, <1>2, NearDisk, SafeOf DEF Grown, Grows, DiskKept, Durable
<1>3. ASSUME NEW t, NEW u, Typed(t), Grows(s, t), Settled(t, u) PROVE Durable(s, u)
  <2>1. u.err \in Stops => DiskSafe(u.fs)
    BY <1>1, <1>3, SafeOf DEF Grows, Near, Settled, DiskKept
  <2>2. ASSUME u.err \notin Stops, u.fs.free \subseteq s.free PROVE DiskSound(u.fs)
    <3>1. PICK m : Drops(t, m) /\ Sound(m) /\ Same(m, u.fs)
      BY <1>3, <2>2 DEF Settled, Settles
    <3>2. Near(s, m) /\ m.free \subseteq s.free
      BY <1>3, <2>2, <3>1, DropsOf, GrowsTrans DEF Same
    <3> QED BY <1>1, <3>1, <3>2, NearDisk, SameDisk
  <2> QED BY <2>1, <2>2 DEF Durable
<1>4. ASSUME NEW t, Same(s, t.fs) PROVE Durable(s, t)
  <2>1. Typed(t.fs) /\ DiskSound(t.fs)
    BY <1>4, SameDisk DEF Same
  <2> QED BY <2>1, SafeOf DEF Durable, Typed
<1> QED BY <1>2, <1>3, <1>4

-----------------------------------------------------------------------------
(* The requests.                                                           *)

LEMMA FileCreate ==
  ASSUME NEW s, Sound(s), NEW path \in Paths
  PROVE  GoodAt(file_create(s, path)) /\ Grown(s, file_create(s, path))
<1> DEFINE c == file_create(s, path)
           w == walk_path(s, path)
           d == dir_alloc_file(w.fs, w.dir)
           n == path[Len(path)]
           t == Put(d.fs, d.r, [Get(d.fs, d.r) EXCEPT !.name = n])
<1>1. Len(path) \in Nat /\ n \in Names
  BY PathIs
<1>2. GoodWalk(w) /\ Grown(s, w)
  BY <1>1, WalkPath
<1>3. c = IF w.err = "ok" THEN Fail(w.fs, "E_FILE_EXISTS")
          ELSE IF w.err # "E_NOT_FOUND" \/ w.dir = Nil THEN Fail(w.fs, w.err)
          ELSE IF d.err \in Stops THEN d
          ELSE IF d.err # "ok" THEN Fail(d.fs, w.err) ELSE Ok(t, d.r)
  BY DEF file_create
<1> HIDE DEF c, w, n
<1>4. CASE w.err = "ok"
  <2>1. Sound(w.fs) /\ c = Fail(w.fs, "E_FILE_EXISTS") /\ Grows(s, w.fs)
    BY <1>2, <1>3, <1>4, GoodAtOf, GrownOf DEF GoodWalk, Stops
  <2> QED BY <2>1, GoodAtOf, GrownOf, Results DEF c
<1>5. CASE w.err # "ok" /\ (w.err # "E_NOT_FOUND" \/ w.dir = Nil)
  <2>1. c = Fail(w.fs, w.err)
    BY <1>3, <1>5
  <2>2. c.fs = w.fs /\ c.err = w.err
    BY <2>1, Results
  <2> QED BY <1>2, <1>5, <2>2 DEF GoodWalk, GoodAt, Good, Grown, DiskKept, c
<1>6. CASE w.err = "E_NOT_FOUND" /\ w.dir # Nil
  <2>1. Sound(w.fs) /\ w.dir \in Where /\ Grows(s, w.fs)
    BY <1>2, <1>6, GoodAtOf, GrownOf, Places DEF GoodWalk, Stops
  <2>2. GoodAt(d) /\ Grown(s, d)
    BY <2>1, DirAllocFile, GrownOf
  <2> HIDE DEF d
  <2>3. CASE d.err \in Stops
    <3>1. c = d
      BY <1>3, <1>6, <2>3
    <3> QED BY <2>2, <3>1 DEF c
  <2>4. CASE d.err \notin Stops /\ d.err # "ok"
    <3>1. c = Fail(d.fs, w.err) /\ Sound(d.fs) /\ Grows(s, d.fs)
      BY <1>3, <1>6, <2>2, <2>4, GoodAtOf, GrownOf
    <3> QED BY <1>6, <3>1, GoodAtOf, GrownOf, Results DEF c
  <2>5. CASE d.err = "ok"
    <3>1. c = Ok(t, d.r) /\ d.r \in Where /\ Sound(d.fs) /\ Typed(d.fs) /\ Grows(s, d.fs)
      BY <1>3, <1>6, <2>2, <2>5, GoodAtOf, GrownOf, SoundIs DEF Stops, GoodAt
    <3>2. Sound(t) /\ Grows(s, t)
      BY <1>1, <3>1, Renamed, QuietSound, QuietIs, GrowsTrans
    <3> HIDE DEF t
    <3> QED BY <3>1, <3>2, GoodAtOf, GrownOf, Results DEF c
  <2> QED BY <2>3, <2>4, <2>5
<1> QED BY <1>4, <1>5, <1>6

LEMMA FileRemove ==
  ASSUME NEW s, Sound(s), NEW path \in Paths
  PROVE  Good(file_remove(s, path)) /\ (DiskSound(s) => Durable(s, file_remove(s, path)))
<1> DEFINE c == file_remove(s, path)
           w == walk_path(s, path)
           t == file_truncate(w.fs, w.r, 0)
           u == Put(t.fs, w.r, [Get(t.fs, w.r) EXCEPT !.name = NoName])
           v == file_flush(u, w.r)
           d == Get(u, w.r).dir
<1>1. GoodWalk(w) /\ Grown(s, w)
  BY PathIs, WalkPath
<1>2. c = IF w.err # "ok" THEN w ELSE IF t.err # "ok" THEN t ELSE Ok(flush_dir(v, d), w.r)
  BY DEF file_remove, Then
<1> HIDE DEF c, w
<1>3. CASE w.err # "ok"
  <2>1. c = w
    BY <1>2, <1>3
  <2> QED BY <1>1, <2>1, DurableOf DEF GoodWalk, GoodAt, c
<1>4. CASE w.err = "ok"
  <2>1. Sound(w.fs) /\ Typed(w.fs) /\ w.r \in Where /\ Grows(s, w.fs)
    BY <1>1, <1>4, GoodAtOf, GrownOf, SoundIs DEF GoodWalk, GoodAt, Stops
  <2>2. Good(t) /\ Drops(w.fs, t.fs)
    BY <2>1, Truncate
  <2>3. Settled(w.fs, c) => (DiskSound(s) => Durable(s, c))
    BY <2>1, DurableOf
  <2> HIDE DEF t
  <2>4. CASE t.err # "ok"
    <3>1. c = t
      BY <1>2, <1>4, <2>4
    <3> QED BY <2>1, <2>2, <2>3, <3>1, SettlesOf DEF c
  <2>5. CASE t.err = "ok"
    <3>1. Sound(t.fs) /\ Typed(t.fs)
      BY <2>2, <2>5, GoodOf, SoundIs
    <3>2. Sound(u) /\ Typed(u) /\ Same(t.fs, u)
      BY <2>1, <3>1, Renamed, QuietSound, QuietIs, SoundIs
    <3> HIDE DEF u
    <3>3. Sound(v) /\ Typed(v) /\ Same(t.fs, v) /\ d \in Positions
      BY <2>1, <3>2, FileFlush, SameSound, SameTrans, SoundIs, GetIs, FileFields
    <3> HIDE DEF v, d
    <3>4. Sound(flush_dir(v, d)) /\ Same(t.fs, flush_dir(v, d))
      BY <3>3, FlushDir, SameSound, SameTrans
    <3>5. c = Ok(flush_dir(v, d), w.r)
      BY <1>2, <1>4, <2>5
    <3>6. Settled(w.fs, c)
      BY <2>2, <3>1, <3>4, <3>5, Results, SettlesOf DEF Settled, Stops
    <3> QED BY <2>3, <3>4, <3>5, <3>6, GoodOf DEF c
  <2> QED BY <2>4, <2>5
<1> QED BY <1>3, <1>4

LEMMA ServeOpen ==
  ASSUME Sound(fs), NEW path \in Paths, NEW creat \in BOOLEAN, NEW trunc \in BOOLEAN
  PROVE  LET o == serve_open(path, creat, trunc) IN
         /\ GoodAt(o) /\ (DiskSound(fs) => Durable(fs, o))
         /\ o.err = "ok" => Grows(fs, o.fs) \/ Get(o.fs, o.r).size = 0
<1> DEFINE o == serve_open(path, creat, trunc)
           c == IF creat THEN file_create(fs, path) ELSE Ok(fs, Nil)
           w == walk_path(c.fs, path)
           t == file_set_size(w.fs, w.r, 0)
           Fine(u) == /\ GoodAt(u) /\ (DiskSound(fs) => Durable(fs, u))
                      /\ u.err = "ok" => Grows(fs, u.fs) \/ Get(u.fs, u.r).size = 0
<1>1. Good(c) /\ Grown(fs, c)
  <2>1. Typed(fs)
    BY SoundIs
  <2>2. Grown(fs, Ok(fs, Nil))
    BY <2>1, QuietSelf, QuietIs, GrownOf, Results
  <2> QED BY <2>2, FileCreate, GoodOf DEF GoodAt
<1>2. \A u : GoodAt(u) /\ Grown(fs, u) => Fine(u)
  BY DurableOf DEF Grown, Stops
<1>3. o = IF c.err \notin {"ok", "E_FILE_EXISTS"} THEN c
          ELSE IF w.err # "ok" THEN w
          ELSE IF ~trunc THEN Ok(w.fs, w.r)
          ELSE IF t.err # "ok" THEN t ELSE Ok(t.fs, w.r)
  BY DEF serve_open, Then
<1> HIDE DEF o, c
<1> SUFFICES Fine(o)
  BY DEF o
<1> HIDE DEF Fine
<1>4. CASE c.err \notin {"ok", "E_FILE_EXISTS"}
  <2>1. o = c /\ c.err # "ok"
    BY <1>3, <1>4
  <2> QED BY <1>1, <1>2, <2>1, GoodAtOf
<1>5. CASE c.err \in {"ok", "E_FILE_EXISTS"}
  <2>1. Sound(c.fs) /\ Grows(fs, c.fs)
    BY <1>1, <1>5, GrownOf DEF Good, Stops
  <2>2. GoodWalk(w) /\ Grown(fs, w)
    BY <2>1, PathIs, WalkPath, GrownOf
  <2> HIDE DEF w
  <2>3. CASE w.err # "ok"
    <3>1. o = w
      BY <1>3, <1>5, <2>3
    <3> QED BY <1>2, <2>2, <3>1 DEF GoodWalk
  <2>4. CASE w.err = "ok"
    <3>1. Sound(w.fs) /\ Typed(w.fs) /\ w.r \in Where /\ Grows(fs, w.fs)
      BY <2>2, <2>4, GoodAtOf, GrownOf, SoundIs DEF GoodWalk, GoodAt, Stops
    <3>2. /\ Good(t) /\ (t.err = "ok" => Get(t.fs, w.r).size = 0)
          /\ DiskSound(fs) => Durable(fs, t)
      BY <3>1, SetSize, DurableOf
    <3> HIDE DEF t
    <3>3. CASE ~trunc
      <4>1. o = Ok(w.fs, w.r)
        BY <1>3, <1>5, <2>4, <3>3
      <4> QED BY <1>2, <3>1, <4>1, GoodAtOf, GrownOf, Results
    <3>4. CASE trunc /\ t.err # "ok"
      <4>1. o = t
        BY <1>3, <1>5, <2>4, <3>4
      <4> QED BY <3>2, <3>4, <4>1, GoodAtOf DEF Fine
    <3>5. CASE trunc /\ t.err = "ok"
      <4>1. o = Ok(t.fs, w.r) /\ Sound(t.fs)
        BY <1>3, <1>5, <2>4, <3>2, <3>5, GoodOf
      <4>2. o.fs = t.fs /\ o.err = t.err /\ o.r = w.r
        BY <3>5, <4>1, Results
      <4> QED BY <3>1, <3>2, <3>5, <4>1, <4>2, GoodAtOf DEF Fine, Durable
    <3> QED BY <3>3, <3>4, <3>5
  <2> QED BY <2>3, <2>4
<1> QED BY <1>4, <1>5

LEMMA Resize ==
  ASSUME Sound(fs), NEW f \in Where, NEW old \in Nat, NEW n \in Nat, NEW pages \in Ptrs
  PROVE  LET c == resize(f, old, n, pages) IN
         /\ GoodPages(c)
         /\ DiskSound(fs) /\ Get(fs, f).size = old => Durable(fs, c)
<1> DEFINE c == resize(f, old, n, pages)
           t == file_set_size(fs, f, n)
           m == fsipc_map(t.fs, f, pages, Nblocks(old), Nblocks(n))
           b == file_set_size(m.fs, f, old)
           Lasts(u) == DiskSound(fs) /\ Get(fs, f).size = old => Durable(fs, u)
<1>1. Good(t) /\ Lasts(t)
  <2>1. Typed(fs) /\ Grows(fs, fs)
    BY SoundIs, QuietSelf, QuietIs
  <2> QED BY <2>1, SetSize, DurableOf
<1>2. c = IF t.err # "ok" THEN Returns(t, pages)
          ELSE IF m.err \in Stops \cup {"ok"} THEN m ELSE Returns(b, m.r)
  BY DEF resize
<1>3. ~(Get(fs, f).size > n) => t.err = "ok" /\ Same(fs, t.fs)
  BY SetSize
<1>4. Get(fs, f).size \in Nat
  BY SoundIs, GetIs, FileFields
<1> SUFFICES GoodPages(c) /\ Lasts(c)
  OBVIOUS
<1> HIDE DEF c, t
<1>5. CASE t.err # "ok"
  <2>1. c = Returns(t, pages)
    BY <1>2, <1>5
  <2>2. c.fs = t.fs /\ c.err = t.err /\ c.r = pages
    BY <2>1 DEF Returns
  <2> QED BY <1>1, <2>2 DEF GoodPages, Good, Durable
<1>6. CASE t.err = "ok"
  <2>1. Sound(t.fs) /\ Typed(t.fs)
    BY <1>1, <1>6, GoodOf, SoundIs
  <2>2. /\ GoodPages(m) /\ Grown(t.fs, m)
        /\ Nblocks(n) <= Nblocks(old) => m = Ok(t.fs, pages)
    BY <2>1, FsipcMap, NblocksNat
  <2> HIDE DEF m
  <2>3. ASSUME ~(Get(fs, f).size > n), DiskSound(fs)
        PROVE  DiskSound(t.fs) /\ t.fs.free = fs.free
    BY <1>3, <2>3, SameDisk DEF Same
  <2>4. ASSUME DiskSound(t.fs), t.fs.free = fs.free, NEW u, Durable(t.fs, u)
        PROVE  Durable(fs, u)
    BY <2>4 DEF Durable
  <2>5. Get(fs, f).size = old /\ Get(fs, f).size > n => m = Ok(t.fs, pages)
    BY <1>4, <2>2, NblocksMono
  <2>6. Durable(fs, t) /\ m = Ok(t.fs, pages) => Durable(fs, m)
    BY <1>6, Results DEF Durable
  <2>7. m = Ok(t.fs, pages) => m.err = "ok"
    BY Results
  <2>8. CASE m.err \in Stops \cup {"ok"}
    <3>1. c = m
      BY <1>2, <1>6, <2>8
    <3>2. Get(fs, f).size > n => Lasts(c)
      BY <1>1, <2>5, <2>6, <3>1
    <3>3. ~(Get(fs, f).size > n) => Lasts(c)
      BY <2>1, <2>2, <2>3, <2>4, <3>1, DurableOf
    <3> QED BY <2>2, <3>1, <3>2, <3>3
  <2>9. CASE m.err \notin Stops \cup {"ok"}
    <3>1. Sound(m.fs) /\ Typed(m.fs) /\ Grows(t.fs, m.fs)
      BY <2>2, <2>9, GrownOf, SoundIs DEF GoodPages, Good
    <3>2. Good(b) /\ Settled(m.fs, b)
      BY <3>1, SetSize
    <3>3. c = Returns(b, m.r)
      BY <1>2, <1>6, <2>9
    <3> HIDE DEF b
    <3>4. c.fs = b.fs /\ c.err = b.err /\ c.r = m.r
      BY <3>3 DEF Returns
    <3>5. Get(fs, f).size = old => ~(Get(fs, f).size > n)
      BY <2>9, <2>5, <2>7
    <3>6. ~(Get(fs, f).size > n) /\ DiskSound(fs) => Durable(fs, b)
      BY <2>1, <2>3, <2>4, <3>1, <3>2, DurableOf
    <3>7. Durable(fs, b) => Durable(fs, c)
      BY <3>4 DEF Durable
    <3> QED BY <2>2, <3>2, <3>4, <3>5, <3>6, <3>7 DEF GoodPages, Good
  <2> QED BY <2>8, <2>9
<1> QED BY <1>5, <1>6

-----------------------------------------------------------------------------
(* The invariant.                                                          *)

Holders ==
  /\ fd = [i \in Opens |-> fd[i]]
  /\ \A i \in Opens : /\ DOMAIN fd[i] = {"file", "size", "pages"}
                      /\ fd[i].file \in Positions /\ fd[i].size \in Nat /\ fd[i].pages \in Ptrs

Histories == lost \subseteq Blocks /\ freed \in BOOLEAN /\ halted \in Stops \cup {"no"}

OnTheDisk == ~freed => DiskSafe(fs) /\ (halted = "no" => DiskSound(fs))

FilesInv ==
  Typed(fs) /\ (halted = "no" => Sound(fs)) /\ OnTheDisk /\ Holders /\ Histories

LEMMA MembersIn ==
  ASSUME NEW store, \A b \in Blocks : Page(store[b]), NEW x \in File
  PROVE  /\ BlocksOf(store, x) \subseteq Blocks /\ Members(store, x) \subseteq InBlocks
         /\ x.indirect \in Blocks \cup {0}
<1>1. BlocksOf(store, x) \subseteq Blocks
  BY PtrTypes DEF BlocksOf, Indices
<1>2. Members(store, x) \subseteq InBlocks
  BY <1>1, Places DEF Members, Js
<1> QED BY <1>1, <1>2, FileFields

LEMMA NamedIn ==
  ASSUME NEW s, Typed(s), NEW path
  PROVE  Named(Memory(s), s.root, path) \subseteq InBlocks
<1> DEFINE named(D, n) == {p \in UNION {Members(Memory(s), FileAt(s, d)) : d \in D} :
                            FileAt(s, p).name = n}
<1>1. \A D, n : D \subseteq Where => named(D, n) \subseteq InBlocks
  BY MemoryPages, FileTypes, MembersIn
<1>2. {Root} \subseteq Where /\ InBlocks \subseteq Where
  BY DEF Where
<1>3. Named(Memory(s), s.root, path) =
        IF Len(path) = 1 THEN named({Root}, path[1]) ELSE named(named({Root}, path[1]), path[2])
  BY DEF Named, FileAt
<1> HIDE DEF named
<1> QED BY <1>1, <1>2, <1>3

LEMMA BelowIn ==
  ASSUME Typed(fs), NEW path
  PROVE  Below(path) \subseteq InBlocks
<1>1. Named(Memory(fs), fs.root, path) \subseteq InBlocks /\ InBlocks \subseteq Where
  BY NamedIn DEF Where
<1>2. \A p \in Where : Members(Memory(fs), At(Memory(fs), fs.root, p)) \subseteq InBlocks
  BY MemoryPages, FileTypes, MembersIn DEF FileAt
<1> QED BY <1>1, <1>2 DEF Below

LEMMA GoodDone ==
  ASSUME NEW t, Good(t), Done(t), freed \in BOOLEAN, ~freed => Durable(fs, t)
  PROVE  /\ Typed(fs)' /\ (halted = "no" => Sound(fs))' /\ OnTheDisk'
         /\ freed' \in BOOLEAN /\ halted' \in Stops \cup {"no"}
<1>1. fs' = t.fs /\ (halted' = IF t.err \in Stops THEN t.err ELSE "no") /\ freed' \in BOOLEAN
  BY DEF Done
<1>2. Typed(t.fs) /\ (t.err \notin Stops => Sound(t.fs))
  BY DEF Good
<1>3. "no" \notin Stops
  BY DEF Stops
<1>4. halted' = "no" <=> t.err \notin Stops
  BY <1>1, <1>3
<1>5. ~freed' => ~freed /\ t.fs.free \subseteq fs.free
  BY DEF Done
<1>6. DiskSound(t.fs) => DiskSafe(t.fs)
  BY <1>2, SafeOf DEF Typed
<1>7. ~freed' => DiskSafe(t.fs) /\ (t.err \notin Stops => DiskSound(t.fs))
  BY <1>5, <1>6 DEF Durable
<1>8. OnTheDisk' <=> (~freed' => DiskSafe(t.fs) /\ (halted' = "no" => DiskSound(t.fs)))
  BY <1>1 DEF OnTheDisk, DiskSafe, DiskSound, CellsOnce, CellsAgree, CellsNotFree, Blank,
              Indirects, Empty, Cell, OnDisk, Slot, FileAt, Memory
<1> QED BY <1>1, <1>2, <1>4, <1>7, <1>8

-----------------------------------------------------------------------------
(* The steps.                                                              *)

LEMMA OpenStep ==
  ASSUME FilesInv, NEW path \in Paths, NEW creat \in BOOLEAN, NEW trunc \in BOOLEAN,
         open(path, creat, trunc)
  PROVE  FilesInv'
<1> DEFINE i == Min({k \in Opens : fd[k].file = Nil})
           o == serve_open(path, creat, trunc)
           size == Get(o.fs, o.r).size
           m == fsipc_map(o.fs, o.r, NoPages, 0, Nblocks(size))
<1>1. /\ \E k \in Opens : fd[k].file = Nil
      /\ halted = "no" /\ lost' = lost
      /\ IF o.err # "ok" THEN Done(o) /\ fd' = fd
         ELSE Done(m) /\ fd' = [fd EXCEPT ![i] = [file |-> o.r, size |-> size, pages |-> m.r]]
  BY DEF open, ByPath, Serving
<1>2. /\ Sound(fs) /\ GoodAt(o) /\ (~freed => DiskSound(fs) /\ Durable(fs, o))
      /\ o.err = "ok" => Grows(fs, o.fs) \/ size = 0
  BY <1>1, ServeOpen DEF FilesInv, OnTheDisk
<1> HIDE DEF o, size
<1>3. CASE o.err # "ok"
  BY <1>1, <1>2, <1>3, GoodDone DEF FilesInv, Holders, Histories, GoodAt
<1>4. CASE o.err = "ok"
  <2>1. Sound(o.fs) /\ o.r \in Where
    BY <1>2, <1>4, GoodAtOf DEF GoodAt, Stops
  <2>2. size \in Nat /\ NoPages \in Ptrs
    BY <2>1, SoundIs, GetIs, FileFields DEF NoPages, Ptrs, Indices, size
  <2>3. /\ GoodPages(m) /\ Grown(o.fs, m)
        /\ Nblocks(size) <= 0 => m = Ok(o.fs, NoPages)
    BY <2>1, <2>2, FsipcMap, NblocksNat
  <2> HIDE DEF m, i
  <2>4. ~freed => Durable(fs, m)
    <3>1. CASE Grows(fs, o.fs)
      BY <1>2, <2>3, <3>1, GrownOf, DurableOf
    <3>2. CASE size = 0
      <4>1. m = Ok(o.fs, NoPages)
        BY <2>3, <3>2, NblocksMono
      <4>2. m.fs = o.fs /\ m.err = o.err
        BY <1>4, <4>1, Results
      <4> QED BY <1>2, <4>2 DEF Durable
    <3> QED BY <1>2, <1>4, <3>1, <3>2
  <2>5. /\ Typed(fs)' /\ (halted = "no" => Sound(fs))' /\ OnTheDisk'
        /\ freed' \in BOOLEAN /\ halted' \in Stops \cup {"no"}
    BY <1>1, <1>4, <2>3, <2>4, GoodDone DEF FilesInv, Histories, GoodPages
  <2> DEFINE r == [file |-> o.r, size |-> size, pages |-> m.r]
  <2>6. /\ DOMAIN r = {"file", "size", "pages"}
        /\ r.file \in Positions /\ r.size \in Nat /\ r.pages \in Ptrs
    BY <2>1, <2>2, <2>3, Places DEF GoodPages
  <2>7. fd' = [fd EXCEPT ![i] = r]
    BY <1>1, <1>4
  <2> HIDE DEF r
  <2>8. Holders'
    BY <2>6, <2>7 DEF FilesInv, Holders
  <2> QED BY <1>1, <2>5, <2>8 DEF FilesInv, Histories
<1> QED BY <1>3, <1>4

LEMMA StoreStep ==
  ASSUME FilesInv, NEW i \in Opens, NEW n \in 0..(NINDIRECT - 1), NEW v \in Data, Store(i, n, v)
  PROVE  FilesInv'
<1> DEFINE b == fd[i].pages[n]
           c == DataBlock(v)
<1>1. /\ b # 0 /\ halted = "no" /\ fs' = [fs EXCEPT !.cache[b] = c]
      /\ UNCHANGED <<fd, lost, freed, halted>>
  BY DEF Store, Serving
<1>2. b \in Blocks
  BY <1>1 DEF FilesInv, Holders, Ptrs, Indices
<1>3. c.kind = "data"
  BY DEF DataBlock
<1>4. Page(c) /\ Plain(c) /\ c.kind # "unmapped"
  BY <1>3, PlainPage DEF Plain
<1> HIDE DEF b, c
<1>5. Typed(fs) /\ Sound(fs)
  BY <1>1 DEF FilesInv
<1>6. /\ Typed(fs') /\ fs'.free = fs.free /\ fs'.root = fs.root /\ Memory(fs')[b] = c
      /\ InMemory(fs, fs')
      /\ \A k \in Blocks : k # b => Memory(fs')[k] = Memory(fs)[k]
  BY <1>1, <1>2, <1>4, <1>5, CacheSet
<1>7. Shrinks(fs, fs')
  BY <1>4, <1>5, <1>6, PagesLost
<1>8. Sound(fs') /\ Grows(fs, fs')
  BY <1>5, <1>6, <1>7, ShrinkSound, QuietIs DEF Quiet
<1>9. ~freed' => DiskSound(fs') /\ DiskSafe(fs')
  BY <1>1, <1>5, <1>6, <1>8, NearDisk, SafeOf DEF FilesInv, OnTheDisk, Grows, Typed
<1>10. OnTheDisk'
  BY <1>9 DEF OnTheDisk, DiskSafe, DiskSound, CellsOnce, CellsAgree, CellsNotFree, Blank,
              Indirects, Empty, Cell, OnDisk, Slot, FileAt, Memory
<1> QED BY <1>1, <1>6, <1>8, <1>10 DEF FilesInv, Holders, Histories

LEMMA TruncateStep ==
  ASSUME FilesInv, NEW i \in Opens, NEW n \in Sizes, ftruncate(i, n)
  PROVE  FilesInv'
<1> DEFINE t == resize(fd[i].file, fd[i].size, n, fd[i].pages)
           q == [k \in DOMAIN fd[i].pages |-> IF k >= Nblocks(n) THEN 0 ELSE t.r[k]]
<1>1. /\ halted = "no" /\ fd[i].file # Nil /\ Done(t) /\ lost' = lost
      /\ fd' = [fd EXCEPT ![i].size = n, ![i].pages = q]
  BY DEF ftruncate, Serving, Writable, Agrees
<1>2. n \in Nat
  BY SizesAssumption
<1>3. fd[i].file \in Where /\ fd[i].size \in Nat /\ fd[i].pages \in Ptrs
  BY <1>1, Places DEF FilesInv, Holders
<1>4. GoodPages(t) /\ (~freed => Durable(fs, t))
  <2>1. Get(fs, fd[i].file).size = fd[i].size
    BY DEF ftruncate, Writable, Agrees
  <2> QED BY <1>1, <1>2, <1>3, <2>1, Resize DEF FilesInv, OnTheDisk
<1> HIDE DEF t
<1>5. q \in Ptrs
  BY <1>3, <1>4 DEF GoodPages, Ptrs
<1> HIDE DEF q
<1>6. /\ Typed(fs)' /\ (halted = "no" => Sound(fs))' /\ OnTheDisk'
      /\ freed' \in BOOLEAN /\ halted' \in Stops \cup {"no"}
  BY <1>1, <1>4, GoodDone DEF FilesInv, Histories, GoodPages
<1>7. Holders'
  BY <1>1, <1>2, <1>5 DEF FilesInv, Holders
<1> QED BY <1>1, <1>6, <1>7 DEF FilesInv, Histories

LEMMA CloseStep ==
  ASSUME FilesInv, NEW i \in Opens, close(i)
  PROVE  FilesInv'
<1> DEFINE f == fd[i].file
           last == Nblocks(fd[i].size)
           d == dirty_blocks(fs, f, last)
           c == Then(d, LAMBDA t : Ok(file_close(t.fs, f), 0))
<1>1. /\ halted = "no" /\ f # Nil /\ Done(c) /\ lost' = lost
      /\ fd' = [fd EXCEPT ![i] = Closed]
  BY DEF close, Serving
<1>2. f \in Where /\ last \in Nat
  BY <1>1, Places, NblocksNat DEF FilesInv, Holders
<1>3. Sound(fs) /\ Good(d) /\ Same(fs, d.fs) /\ (~freed => DiskSound(fs))
  BY <1>1, <1>2, MarkDirty DEF FilesInv, OnTheDisk
<1>4. c = IF d.err # "ok" THEN d ELSE Ok(file_close(d.fs, f), 0)
  BY DEF Then
<1> HIDE DEF c, d
<1>5. Good(c) /\ (~freed => Durable(fs, c))
  <2>1. CASE d.err # "ok"
    BY <1>3, <1>4, <2>1, DurableOf
  <2>2. CASE d.err = "ok"
    <3>1. Sound(file_close(d.fs, f)) /\ Same(fs, file_close(d.fs, f))
      BY <1>2, <1>3, <2>2, FileClose, GoodOf, SameTrans
    <3>2. c.fs = file_close(d.fs, f) /\ c.err \notin Stops
      BY <1>4, <2>2, Results DEF Stops
    <3> QED BY <1>3, <3>1, <3>2, GoodOf, DurableOf
  <2> QED BY <2>1, <2>2
<1>6. /\ Typed(fs)' /\ (halted = "no" => Sound(fs))' /\ OnTheDisk'
      /\ freed' \in BOOLEAN /\ halted' \in Stops \cup {"no"}
  BY <1>1, <1>5, GoodDone DEF FilesInv, Histories
<1>7. Holders'
  <2>1. /\ DOMAIN Closed = {"file", "size", "pages"}
        /\ Closed.file \in Positions /\ Closed.size \in Nat /\ Closed.pages \in Ptrs
    BY Places DEF Closed, NoPages, Ptrs, Indices
  <2> QED BY <1>1, <2>1 DEF FilesInv, Holders
<1> QED BY <1>1, <1>6, <1>7 DEF FilesInv, Histories

LEMMA RemoveStep ==
  ASSUME FilesInv, NEW path \in Paths, remove(path)
  PROVE  FilesInv'
<1> DEFINE store == Memory(fs)
           gone == UNION {LET x == At(store, fs.root, p) IN (BlocksOf(store, x) \cup {x.indirect}) \ {0} :
                            p \in Below(path) \ Named(store, fs.root, path)}
           t == file_remove(fs, path)
<1>1. halted = "no" /\ Done(t) /\ lost' \in {lost, lost \cup gone} /\ fd' = fd
  BY DEF remove, ByPath, Serving
<1>2. Typed(fs) /\ Good(t) /\ (~freed => Durable(fs, t))
  BY <1>1, FileRemove DEF FilesInv, OnTheDisk
<1>3. gone \subseteq Blocks
  <2>1. Below(path) \subseteq Where
    BY <1>2, BelowIn DEF Where
  <2>2. \A p \in Where : FileAt(fs, p) \in File
    BY <1>2, FileTypes
  <2>3. \A b \in Blocks : Page(store[b])
    BY <1>2, MemoryPages
  <2> HIDE DEF store
  <2>4. \A x \in File : (BlocksOf(store, x) \cup {x.indirect}) \ {0} \subseteq Blocks
    BY <2>3, MembersIn
  <2> QED BY <2>1, <2>2, <2>4 DEF FileAt, store
<1> HIDE DEF t, gone
<1>4. /\ Typed(fs)' /\ (halted = "no" => Sound(fs))' /\ OnTheDisk'
      /\ freed' \in BOOLEAN /\ halted' \in Stops \cup {"no"}
  BY <1>1, <1>2, GoodDone DEF FilesInv, Histories
<1> QED BY <1>1, <1>3, <1>4 DEF FilesInv, Holders, Histories

LEMMA SyncStep ==
  ASSUME FilesInv, sync
  PROVE  FilesInv'
<1>1. halted = "no" /\ Done(Ok(fs_sync(fs), 0)) /\ UNCHANGED <<fd, lost>>
  BY DEF sync, Serving
<1>2. Sound(fs) /\ Sound(fs_sync(fs)) /\ Same(fs, fs_sync(fs))
  <2>1. Sound(fs) /\ Typed(fs)
    BY <1>1 DEF FilesInv
  <2>2. Same(fs, fs_sync(fs))
    BY <2>1, WriteBlocks DEF fs_sync
  <2> QED BY <2>1, <2>2, SameSound
<1>3. Good(Ok(fs_sync(fs), 0)) /\ (~freed => Durable(fs, Ok(fs_sync(fs), 0)))
  BY <1>1, <1>2, GoodOf, DurableOf, Results DEF FilesInv, OnTheDisk, Stops
<1> QED BY <1>1, <1>3, GoodDone DEF FilesInv, Holders, Histories

LEMMA MkdirStep ==
  ASSUME FilesInv, NEW path \in Paths, NEW type \in {"REG", "DIR"}, mkdir(path, type)
  PROVE  FilesInv'
<1> DEFINE d == file_create(fs, path)
           u == Put(d.fs, d.r, [Get(d.fs, d.r) EXCEPT !.type = type])
           c == Then(d, LAMBDA x : Ok(Put(x.fs, x.r, [Get(x.fs, x.r) EXCEPT !.type = type]), 0))
<1>1. halted = "no" /\ Done(c) /\ UNCHANGED <<fd, lost>>
  BY DEF mkdir, ByPath, Serving
<1>2. Sound(fs) /\ GoodAt(d) /\ Grown(fs, d) /\ (~freed => DiskSound(fs))
  BY <1>1, FileCreate DEF FilesInv, OnTheDisk
<1>3. c = IF d.err # "ok" THEN d ELSE Ok(u, 0)
  BY DEF Then
<1> HIDE DEF c, d
<1>4. Good(c) /\ Grown(fs, c)
  <2>1. CASE d.err # "ok"
    BY <1>2, <1>3, <2>1 DEF GoodAt
  <2>2. CASE d.err = "ok"
    <3>1. Sound(d.fs) /\ Typed(d.fs) /\ d.r \in Where /\ Grows(fs, d.fs)
      BY <1>2, <2>2, GoodAtOf, GrownOf, SoundIs DEF GoodAt, Stops
    <3>2. Quiet(d.fs, u)
      BY <3>1, Retyped
    <3>3. Sound(u) /\ Grows(fs, u)
      BY <3>1, <3>2, QuietSound, QuietIs, GrowsTrans
    <3> HIDE DEF u
    <3> QED BY <1>3, <2>2, <3>3, GoodOf, GrownOf, Results
  <2> QED BY <2>1, <2>2
<1>5. ~freed => Durable(fs, c)
  BY <1>2, <1>4, DurableOf
<1> QED BY <1>1, <1>4, <1>5, GoodDone DEF FilesInv, Holders, Histories

LEMMA StepInvariant ==
  ASSUME FilesInv, [Next]_vars
  PROVE  FilesInv'
<1>1. CASE UNCHANGED vars
  <2>1. fs' = fs /\ fd' = fd /\ lost' = lost /\ freed' = freed /\ halted' = halted
    BY <1>1 DEF vars
  <2>2. OnTheDisk' <=> OnTheDisk
    BY <2>1 DEF OnTheDisk, DiskSafe, DiskSound, CellsOnce, CellsAgree, CellsNotFree, Blank,
                Indirects, Empty, Cell, OnDisk, Slot, FileAt, Memory
  <2> QED BY <2>1, <2>2 DEF FilesInv, Holders, Histories
<1>2. CASE Next
  BY <1>2, OpenStep, StoreStep, TruncateStep, CloseStep, RemoveStep, SyncStep, MkdirStep DEF Next
<1> QED BY <1>1, <1>2

-----------------------------------------------------------------------------
(* The disk that fsformat made.                                            *)

LEMMA FirstPages ==
  /\ \A b \in Blocks : Page(Formatted[b]) /\ \A i \in Indices : Pointers(Formatted[b])[i] = 0
  /\ \A b \in Blocks, j \in Js :
       Entries(Formatted[b])[j] = IF b = 3 /\ j = 0 THEN FirstDir
                                  ELSE IF b = 4 /\ j = 0 THEN FirstFile ELSE NoFile
<1> DEFINE only(x) == [j \in Js |-> IF j = 0 THEN x ELSE NoFile]
<1>1. \A x \in File : only(x) \in [Js -> File]
  BY EmptyFile
<1>2. OnlyFile(FirstDir) = DirBlock(only(FirstDir)) /\ OnlyFile(FirstFile) = DirBlock(only(FirstFile))
  BY DEF OnlyFile, Js
<1>3. /\ \A j \in Js : only(FirstDir)[j] = IF j = 0 THEN FirstDir ELSE NoFile
      /\ \A j \in Js : only(FirstFile)[j] = IF j = 0 THEN FirstFile ELSE NoFile
  OBVIOUS
<1> HIDE DEF only
<1> SUFFICES ASSUME NEW b \in Blocks
             PROVE  /\ Page(Formatted[b]) /\ \A i \in Indices : Pointers(Formatted[b])[i] = 0
                    /\ \A j \in Js :
                         Entries(Formatted[b])[j] = IF b = 3 /\ j = 0 THEN FirstDir
                                                    ELSE IF b = 4 /\ j = 0 THEN FirstFile ELSE NoFile
  OBVIOUS
<1>4. CASE b = 3
  <2>1. Formatted[b] = DirBlock(only(FirstDir))
    BY <1>2, <1>4 DEF Formatted
  <2>2. only(FirstDir) \in [Js -> File]
    BY <1>1, FirstFiles
  <2> QED BY <1>3, <1>4, <2>1, <2>2, FilesPage
<1>5. CASE b = 4
  <2>1. Formatted[b] = DirBlock(only(FirstFile))
    BY <1>2, <1>5 DEF Formatted
  <2>2. only(FirstFile) \in [Js -> File]
    BY <1>1, FirstFiles
  <2> QED BY <1>3, <1>5, <2>1, <2>2, FilesPage
<1>6. CASE b # 3 /\ b # 4
  <2>1. Formatted[b].kind \in {"data", "zero"}
    BY <1>6 DEF Formatted, DataBlock, Zero
  <2> QED BY <1>6, <2>1, PlainPage
<1> QED BY <1>4, <1>5, <1>6

LEMMA InitTyped ==
  ASSUME Init
  PROVE  Typed(fs) /\ Memory(fs) = Formatted /\ fs.root = FirstRoot /\ fs.free = Blocks \ {3, 4, 5}
<1>1. fs = [free |-> Blocks \ {3, 4, 5}, disk_free |-> Blocks \ {3, 4, 5},
            cache |-> [b \in Blocks |-> Unmapped], disk |-> Formatted,
            dirty |-> {}, root |-> FirstRoot]
  BY DEF Init
<1>2. /\ fs.free = Blocks \ {3, 4, 5} /\ fs.disk_free = Blocks \ {3, 4, 5}
      /\ fs.cache = [b \in Blocks |-> Unmapped] /\ fs.disk = Formatted
      /\ fs.dirty = {} /\ fs.root = FirstRoot
      /\ DOMAIN fs = {"free", "disk_free", "cache", "disk", "dirty", "root"}
  BY <1>1
<1>3. Unmapped.kind = "unmapped"
  BY DEF Unmapped
<1>4. Page(Unmapped)
  BY <1>3, PlainPage
<1>5. Formatted = [b \in Blocks |-> Formatted[b]]
  BY DEF Formatted
<1>6. Typed(fs)
  BY <1>2, <1>4, <1>5, FirstFiles, FirstPages DEF Typed
<1>7. Memory(fs) = Formatted
  BY <1>2, <1>5 DEF Memory
<1> QED BY <1>2, <1>6, <1>7

LEMMA InitSlots ==
  ASSUME Init, NEW p \in Where, NEW i \in Slots
  PROVE  Slot(fs, p, i) = IF i # 0 THEN 0
                          ELSE IF p = Root THEN 3
                          ELSE IF p = Pos(3, 0) THEN 4
                          ELSE IF p = Pos(4, 0) THEN 5 ELSE 0
<1> DEFINE x == FileAt(fs, p)
<1>1. Typed(fs) /\ Memory(fs) = Formatted /\ fs.root = FirstRoot
  BY InitTyped
<1>2. x.indirect = 0 /\ \A k \in Directs : k # 0 => x.direct[k] = 0
  <2>1. x \in {FirstRoot, FirstDir, FirstFile, NoFile}
    BY <1>1, FileTypes, FirstPages, Places
  <2> QED BY <2>1, FirstFiles, EmptyFile
<1>3. i # 0 => Slot(fs, p, i) = 0
  BY <1>1, <1>2, SlotIs
<1>4. Slot(fs, p, 0) = x.direct[0]
  BY <1>1, FirstFiles, SlotIs, Numbers
<1>5. CASE p = Root
  BY <1>1, <1>3, <1>4, <1>5, FileTypes, FirstFiles
<1>6. CASE p # Root
  <2>1. p \in InBlocks /\ p.blk \in Blocks /\ p.idx \in Js
    BY <1>6, Places DEF Where
  <2>2. x = Entries(Formatted[p.blk])[p.idx]
    BY <1>1, <1>6, FileTypes
  <2>3. Pos(3, 0) \in InBlocks /\ Pos(4, 0) \in InBlocks
    BY Places, FirstFiles, Numbers
  <2>4. (p = Pos(3, 0) <=> p.blk = 3 /\ p.idx = 0) /\ (p = Pos(4, 0) <=> p.blk = 4 /\ p.idx = 0)
    BY <2>1, <2>3, Places, FirstFiles, Numbers
  <2> QED BY <1>3, <1>4, <1>6, <2>1, <2>2, <2>4, FirstPages, FirstFiles, EmptyFile
<1> QED BY <1>5, <1>6

LEMMA InitSound ==
  ASSUME Init
  PROVE  Unique(fs) /\ NotFree(fs)
<1>1. Root # Pos(3, 0) /\ Root # Pos(4, 0) /\ Pos(3, 0) # Pos(4, 0)
  BY DEF Root, Pos
<1>2. Unique(fs)
  BY <1>1, InitSlots DEF Unique
<1>3. NotFree(fs)
  <2>1. fs.free = Blocks \ {3, 4, 5} /\ 0 \notin fs.free
    BY InitTyped, Numbers
  <2>2. \A p \in Where, i \in Slots : Slot(fs, p, i) \in {0, 3, 4, 5}
    BY InitSlots
  <2> QED BY <2>1, <2>2 DEF NotFree
<1> QED BY <1>2, <1>3

LEMMA InitDisk ==
  ASSUME Init
  PROVE  OnTheDisk
<1>1. Typed(fs) /\ Memory(fs) = fs.disk /\ fs.root = FirstRoot /\ fs.free = Blocks \ {3, 4, 5}
  BY InitTyped DEF Init
<1>2. ASSUME NEW p \in Where, NEW i \in Cells PROVE Cell(fs, p, i) = Slot(fs, p, i) /\ i \in Slots
  <2>1. OnDisk(fs, p) = FileAt(fs, p) /\ i \in Slots
    BY <1>1, Numbers DEF OnDisk, FileAt, Cells
  <2> QED BY <1>1, <2>1, SlotIs, Numbers DEF Cell, Cells
<1>3. Unique(fs) /\ NotFree(fs)
  BY InitSound
<1>4. CellsOnce(fs) /\ CellsAgree(fs) /\ CellsNotFree(fs)
  BY <1>2, <1>3 DEF CellsOnce, CellsAgree, CellsNotFree, Unique, NotFree
<1>5. Blank(fs)
  <2>1. fs.disk = Formatted /\ fs.dirty = {}
    BY DEF Init
  <2>2. \A p \in Where : Slot(fs, p, NINDIRECT) = 0 /\ Cell(fs, p, NINDIRECT) = 0
    BY <1>2, InitSlots, Numbers DEF Cells
  <2>3. (fs.free \cup Indirects(fs)) \ {0} \subseteq Blocks
    BY <1>1, <2>2 DEF Indirects
  <2> QED BY <2>1, <2>3, FirstPages DEF Blank, Empty
<1>6. DiskSound(fs)
  BY <1>4, <1>5 DEF DiskSound
<1> QED BY <1>1, <1>6, SafeOf DEF OnTheDisk, Typed

LEMMA InitInvariant == Init => FilesInv
<1> SUFFICES ASSUME Init PROVE FilesInv
  OBVIOUS
<1>1. Typed(fs) /\ Unique(fs) /\ NotFree(fs)
  BY InitTyped, InitSound
<1>2. OnTheDisk
  BY InitDisk
<1>3. Holders
  <2>1. /\ DOMAIN Closed = {"file", "size", "pages"}
        /\ Closed.file \in Positions /\ Closed.size \in Nat /\ Closed.pages \in Ptrs
    BY Places DEF Closed, NoPages, Ptrs, Indices
  <2> QED BY <2>1 DEF Init, Holders
<1>4. Histories
  BY DEF Init, Histories
<1> QED BY <1>1, <1>2, <1>3, <1>4 DEF FilesInv, Sound

THEOREM FilesInvariant == Spec => []FilesInv
<1>1. FilesInv /\ [Next]_vars => FilesInv'
  BY StepInvariant
<1> QED BY <1>1, InitInvariant, PTL DEF Spec

(* The state keeps its types: the bitmap, the cache and the disk name      *)
(* blocks of the disk, and what a page holds is read as Files of a block.  *)
THEOREM FilesTypeCorrect == Spec => []TypeOK
<1>1. FilesInv => TypeOK
  <2> SUFFICES ASSUME FilesInv PROVE TypeOK
    OBVIOUS
  <2>1. Typed(fs) /\ Holders /\ Histories
    BY DEF FilesInv
  <2>2. \A b \in Blocks, j \in 0..(FILE2BLK - 1) :
          Entries(fs.cache[b])[j] \in File /\ Entries(fs.disk[b])[j] \in File
    BY <2>1 DEF Typed, Page, Js
  <2> QED BY <2>1, <2>2 DEF Typed, Holders, Histories, TypeOK
<1> QED BY <1>1, FilesInvariant, PTL

(* No two pointers of the Files there are point to one block, and none to  *)
(* a free one, as long as the server serves: what one request gives away   *)
(* no other request gives away again (fs.c's alloc_block, file_truncate).  *)
THEOREM BlocksUsedOnce == Spec => []EachBlockOnce
<1>1. FilesInv => EachBlockOnce
  <2> SUFFICES ASSUME FilesInv, halted = "no"
               PROVE  LET U == Uses(Memory(fs), fs.root) IN
                      /\ \A u, v \in U : u[2] = v[2] => u = v
                      /\ Used(Memory(fs), fs.root) \cap fs.free = {}
    BY DEF EachBlockOnce
  <2>1. Typed(fs) /\ Unique(fs) /\ NotFree(fs)
    BY DEF FilesInv, Sound
  <2>2. AllFiles(Memory(fs), fs.root) \subseteq Where
    <3>1. \A p \in Where : Members(Memory(fs), FileAt(fs, p)) \subseteq InBlocks
      BY <2>1, MemoryPages, FileTypes, MembersIn
    <3>2. Root \in Where /\ InBlocks \subseteq Where /\ FileAt(fs, Root) = fs.root
      BY DEF Where, FileAt, At
    <3> QED BY <3>1, <3>2 DEF AllFiles, FileAt
  <2>3. \A u \in Uses(Memory(fs), fs.root) :
          \E p \in Where, i \in Slots :
            u = <<<<p, i>>, Slot(fs, p, i)>> /\ Slot(fs, p, i) # 0
    BY <2>2 DEF Uses, Slots, Slot, FileAt
  <2>4. \A u, v \in Uses(Memory(fs), fs.root) : u[2] = v[2] => u = v
    BY <2>1, <2>3 DEF Unique
  <2>5. \A b \in Used(Memory(fs), fs.root) : b \notin fs.free
    BY <2>1, <2>3 DEF Used, NotFree
  <2> QED BY <2>4, <2>5
<1> QED BY <1>1, FilesInvariant, PTL

(* A crash makes no block free that the server has given away: the bitmap  *)
(* on the disk is never ahead of the one in memory.  As long as nothing    *)
(* has been freed, no block is used twice by the Files on the disk alone,  *)
(* and none of them is free there: a server that starts again on it finds  *)
(* a sound file system, wherever in a call or between two the last one     *)
(* stopped (fs.c's alloc_block_num, file_flush, serve_sync).               *)
THEOREM CrashLosesNoBlock == Spec => []CrashSafe
<1>1. FilesInv => CrashSafe
  <2> SUFFICES ASSUME FilesInv PROVE CrashSafe
    OBVIOUS
  <2> DEFINE U == Uses(fs.disk, FirstRoot)
  <2>1. Typed(fs) /\ (~freed => DiskSafe(fs))
    BY DEF FilesInv, OnTheDisk
  <2>2. AllFiles(fs.disk, FirstRoot) \subseteq Where
    <3>1. \A b \in Blocks : Page(fs.disk[b])
      BY <2>1 DEF Typed
    <3>2. \A p \in Where : Members(fs.disk, OnDisk(fs, p)) \subseteq InBlocks
      BY <2>1, <3>1, CellTypes, MembersIn
    <3>3. Root \in Where /\ InBlocks \subseteq Where /\ OnDisk(fs, Root) = FirstRoot
      BY DEF Where, OnDisk, At
    <3> QED BY <3>2, <3>3 DEF AllFiles, OnDisk
  <2>3. ASSUME DiskSafe(fs)
        PROVE  \A u \in U : \E p \in Where, i \in Cells :
                 u = <<<<p, i>>, Cell(fs, p, i)>> /\ Cell(fs, p, i) # 0
    <3> DEFINE use(p, i) == IF i = NINDIRECT THEN OnDisk(fs, p).indirect
                            ELSE PtrOf(fs.disk, OnDisk(fs, p), i)
    <3>1. \A u \in U : \E p \in Where, i \in Slots : u = <<<<p, i>>, use(p, i)>> /\ use(p, i) # 0
      BY <2>2 DEF Uses, Slots, OnDisk
    <3>2. ASSUME NEW p \in Where, NEW i \in Slots, use(p, i) # 0
          PROVE  i \in Cells /\ use(p, i) = Cell(fs, p, i)
      <4>1. CASE i \in Cells
        BY <4>1, Numbers DEF Cell, Cells, Directs, PtrOf
      <4>2. CASE i \notin Cells
        <5>1. i \in Indices /\ ~(i < NDIRECT) /\ i # NINDIRECT /\ NINDIRECT \in Cells
          BY <4>2, Numbers DEF Cells, Slots, Indices, Directs
        <5>2. OnDisk(fs, p).indirect # 0 => Pointers(fs.disk[OnDisk(fs, p).indirect])[i] = 0
          BY <2>3, <5>1 DEF DiskSafe, Empty, Cell
        <5> QED BY <3>2, <5>1, <5>2 DEF PtrOf
      <4> QED BY <4>1, <4>2
    <3> HIDE DEF use, U
    <3> QED BY <3>1, <3>2
  <2> HIDE DEF U
  <2>4. ASSUME DiskSafe(fs)
        PROVE  /\ \A u, v \in U : u[2] = v[2] => u = v
               /\ \A u \in U : u[2] \notin fs.disk_free
    BY <2>3, <2>4 DEF DiskSafe, CellsOnce
  <2>5. Used(fs.disk, FirstRoot) = {u[2] : u \in U}
    BY DEF Used, U
  <2> QED BY <2>1, <2>4, <2>5 DEF CrashSafe, U, Typed
<1> QED BY <1>1, FilesInvariant, PTL

-----------------------------------------------------------------------------
(* What a step keeps of a File: all but f_dir.                              *)

Name(s, p) == FileAt(s, p).name
Type(s, p) == FileAt(s, p).type
Size(s, p) == FileAt(s, p).size
Kind(s, b) == Memory(s)[b].kind

Alike(s, t, p) ==
  /\ Name(t, p) = Name(s, p) /\ Type(t, p) = Type(s, p) /\ Size(t, p) = Size(s, p)
  /\ \A i \in Slots : Slot(t, p, i) = Slot(s, p, i)
Void(s, p) ==
  /\ Name(s, p) = NoName /\ Type(s, p) = "REG" /\ Size(s, p) = 0
  /\ \A i \in Slots : Slot(s, p, i) = 0

(* Indirect blocks hold pointers; what is dirty is in the cache, and what   *)
(* is on the disk can be read. *)
Clean(s) ==
  /\ \A p \in Where : Slot(s, p, NINDIRECT) # 0 => Kind(s, Slot(s, p, NINDIRECT)) \in {"zero", "ptrs"}
  /\ \A b \in s.dirty : s.cache[b] # Unmapped
  /\ \A b \in Blocks : s.disk[b] # Unmapped
Remembers(s, t) == \A b \in Blocks : s.cache[b] # Unmapped => t.cache[b] # Unmapped

(* A step that changes no File and no page. *)
Still(s, t) ==
  /\ Typed(t) /\ Memory(t) = Memory(s) /\ t.root = s.root /\ t.free = s.free
  /\ Remembers(s, t) /\ (Clean(s) => Clean(t))

(* The blocks of a File; the places Root and the directories in it have.   *)
Has(s, p) == {Slot(s, p, i) : i \in Indices} \ {0}
Backed(s, p) ==
  p.blk \in Has(s, Root) \/ \E d \in InBlocks : d.blk \in Has(s, Root) /\ p.blk \in Has(s, d)

(* A File that a function works on: its page is in the cache and holds      *)
(* Files. *)
Live(s, p) == p = Root \/ p.blk \notin s.free
FilePage(s, f) == f = Root \/ (s.cache[f.blk].kind \in {"zero", "dir"} /\ Backed(s, f))
Ready(s, f) == Sound(s) /\ Clean(s) /\ f \in Where /\ FilePage(s, f)

LEMMA AlikeOf ==
  ASSUME NEW s, Typed(s), NEW t, Typed(t), NEW p \in Where, FileAt(t, p) = FileAt(s, p),
         FileAt(s, p).indirect # 0 => Pointers(Memory(t)[FileAt(s, p).indirect]) =
                                      Pointers(Memory(s)[FileAt(s, p).indirect])
  PROVE  Alike(s, t, p)
<1>1. ASSUME NEW i \in Slots PROVE Slot(t, p, i) = Slot(s, p, i)
  <2>1. CASE i = NINDIRECT \/ i \in Directs
    BY <2>1, SlotIs
  <2>2. CASE i # NINDIRECT /\ i \notin Directs
    BY <2>2, SlotIs
  <2> QED BY <2>1, <2>2
<1> QED BY <1>1 DEF Alike, Name, Type, Size

LEMMA VoidOf ==
  ASSUME NEW s, Typed(s), NEW p \in Where, FileAt(s, p) = NoFile
  PROVE  Void(s, p)
<1>1. ASSUME NEW i \in Slots PROVE Slot(s, p, i) = 0
  <2>1. CASE i = NINDIRECT \/ i \in Directs
    BY <2>1, SlotIs, EmptyFile
  <2>2. CASE i # NINDIRECT /\ i \notin Directs
    BY <2>2, SlotIs, EmptyFile
  <2> QED BY <2>1, <2>2
<1> QED BY <1>1 DEF Void, Name, Type, Size, NoFile

LEMMA StillIs ==
  ASSUME NEW s, NEW t, Still(s, t)
  PROVE  /\ \A p : FileAt(t, p) = FileAt(s, p)
         /\ \A p, i : Slot(t, p, i) = Slot(s, p, i)
         /\ \A p : Alike(s, t, p)
BY DEF Still, FileAt, Slot, Alike, Name, Type, Size

LEMMA StillOf ==
  /\ \A s : Typed(s) => Still(s, s)
  /\ \A s, t, u : Still(s, t) /\ Still(t, u) => Still(s, u)
BY DEF Still, Remembers

LEMMA HasIs ==
  ASSUME NEW s, Typed(s), NEW p \in Where, NEW b
  PROVE  b \in Has(s, p) <=> b \in Blocks /\ \E i \in Indices : Slot(s, p, i) = b
<1>1. \A i \in Indices : Slot(s, p, i) \in Blocks \cup {0}
  BY SlotIs, Numbers
<1> QED BY <1>1, Numbers DEF Has

LEMMA BackedIs ==
  ASSUME NEW s, Sound(s), NEW p \in InBlocks, Backed(s, p)
  PROVE  /\ Live(s, p) /\ p.blk \notin s.free
         /\ \A q \in Where : Slot(s, q, NINDIRECT) # p.blk
         /\ \A i \in Slots : Slot(s, p, i) # p.blk
<1>1. Typed(s) /\ Unique(s) /\ NotFree(s) /\ Root \in Where /\ InBlocks \subseteq Where /\ p # Root
  BY Places DEF Sound, Where
<1>2. PICK d \in Where, i \in Indices :
         p.blk = Slot(s, d, i) /\ (d = Root \/ (d \in InBlocks /\ d.blk \in Has(s, Root)))
  BY <1>1, HasIs DEF Backed
<1>3. i \in Slots /\ i # NINDIRECT /\ NINDIRECT \in Slots /\ p.blk # 0
  BY Numbers, Places
<1>4. p.blk \notin s.free
  BY <1>1, <1>2, <1>3 DEF NotFree
<1>5. \A q \in Where : Slot(s, q, NINDIRECT) # p.blk
  BY <1>1, <1>2, <1>3 DEF Unique
<1>6. ASSUME NEW k \in Slots, Slot(s, p, k) = p.blk PROVE FALSE
  <2>1. d = p
    BY <1>1, <1>2, <1>3, <1>6 DEF Unique
  <2>2. PICK j \in Indices : Slot(s, Root, j) = p.blk
    BY <1>1, <1>2, <2>1, HasIs
  <2>3. j \in Slots
    BY Numbers
  <2> QED BY <1>1, <1>3, <1>6, <2>2, <2>3 DEF Unique
<1> QED BY <1>4, <1>5, <1>6 DEF Live

LEMMA StillReady ==
  ASSUME NEW s, NEW t, Still(s, t), NEW f, f \in Where, Typed(s), FilePage(s, f)
  PROVE  FilePage(t, f)
<1>1. CASE f = Root
  BY <1>1 DEF FilePage
<1>2. CASE f # Root
  <2>1. f.blk \in Blocks /\ Typed(t)
    BY <1>2, Places DEF Where, Still
  <2>2. s.cache[f.blk].kind \in {"zero", "dir"} /\ Backed(s, f)
    BY <1>2 DEF FilePage
  <2>3. s.cache[f.blk] # Unmapped /\ t.cache[f.blk] # Unmapped
    BY <2>1, <2>2 DEF Still, Remembers, Unmapped
  <2>4. t.cache[f.blk] = s.cache[f.blk]
    BY <2>1, <2>3, MemoryPages DEF Still
  <2>5. \A p : Has(t, p) = Has(s, p)
    BY StillIs DEF Has
  <2> QED BY <2>2, <2>4, <2>5 DEF FilePage, Backed
<1> QED BY <1>1, <1>2

LEMMA StillFrom ==
  ASSUME NEW s, NEW t, Typed(t), Memory(t) = Memory(s), t.root = s.root, t.free = s.free,
         Remembers(s, t), Clean(s) => /\ \A b \in t.dirty : t.cache[b] # Unmapped
                                      /\ \A b \in Blocks : t.disk[b] # Unmapped
  PROVE  Still(s, t)
<1>1. ASSUME NEW p \in Where PROVE /\ Slot(t, p, NINDIRECT) = Slot(s, p, NINDIRECT)
                                   /\ \A b : Kind(t, b) = Kind(s, b)
  BY DEF Slot, FileAt, Kind
<1>2. Clean(s) => Clean(t)
  BY <1>1 DEF Clean
<1> QED BY <1>2 DEF Still

LEMMA HereGet ==
  ASSUME NEW s, Typed(s), NEW f \in Where, f = Root \/ s.cache[f.blk] # Unmapped
  PROVE  Get(s, f) = FileAt(s, f)
<1>1. CASE f = Root
  BY <1>1 DEF Get, FileAt, At
<1>2. CASE f # Root
  <2>1. f.blk \in Blocks /\ s.cache[f.blk] # Unmapped
    BY <1>2, Places DEF Where
  <2> QED BY <1>2, <2>1, MemoryPages DEF Get, FileAt, At
<1> QED BY <1>1, <1>2

LEMMA ReadyGet ==
  ASSUME NEW s, NEW f, Ready(s, f)
  PROVE  /\ f = Root \/ s.cache[f.blk] # Unmapped
         /\ Get(s, f) = FileAt(s, f) /\ Get(s, f) \in File /\ Typed(s) /\ Unique(s)
<1>1. f = Root \/ s.cache[f.blk] # Unmapped
  BY DEF Ready, FilePage, Unmapped
<1> QED BY <1>1, HereGet, FileTypes DEF Ready, Sound

LEMMA ReadStill ==
  ASSUME NEW s, Typed(s), Clean(s), NEW b \in Blocks
  PROVE  LET r == read_block(s, b) IN
         /\ Still(s, r.fs) /\ r.err \in {"ok", "panic"} /\ (b \notin s.free => r.err = "ok")
         /\ r.err = "ok" => r.r = b /\ r.fs.cache[b] # Unmapped
<1> DEFINE u == [s EXCEPT !.cache[b] = s.disk[b]]
           r == read_block(s, b)
<1>1. ~(b >= NBlocks)
  BY Numbers DEF Blocks
<1>2. CASE b \in s.free
  <2>1. r.fs = s /\ r.err = "panic"
    BY <1>2, Results DEF read_block
  <2> QED BY <1>2, <2>1, StillOf
<1>3. CASE b \notin s.free /\ s.cache[b] # Unmapped
  <2>1. r.fs = s /\ r.err = "ok" /\ r.r = b
    BY <1>1, <1>3, Results DEF read_block
  <2> QED BY <1>3, <2>1, StillOf
<1>4. CASE b \notin s.free /\ s.cache[b] = Unmapped
  <2>1. r.fs = u /\ r.err = "ok" /\ r.r = b
    BY <1>1, <1>4, Results DEF read_block
  <2>2. /\ u.free = s.free /\ u.root = s.root /\ u.disk = s.disk /\ u.dirty = s.dirty
        /\ u.cache[b] = s.disk[b] /\ \A k \in Blocks : k # b => u.cache[k] = s.cache[k]
    BY DEF Typed
  <2>3. Typed(u)
    BY <1>4, ReadTyped DEF Quiet
  <2> HIDE DEF u
  <2>4. s.disk[b] # Unmapped
    BY DEF Clean
  <2>5. Memory(u) = Memory(s)
    BY <1>4, <2>2, <2>4 DEF Memory
  <2>6. Remembers(s, u)
    BY <1>4, <2>2 DEF Remembers
  <2>7. \A k \in s.dirty : u.cache[k] # Unmapped
    BY <2>2, <2>4 DEF Clean, Typed
  <2>8. \A k \in Blocks : u.disk[k] # Unmapped
    BY <2>2 DEF Clean
  <2>9. Still(s, u)
    BY <2>2, <2>3, <2>5, <2>6, <2>7, <2>8, StillFrom
  <2> QED BY <2>1, <2>2, <2>4, <2>9
<1> QED BY <1>2, <1>3, <1>4

LEMMA DirtyStill ==
  ASSUME NEW s, Typed(s), NEW b \in Blocks
  PROVE  Still(s, dirty_block(s, b))
<1>1. CASE s.cache[b] = Unmapped
  BY <1>1, StillOf DEF dirty_block
<1>2. CASE s.cache[b] # Unmapped
  <2> DEFINE t == [s EXCEPT !.dirty = @ \cup {b}]
  <2>1. /\ DOMAIN t = DOMAIN s /\ t.free = s.free /\ t.disk_free = s.disk_free
        /\ t.root = s.root /\ t.cache = s.cache /\ t.disk = s.disk /\ t.dirty = s.dirty \cup {b}
    BY DEF Typed
  <2> HIDE DEF t
  <2>2. Typed(t)
    BY <2>1 DEF Typed
  <2>3. Still(s, t)
    BY <1>2, <2>1, <2>2, OtherFields, StillFrom DEF Remembers, Clean
  <2> QED BY <1>2, <2>3 DEF dirty_block, t
<1> QED BY <1>1, <1>2

LEMMA WriteStill ==
  ASSUME NEW s, Typed(s), Clean(s), NEW B, B \subseteq s.dirty
  PROVE  Still(s, write_blocks(s, B))
<1> DEFINE d == [b \in Blocks |-> IF b \in B THEN s.cache[b] ELSE s.disk[b]]
           t == [s EXCEPT !.disk = d]
<1>1. /\ DOMAIN t = DOMAIN s /\ t.free = s.free /\ t.disk_free = s.disk_free /\ t.dirty = s.dirty
      /\ t.root = s.root /\ t.cache = s.cache /\ t.disk = d
  BY DEF Typed
<1>2. Typed(t)
  BY <1>1 DEF Typed
<1>3. Memory(t) = Memory(s)
  <2>1. \A b \in B : s.cache[b] # Unmapped
    BY DEF Clean
  <2>2. \A b \in Blocks : s.cache[b] = Unmapped => t.disk[b] = s.disk[b]
    BY <1>1, <2>1
  <2> HIDE DEF t
  <2> QED BY <1>1, <2>2 DEF Memory
<1>4. \A b \in Blocks : t.disk[b] # Unmapped
  BY <1>1 DEF Clean, Typed
<1> HIDE DEF t
<1>5. Still(s, t)
  BY <1>1, <1>2, <1>3, <1>4, StillFrom DEF Remembers, Clean
<1>6. write_blocks(s, B) = t
  BY DEF write_blocks, t
<1> QED BY <1>5, <1>6

-----------------------------------------------------------------------------
(* What the functions of blocks and Files do, to the slot.                  *)

Pages(s, t) == \A p \in InBlocks : FilePage(s, p) /\ Backed(t, p) => FilePage(t, p)

(* The block b is taken: its page may lose what it held. *)
Takes(s, t, b) ==
  /\ Clean(t) /\ Remembers(s, t) /\ b \in s.free /\ t.free = s.free \ {b}
  /\ \A p \in Where : (Live(s, p) => Alike(s, t, p)) /\ (Alike(s, t, p) \/ Void(t, p))
  /\ \A p \in InBlocks : FilePage(s, p) => FilePage(t, p)
  /\ t.cache[b] # Unmapped

LEMMA AlikeHas ==
  ASSUME NEW s, NEW t, NEW p, Alike(s, t, p)
  PROVE  Has(t, p) = Has(s, p)
<1>1. \A i \in Indices : Slot(t, p, i) = Slot(s, p, i)
  BY Numbers DEF Alike
<1> QED BY <1>1 DEF Has

LEMMA TakesOf ==
  ASSUME NEW s, Sound(s), Clean(s), NEW t, Typed(t), NEW b \in s.free,
         t.free = s.free \ {b}, t.root = s.root, t.disk = s.disk, t.dirty = s.dirty,
         \A k \in Blocks : k # b => t.cache[k] = s.cache[k],
         t.cache[b] # Unmapped, t.cache[b] = s.cache[b] \/ t.cache[b] = Zero
  PROVE  Takes(s, t, b)
<1>1. Typed(s) /\ b \in Blocks /\ NotFree(s)
  BY DEF Sound, Typed
<1>2. \A k \in Blocks : k # b => Memory(t)[k] = Memory(s)[k]
  BY DEF Memory
<1>3. \A p \in Where : Slot(s, p, NINDIRECT) # b
  BY <1>1, Numbers DEF NotFree
<1>4. ASSUME NEW p \in Where, FileAt(t, p) = FileAt(s, p) PROVE Alike(s, t, p)
  <2>1. FileAt(s, p).indirect \in Blocks \cup {0} /\ FileAt(s, p).indirect # b
    BY <1>1, <1>3, FileTypes, FileFields, SlotIs, Numbers
  <2> QED BY <1>1, <1>2, <1>4, <2>1, AlikeOf
<1>5. ASSUME NEW p \in Where PROVE (Live(s, p) => Alike(s, t, p)) /\ (Alike(s, t, p) \/ Void(t, p))
  <2>1. CASE p = Root
    BY <1>4, <2>1 DEF FileAt, At
  <2>2. CASE p # Root /\ p.blk # b
    <3>1. p.blk \in Blocks
      BY <2>2, Places DEF Where
    <3>2. FileAt(t, p) = FileAt(s, p)
      BY <1>2, <2>2, <3>1 DEF FileAt, At
    <3> QED BY <1>4, <3>2
  <2>3. CASE p # Root /\ p.blk = b
    <3>1. ~Live(s, p) /\ p.idx \in Js
      BY <2>3, Places DEF Live, Where
    <3>2. CASE t.cache[b] = s.cache[b]
      <4>1. Memory(t)[b] = Memory(s)[b]
        BY <1>1, <3>2 DEF Memory
      <4>2. FileAt(t, p) = FileAt(s, p)
        BY <2>3, <4>1 DEF FileAt, At
      <4> QED BY <1>4, <3>1, <4>2
    <3>3. CASE t.cache[b] = Zero
      <4>1. Memory(t)[b] = Zero /\ Zero.kind = "zero"
        BY <1>1, <3>3 DEF Memory, Zero
      <4>2. FileAt(t, p) = NoFile
        BY <2>3, <3>1, <4>1, PlainPage DEF FileAt, At
      <4> QED BY <3>1, <4>2, VoidOf
    <3> QED BY <3>2, <3>3
  <2> QED BY <2>1, <2>2, <2>3
<1>6. Root \in Where /\ InBlocks \subseteq Where
  BY DEF Where
<1>7. ASSUME NEW p \in Where, Slot(t, p, NINDIRECT) # 0
      PROVE  Kind(t, Slot(t, p, NINDIRECT)) \in {"zero", "ptrs"}
  <2>1. Alike(s, t, p) /\ NINDIRECT \in Slots
    BY <1>5, <1>7, Numbers DEF Void
  <2>2. Slot(t, p, NINDIRECT) = Slot(s, p, NINDIRECT)
    BY <2>1 DEF Alike
  <2>3. Slot(s, p, NINDIRECT) \in Blocks /\ Slot(s, p, NINDIRECT) # b
    BY <1>1, <1>3, <1>7, <2>1, <2>2, SlotIs
  <2> QED BY <1>2, <1>7, <2>2, <2>3 DEF Clean, Kind
<1>8. /\ \A k \in t.dirty : t.cache[k] # Unmapped
      /\ \A k \in Blocks : t.disk[k] # Unmapped
  BY <1>1 DEF Clean, Typed
<1>9. Clean(t)
  BY <1>7, <1>8 DEF Clean
<1>10. Remembers(s, t)
  BY DEF Remembers
<1>11. ASSUME NEW p \in InBlocks, FilePage(s, p) PROVE FilePage(t, p)
  <2>1. p # Root /\ Backed(s, p) /\ p.blk \notin s.free /\ p.blk \in Blocks
    BY <1>11, Places, BackedIs DEF FilePage
  <2>2. t.cache[p.blk] = s.cache[p.blk]
    BY <2>1
  <2>3. Has(t, Root) = Has(s, Root)
    BY <1>5, <1>6, AlikeHas DEF Live
  <2>4. ASSUME NEW d \in InBlocks, d.blk \in Has(s, Root) PROVE Has(t, d) = Has(s, d)
    <3>1. Backed(s, d)
      BY <2>4 DEF Backed
    <3>2. Alike(s, t, d)
      BY <1>5, <1>6, <3>1, BackedIs
    <3> QED BY <3>2, AlikeHas
  <2>5. Backed(t, p)
    BY <2>1, <2>3, <2>4 DEF Backed
  <2> QED BY <1>11, <2>1, <2>2, <2>5 DEF FilePage
<1> QED BY <1>5, <1>9, <1>10, <1>11 DEF Takes

LEMMA AllocExact ==
  ASSUME NEW s, Sound(s), Clean(s)
  PROVE  LET a == alloc_block(s) IN
         /\ a.err # "ok" => a.fs = s /\ a.err = "E_NO_DISK"
         /\ a.err = "ok" => Takes(s, a.fs, a.r)
<1> DEFINE a == alloc_block(s)
<1>1. CASE s.free = {}
  <2>1. alloc_block_num(s) = Fail(s, "E_NO_DISK")
    BY <1>1 DEF alloc_block_num
  <2> QED BY <2>1 DEF alloc_block, Then, Fail
<1>2. CASE s.free # {}
  <2> DEFINE b == Min(s.free)
             u == [s EXCEPT !.free = @ \ {b}, !.disk_free = s.free \ {b}]
             z == [u EXCEPT !.cache[b] = Zero]
  <2>1. s.free \subseteq Blocks /\ b \in s.free
    BY <1>2, Numbers, MinIn DEF Sound, Typed
  <2>2. alloc_block_num(s) = Ok(u, b)
    BY <1>2 DEF alloc_block_num
  <2> HIDE DEF b
  <2>3. /\ DOMAIN u = DOMAIN s /\ u.free = s.free \ {b} /\ u.disk_free = s.free \ {b}
        /\ u.dirty = s.dirty /\ u.root = s.root /\ u.disk = s.disk /\ u.cache = s.cache
    BY DEF Sound, Typed
  <2>4. Typed(u)
    BY <2>1, <2>3 DEF Sound, Typed
  <2> HIDE DEF u
  <2>5. a.fs = map_block(u, b) /\ a.r = b /\ a.err = "ok"
    <3>1. /\ alloc_block_num(s).fs = u /\ alloc_block_num(s).r = b
          /\ alloc_block_num(s).err = "ok"
      BY <2>2, Results
    <3> QED BY <3>1, Results DEF alloc_block, Then
  <2>6. CASE s.cache[b] # Unmapped
    <3>1. map_block(u, b) = u
      BY <2>3, <2>6 DEF map_block
    <3>2. Takes(s, u, b)
      BY <2>1, <2>3, <2>4, <2>6, TakesOf
    <3> QED BY <2>5, <3>1, <3>2
  <2>7. CASE s.cache[b] = Unmapped
    <3>1. map_block(u, b) = z
      BY <2>3, <2>7 DEF map_block
    <3>2. /\ z.free = u.free /\ z.dirty = u.dirty /\ z.root = u.root /\ z.disk = u.disk
          /\ z.cache[b] = Zero /\ \A k \in Blocks : k # b => z.cache[k] = u.cache[k]
      BY <2>1, <2>4 DEF Typed
    <3>3. Typed(z)
      BY <2>1, <2>4, <3>1, MapBlock DEF Quiet
    <3>4. Zero # Unmapped
      BY DEF Zero, Unmapped
    <3> HIDE DEF z
    <3>5. Takes(s, z, b)
      BY <2>1, <2>3, <3>2, <3>3, <3>4, TakesOf
    <3> QED BY <2>5, <3>1, <3>5
  <2> QED BY <2>6, <2>7
<1> QED BY <1>1, <1>2

(* A step that changes the File f, and one slot of it. *)
Edits(s, t, f) ==
  /\ Typed(t) /\ t.free = s.free /\ Clean(t) /\ Remembers(s, t) /\ Pages(s, t) /\ FilePage(t, f)
  /\ \A p \in Where : p # f => Alike(s, t, p)
SameName(s, t, f) == Name(t, f) = Name(s, f) /\ Type(t, f) = Type(s, f)
Assigns(s, t, f, i, b) ==
  /\ Edits(s, t, f) /\ SameName(s, t, f) /\ Size(t, f) = Size(s, f) /\ Slot(t, f, i) = b
  /\ \A k \in Slots : k # i => Slot(t, f, k) = Slot(s, f, k)

LEMMA EditsOf ==
  ASSUME NEW s, NEW f, Ready(s, f), NEW t, Typed(t), t.free = s.free, Clean(t), Remembers(s, t),
         \A p \in Where : p # f => Alike(s, t, p),
         \A b \in Blocks : s.cache[b].kind \in {"zero", "dir"} => t.cache[b].kind \in {"zero", "dir"}
  PROVE  Edits(s, t, f)
<1>1. Pages(s, t)
  BY Places DEF Pages, FilePage
<1>2. FilePage(t, f)
  <2>1. CASE f = Root
    BY <2>1 DEF FilePage
  <2>2. CASE f # Root
    <3>1. f \in InBlocks /\ f.blk \in Blocks /\ Backed(s, f) /\ Sound(s) /\ Typed(s)
      BY <2>2, Places DEF Ready, Where, FilePage, Sound
    <3>2. Has(t, Root) = Has(s, Root)
      BY <2>2, AlikeHas DEF Where
    <3>3. ASSUME NEW d \in InBlocks, f.blk \in Has(s, d), d # f PROVE Has(t, d) = Has(s, d)
      BY <3>3, AlikeHas DEF Where
    <3>4. f.blk \notin Has(s, f)
      BY <3>1, BackedIs, HasIs, Numbers DEF Where
    <3>5. Backed(t, f)
      BY <3>1, <3>2, <3>3, <3>4 DEF Backed
    <3> QED BY <2>2, <3>1, <3>5 DEF Ready, FilePage
  <2> QED BY <2>1, <2>2
<1> QED BY <1>1, <1>2 DEF Edits

LEMMA PutTouches ==
  ASSUME NEW s, Typed(s), NEW f \in Where, NEW x \in File, NEW b \in Blocks, f = Root \/ b # f.blk
  PROVE  Put(s, f, x).cache[b] = s.cache[b]
<1>1. CASE f = Root
  BY <1>1 DEF Put, Typed
<1>2. CASE f # Root
  <2> DEFINE c == DirBlock([Entries(s.cache[f.blk]) EXCEPT ![f.idx] = x])
  <2>1. Put(s, f, x) = [s EXCEPT !.cache[f.blk] = c]
    BY <1>2 DEF Put
  <2> HIDE DEF c
  <2> QED BY <1>2, <2>1 DEF Typed
<1> QED BY <1>1, <1>2

LEMMA PutExact ==
  ASSUME NEW s, NEW f, Ready(s, f), NEW x \in File,
         x.indirect # 0 => /\ Kind(s, x.indirect) \in {"zero", "ptrs"}
                           /\ f = Root \/ x.indirect # f.blk
  PROVE  LET t == Put(s, f, x) IN
         /\ Edits(s, t, f) /\ FileAt(t, f) = x
         /\ \A i \in Indices : Slot(t, f, i) = PtrOf(Memory(s), x, i)
         /\ Slot(t, f, NINDIRECT) = x.indirect
         /\ \A b \in Blocks : f = Root \/ b # f.blk => t.cache[b] = s.cache[b]
<1> DEFINE t == Put(s, f, x)
<1>1. /\ Typed(s) /\ Sound(s) /\ Clean(s) /\ f \in Where /\ Get(s, f) = FileAt(s, f)
      /\ f = Root \/ (f \in InBlocks /\ s.cache[f.blk].kind \in {"zero", "dir"} /\ Backed(s, f))
  BY ReadyGet DEF Ready, FilePage, Where
<1>2. Typed(t) /\ t.free = s.free /\ InMemory(s, t) /\ FileAt(t, f) = x
  BY <1>1, PutIs
<1>3. /\ \A b \in Blocks : f = Root \/ b # f.blk =>
           t.cache[b] = s.cache[b] /\ Memory(t)[b] = Memory(s)[b]
      /\ f # Root => t.root = s.root /\ t.cache[f.blk].kind = "dir"
      /\ \A p \in Where : p # f => FileAt(t, p) = FileAt(s, p)
  <2>1. CASE f = Root
    <3>1. t = [s EXCEPT !.root = x]
      BY <2>1 DEF Put
    <3>2. t.cache = s.cache /\ t.disk = s.disk
      BY <1>1, <3>1 DEF Typed
    <3>3. Memory(t) = Memory(s)
      BY <3>2 DEF Memory
    <3> HIDE DEF t
    <3> QED BY <2>1, <3>2, <3>3 DEF FileAt, At
  <2>2. CASE f # Root
    <3> DEFINE b == f.blk
               e == [Entries(s.cache[b]) EXCEPT ![f.idx] = x]
    <3>1. b \in Blocks /\ f.idx \in Js /\ s.cache[b] # Unmapped
      BY <1>1, <2>2, Places DEF Unmapped
    <3>2. Entries(s.cache[b]) \in [Js -> File]
      BY <1>1, <3>1 DEF Typed, Page
    <3>3. e \in [Js -> File] /\ \A j \in Js : j # f.idx => e[j] = Entries(s.cache[b])[j]
      BY <3>1, <3>2
    <3>4. t = [s EXCEPT !.cache[b] = DirBlock(e)]
      BY <2>2 DEF Put
    <3> HIDE DEF e
    <3>5. /\ t.root = s.root /\ t.disk = s.disk /\ t.cache[b] = DirBlock(e)
          /\ \A k \in Blocks : k # b => t.cache[k] = s.cache[k]
      BY <1>1, <3>1, <3>4 DEF Typed
    <3>6. DirBlock(e).kind = "dir" /\ Unmapped.kind = "unmapped" /\ Entries(DirBlock(e)) = e
      BY <3>3, FilesPage DEF DirBlock, Unmapped
    <3> HIDE DEF t
    <3>7. /\ Memory(t)[b] = DirBlock(e) /\ Memory(s)[b] = s.cache[b]
          /\ \A k \in Blocks : k # b => Memory(t)[k] = Memory(s)[k]
      BY <3>1, <3>5, <3>6 DEF Memory
    <3>8. ASSUME NEW p \in Where, p # f PROVE FileAt(t, p) = FileAt(s, p)
      <4>1. CASE p = Root
        BY <3>5, <4>1 DEF FileAt, At
      <4>2. CASE p # Root /\ p.blk # b
        BY <3>7, <4>2, Places DEF FileAt, At, Where
      <4>3. CASE p # Root /\ p.blk = b
        <5>1. p.idx \in Js /\ p.idx # f.idx
          BY <1>1, <2>2, <3>8, <4>3, Places DEF Where
        <5> QED BY <3>3, <3>6, <3>7, <4>3, <5>1 DEF FileAt, At
      <4> QED BY <4>1, <4>2, <4>3
    <3> QED BY <2>2, <3>5, <3>6, <3>7, <3>8
  <2> QED BY <2>1, <2>2
<1> HIDE DEF t
<1>4. \A p \in Where : FileAt(s, p).indirect \in Blocks \cup {0} /\ Slot(s, p, NINDIRECT) = FileAt(s, p).indirect
  BY <1>1, FileTypes, FileFields, SlotIs, Numbers
<1>5. f # Root => \A p \in Where : FileAt(s, p).indirect # f.blk
  BY <1>1, <1>4, BackedIs
<1>6. \A p \in Where : p # f => Alike(s, t, p)
  BY <1>1, <1>2, <1>3, <1>4, <1>5, AlikeOf
<1>7. Slot(t, f, NINDIRECT) = x.indirect
  BY <1>1, <1>2, SlotIs, Numbers
<1>8. x.indirect # 0 => x.indirect \in Blocks /\ Memory(t)[x.indirect] = Memory(s)[x.indirect]
  BY <1>3, FileFields
<1>9. ASSUME NEW i \in Indices PROVE Slot(t, f, i) = PtrOf(Memory(s), x, i)
  <2>1. Slot(t, f, i) = PtrOf(Memory(t), x, i)
    BY <1>1, <1>2, SlotIs, Numbers
  <2> QED BY <1>8, <2>1 DEF PtrOf
<1>10. ASSUME NEW p \in Where, Slot(t, p, NINDIRECT) # 0
       PROVE  Kind(t, Slot(t, p, NINDIRECT)) \in {"zero", "ptrs"}
  <2>1. CASE p = f
    BY <1>7, <1>8, <1>10, <2>1 DEF Kind
  <2>2. CASE p # f
    <3>1. Slot(t, p, NINDIRECT) = Slot(s, p, NINDIRECT)
      BY <1>6, <2>2, Numbers DEF Alike
    <3>2. Slot(s, p, NINDIRECT) \in Blocks /\ (f = Root \/ Slot(s, p, NINDIRECT) # f.blk)
      BY <1>4, <1>5, <1>10, <3>1
    <3> QED BY <1>1, <1>3, <1>10, <3>1, <3>2 DEF Clean, Kind
  <2> QED BY <2>1, <2>2
<1>11. /\ Remembers(s, t) /\ \A b \in t.dirty : t.cache[b] # Unmapped
       /\ \A b \in Blocks : t.disk[b] # Unmapped
  <2>1. \A b \in Blocks : s.cache[b] # Unmapped => t.cache[b] # Unmapped
    BY <1>3 DEF Unmapped
  <2> QED BY <1>1, <1>2, <2>1 DEF Clean, Remembers, InMemory, Typed
<1>12. Clean(t)
  BY <1>10, <1>11 DEF Clean
<1>13. \A b \in Blocks : s.cache[b].kind \in {"zero", "dir"} => t.cache[b].kind \in {"zero", "dir"}
  BY <1>3
<1>14. Edits(s, t, f)
  BY <1>2, <1>6, <1>11, <1>12, <1>13, EditsOf
<1> QED BY <1>2, <1>3, <1>7, <1>9, <1>14 DEF t

(* Names, types, sizes and directories: the pointers stay.                  *)
LEMMA PutSame ==
  ASSUME NEW s, NEW f, Ready(s, f), NEW x \in File,
         x.direct = Get(s, f).direct, x.indirect = Get(s, f).indirect
  PROVE  /\ Edits(s, Put(s, f, x), f) /\ FileAt(Put(s, f, x), f) = x
         /\ \A i \in Slots : Slot(Put(s, f, x), f, i) = Slot(s, f, i)
<1> DEFINE t == Put(s, f, x)
<1>1. /\ Typed(s) /\ f \in Where /\ Get(s, f) = FileAt(s, f) /\ Clean(s) /\ Sound(s)
      /\ f # Root => f \in InBlocks /\ Backed(s, f)
  BY ReadyGet DEF Ready, Where, FilePage
<1>2. Slot(s, f, NINDIRECT) = x.indirect
  BY <1>1, SlotIs, Numbers
<1>3. x.indirect # 0 => /\ Kind(s, x.indirect) \in {"zero", "ptrs"}
                        /\ f = Root \/ x.indirect # f.blk
  BY <1>1, <1>2, BackedIs DEF Clean
<1>4. /\ Edits(s, t, f) /\ FileAt(t, f) = x /\ Slot(t, f, NINDIRECT) = x.indirect
      /\ \A i \in Indices : Slot(t, f, i) = PtrOf(Memory(s), x, i)
  BY <1>3, PutExact
<1> HIDE DEF t
<1>5. ASSUME NEW i \in Slots, i # NINDIRECT PROVE Slot(t, f, i) = Slot(s, f, i)
  <2>1. i \in Indices /\ Slot(s, f, i) = PtrOf(Memory(s), FileAt(s, f), i)
    BY <1>1, <1>5, SlotIs
  <2> QED BY <1>1, <1>4, <2>1 DEF PtrOf
<1> QED BY <1>2, <1>4, <1>5 DEF t

LEMMA SetPtrExact ==
  ASSUME NEW s, NEW f, Ready(s, f), NEW n \in Indices, NEW b \in Blocks \cup {0},
         n < NDIRECT \/ (Get(s, f).indirect # 0 /\ s.cache[Get(s, f).indirect] # Unmapped)
  PROVE  Assigns(s, SetPtr(s, f, n, b), f, n, b)
<1> DEFINE t == SetPtr(s, f, n, b)
<1>1. /\ Typed(s) /\ Unique(s) /\ Sound(s) /\ Clean(s) /\ f \in Where
      /\ Get(s, f) = FileAt(s, f) /\ Get(s, f) \in File
      /\ f # Root => f \in InBlocks /\ Backed(s, f) /\ s.cache[f.blk].kind \in {"zero", "dir"}
  BY ReadyGet DEF Ready, Where, FilePage
<1>2. CASE n < NDIRECT
  <2> DEFINE x == [Get(s, f) EXCEPT !.direct[n] = b]
  <2>1. n \in Directs /\ n \in Slots /\ n # NINDIRECT
    BY <1>2, Numbers DEF Indices, Directs
  <2>2. /\ x \in File /\ x.indirect = Get(s, f).indirect /\ x.direct[n] = b
        /\ \A i \in Directs : i # n => x.direct[i] = Get(s, f).direct[i]
        /\ x.name = Get(s, f).name /\ x.type = Get(s, f).type /\ x.size = Get(s, f).size
    BY <1>1, <2>1 DEF File, Directs
  <2>3. t = Put(s, f, x)
    BY <1>2 DEF SetPtr
  <2> HIDE DEF x, t
  <2>4. Slot(s, f, NINDIRECT) = x.indirect
    BY <1>1, <2>2, SlotIs, Numbers
  <2>5. x.indirect # 0 => /\ Kind(s, x.indirect) \in {"zero", "ptrs"}
                          /\ f = Root \/ x.indirect # f.blk
    BY <1>1, <2>4, BackedIs DEF Clean
  <2>6. /\ Edits(s, t, f) /\ FileAt(t, f) = x /\ Slot(t, f, NINDIRECT) = x.indirect
        /\ \A i \in Indices : Slot(t, f, i) = PtrOf(Memory(s), x, i)
    BY <2>2, <2>3, <2>5, PutExact
  <2>7. Slot(t, f, n) = b
    BY <1>2, <2>2, <2>6 DEF PtrOf
  <2>8. ASSUME NEW k \in Slots, k # n PROVE Slot(t, f, k) = Slot(s, f, k)
    <3>1. CASE k = NINDIRECT
      BY <2>4, <2>6, <3>1
    <3>2. CASE k # NINDIRECT
      <4>1. k \in Indices /\ Slot(s, f, k) = PtrOf(Memory(s), FileAt(s, f), k)
        BY <1>1, <3>2, SlotIs
      <4>2. k < NDIRECT => k \in Directs
        BY <4>1, Numbers DEF Indices, Directs
      <4> QED BY <1>1, <2>2, <2>6, <2>8, <4>1, <4>2 DEF PtrOf
    <3> QED BY <3>1, <3>2
  <2> QED BY <1>1, <2>2, <2>6, <2>7, <2>8 DEF Assigns, SameName, Name, Type, Size, t
<1>3. CASE ~(n < NDIRECT)
  <2> DEFINE m == Get(s, f).indirect
             ps == [Pointers(s.cache[m]) EXCEPT ![n] = b]
             c == PtrBlock(ps)
  <2>1. t = [s EXCEPT !.cache[m] = c]
    BY <1>3 DEF SetPtr
  <2>2. /\ m \in Blocks /\ s.cache[m] # Unmapped /\ Slot(s, f, NINDIRECT) = m
        /\ n \in Slots /\ n # NINDIRECT /\ n \notin Directs
    BY <1>1, <1>3, FileFields, SlotIs, Numbers DEF Directs
  <2>3. Pointers(s.cache[m]) \in Ptrs
    BY <1>1, <2>2 DEF Typed, Page
  <2>4. /\ ps \in Ptrs /\ ps[n] = b
        /\ \A i \in Indices : i # n => ps[i] = Pointers(s.cache[m])[i]
    BY <2>3 DEF Ptrs
  <2> HIDE DEF ps
  <2>5. Page(c) /\ Entries(c) = [j \in Js |-> NoFile] /\ Pointers(c) = ps
    BY <2>4, PointersPage
  <2>6. c.kind \in {"zero", "ptrs"}
    BY DEF PtrBlock, Zero
  <2> HIDE DEF c
  <2>7. Memory(s)[m] = s.cache[m] /\ s.cache[m].kind \in {"zero", "ptrs"}
    <3>1. Memory(s)[m] = s.cache[m]
      BY <1>1, <2>2, MemoryPages
    <3>2. m # 0
      BY <2>2, Numbers
    <3> QED BY <1>1, <2>2, <3>1, <3>2 DEF Clean, Kind
  <2>8. Entries(s.cache[m]) = [j \in Js |-> NoFile]
    BY <2>7, EmptyFile DEF Entries, Js
  <2> HIDE DEF t, m
  <2>9. /\ Typed(t) /\ t.free = s.free /\ t.root = s.root /\ InMemory(s, t)
        /\ t.cache[m] = c /\ Memory(t)[m] = c
        /\ \A k \in Blocks : k # m => t.cache[k] = s.cache[k] /\ Memory(t)[k] = Memory(s)[k]
    <3>1. c.kind # "unmapped"
      BY <2>6
    <3>2. t.cache[m] = c
      BY <1>1, <2>1, <2>2 DEF Typed
    <3> QED BY <1>1, <2>1, <2>2, <2>5, <3>1, <3>2, CacheSet
  <2>10. ASSUME NEW p \in Where PROVE FileAt(t, p) = FileAt(s, p)
    <3>1. CASE p = Root
      BY <2>9, <3>1 DEF FileAt, At
    <3>2. CASE p # Root /\ p.blk # m
      BY <2>9, <3>2, Places DEF FileAt, At, Where
    <3>3. CASE p # Root /\ p.blk = m
      BY <2>5, <2>7, <2>8, <2>9, <3>3 DEF FileAt, At
    <3> QED BY <3>1, <3>2, <3>3
  <2>11. \A p \in Where : p # f => FileAt(s, p).indirect # m
    <3>1. \A p \in Where : Slot(s, p, NINDIRECT) = FileAt(s, p).indirect
      BY <1>1, SlotIs, Numbers
    <3> QED BY <1>1, <2>2, <3>1, Numbers DEF Unique
  <2>12. \A p \in Where : p # f => Alike(s, t, p)
    <3>1. \A p \in Where : FileAt(s, p).indirect \in Blocks \cup {0}
      BY <1>1, FileTypes, FileFields
    <3> QED BY <1>1, <2>9, <2>10, <2>11, <3>1, AlikeOf
  <2>13. FileAt(t, f) = FileAt(s, f) /\ FileAt(s, f).indirect = m /\ m # 0
    BY <1>1, <2>2, <2>10, Numbers DEF m
  <2>14. Slot(t, f, n) = b
    BY <1>1, <2>2, <2>4, <2>5, <2>9, <2>13, SlotIs
  <2>15. ASSUME NEW k \in Slots, k # n PROVE Slot(t, f, k) = Slot(s, f, k)
    <3>1. CASE k = NINDIRECT \/ k \in Directs
      BY <1>1, <2>9, <2>13, <3>1, SlotIs
    <3>2. CASE k # NINDIRECT /\ k \notin Directs
      <4>1. Slot(t, f, k) = Pointers(c)[k] /\ Slot(s, f, k) = Pointers(s.cache[m])[k] /\ k \in Indices
        BY <1>1, <2>7, <2>9, <2>13, <3>2, SlotIs
      <4> QED BY <2>4, <2>5, <2>15, <4>1
    <3> QED BY <3>1, <3>2
  <2>16. Remembers(s, t)
    BY <2>2, <2>6, <2>9 DEF Remembers, Unmapped
  <2>17. Clean(t)
    <3>1. ASSUME NEW p \in Where, Slot(t, p, NINDIRECT) # 0
          PROVE  Kind(t, Slot(t, p, NINDIRECT)) \in {"zero", "ptrs"}
      <4>1. Slot(t, p, NINDIRECT) = Slot(s, p, NINDIRECT) /\ Slot(s, p, NINDIRECT) \in Blocks \cup {0}
        BY <1>1, <2>2, <2>12, <2>15, Numbers, SlotIs DEF Alike
      <4> QED BY <1>1, <2>6, <2>9, <3>1, <4>1 DEF Clean, Kind
    <3>2. \A k \in t.dirty : t.cache[k] # Unmapped
      BY <1>1, <2>9, <2>16 DEF Clean, InMemory, Remembers, Typed
    <3>3. \A k \in Blocks : t.disk[k] # Unmapped
      BY <1>1, <2>9 DEF Clean, InMemory
    <3> QED BY <3>1, <3>2, <3>3 DEF Clean
  <2>18. Edits(s, t, f)
    <3>1. \A p \in InBlocks : Backed(s, p) => p.blk # m
      BY <1>1, <2>2, BackedIs
    <3>2. ASSUME NEW p \in Where, FilePage(s, p), p = Root \/ Backed(t, p) PROVE FilePage(t, p)
      <4>1. CASE p = Root
        BY <4>1 DEF FilePage
      <4>2. CASE p # Root
        <5>1. p.blk \in Blocks /\ p.blk # m /\ Backed(t, p) /\ s.cache[p.blk].kind \in {"zero", "dir"}
          BY <3>1, <3>2, <4>2, Places DEF Where, FilePage
        <5> QED BY <2>9, <5>1 DEF FilePage
      <4> QED BY <4>1, <4>2
    <3>3. \A p \in Where : Has(t, p) = Has(s, p) \/ p = f
      BY <2>12, AlikeHas
    <3>4. f # Root => Backed(t, f)
      <4>1. f # Root => f.blk \notin Has(s, f) /\ Has(t, Root) = Has(s, Root)
        BY <1>1, <3>3, BackedIs, HasIs, Numbers DEF Where
      <4> QED BY <1>1, <3>3, <4>1 DEF Backed, Where
    <3>5. FilePage(s, f) /\ InBlocks \subseteq Where
      BY DEF Ready, Where
    <3>6. Pages(s, t) /\ FilePage(t, f)
      BY <1>1, <3>2, <3>4, <3>5, Places DEF Pages, Where
    <3> QED BY <2>9, <2>12, <2>16, <2>17, <3>6 DEF Edits
  <2>19. SameName(s, t, f) /\ Size(t, f) = Size(s, f)
    BY <2>13 DEF SameName, Name, Type, Size
  <2> QED BY <2>14, <2>15, <2>18, <2>19 DEF Assigns, t
<1> QED BY <1>2, <1>3

(* A block is given back.  The page stays. *)
LEMMA FreeExact ==
  ASSUME NEW s, Typed(s), NEW b \in Blocks
  PROVE  LET u == free_block(s, b) IN
         /\ Typed(u) /\ u.free = s.free \cup {b} /\ (Clean(s) => Clean(u))
         /\ u.cache = s.cache /\ Memory(u) = Memory(s) /\ u.root = s.root
         /\ \A p : FileAt(u, p) = FileAt(s, p) /\ Has(u, p) = Has(s, p)
         /\ \A p, i : Slot(u, p, i) = Slot(s, p, i)
<1> DEFINE u == free_block(s, b)
<1>1. u = [s EXCEPT !.free = @ \cup {b}]
  BY Numbers DEF free_block, Blocks
<1>2. /\ u.free = s.free \cup {b} /\ u.cache = s.cache /\ u.disk = s.disk /\ u.root = s.root
      /\ u.dirty = s.dirty
  BY <1>1 DEF Typed
<1>3. Typed(u)
  BY FreeBlock
<1> HIDE DEF u
<1>4. Memory(u) = Memory(s)
  BY <1>2 DEF Memory
<1>5. \A p : FileAt(u, p) = FileAt(s, p)
  BY <1>2, <1>4 DEF FileAt
<1>6. \A p, i : Slot(u, p, i) = Slot(s, p, i)
  BY <1>4, <1>5 DEF Slot
<1>7. \A p : Has(u, p) = Has(s, p)
  BY <1>6 DEF Has
<1>8. Clean(s) => Clean(u)
  BY <1>2, <1>4, <1>6 DEF Clean, Kind
<1> QED BY <1>2, <1>3, <1>4, <1>5, <1>6, <1>7, <1>8 DEF u

-----------------------------------------------------------------------------
(* Blocks that a File gets.                                                 *)

Adds(s, t, f, I) ==
  /\ Ready(t, f) /\ Remembers(s, t) /\ t.free \subseteq s.free
  /\ SameName(s, t, f) /\ Size(t, f) = Size(s, f)
  /\ \A p \in Where : p # f => (Live(s, p) => Alike(s, t, p)) /\ (Alike(s, t, p) \/ Void(t, p))
  /\ \A i \in Slots : \/ Slot(t, f, i) = Slot(s, f, i)
                      \/ i \in I /\ Slot(s, f, i) = 0 /\ Slot(t, f, i) \in s.free
  /\ \A b \in s.free \ t.free : \E i \in Slots : Slot(t, f, i) = b
  /\ \A p \in InBlocks : FilePage(s, p) => FilePage(t, p)

Spots(i) == IF i < NDIRECT THEN {i} ELSE {i, NINDIRECT}
(* The pointer to block i is there, or the page of the one that holds it.   *)
Reached(s, f, i) ==
  /\ i \in Indices
  /\ i < NDIRECT \/ (Get(s, f).indirect # 0 /\ s.cache[Get(s, f).indirect] # Unmapped)

LEMMA AddsTrans ==
  ASSUME NEW s, Typed(s), NEW t, NEW u, NEW f, NEW I, NEW K, NEW J, I \subseteq J, K \subseteq J,
         Adds(s, t, f, I), Adds(t, u, f, K)
  PROVE  Adds(s, u, f, J)
<1>1. 0 \notin s.free /\ u.free \subseteq s.free /\ t.free \subseteq s.free
  BY Numbers DEF Typed, Adds
<1>2. Ready(u, f) /\ Remembers(s, u) /\ SameName(s, u, f) /\ Size(u, f) = Size(s, f)
  BY DEF Adds, Remembers, SameName
<1>3. ASSUME NEW p \in Where, p # f
      PROVE  (Live(s, p) => Alike(s, u, p)) /\ (Alike(s, u, p) \/ Void(u, p))
  <2>1. Live(s, p) => Live(t, p)
    BY <1>1 DEF Live
  <2>2. /\ (Live(s, p) => Alike(s, t, p)) /\ (Alike(s, t, p) \/ Void(t, p))
        /\ (Live(t, p) => Alike(t, u, p)) /\ (Alike(t, u, p) \/ Void(u, p))
    BY <1>3 DEF Adds
  <2>3. (Alike(s, t, p) /\ Alike(t, u, p) => Alike(s, u, p)) /\
        (Void(t, p) /\ Alike(t, u, p) => Void(u, p))
    BY DEF Alike, Void
  <2> QED BY <2>1, <2>2, <2>3
<1>4. ASSUME NEW i \in Slots
      PROVE  \/ Slot(u, f, i) = Slot(s, f, i)
             \/ i \in J /\ Slot(s, f, i) = 0 /\ Slot(u, f, i) \in s.free
  BY <1>1 DEF Adds
<1>5. ASSUME NEW b \in s.free \ u.free PROVE \E i \in Slots : Slot(u, f, i) = b
  <2>1. CASE b \in t.free
    BY <1>5, <2>1 DEF Adds
  <2>2. CASE b \notin t.free
    <3>1. PICK i \in Slots : Slot(t, f, i) = b
      BY <1>5, <2>2 DEF Adds
    <3>2. Slot(u, f, i) = b
      BY <1>1, <1>5, <3>1 DEF Adds
    <3> QED BY <3>2
  <2> QED BY <2>1, <2>2
<1>6. \A p \in InBlocks : FilePage(s, p) => FilePage(u, p)
  BY DEF Adds
<1> QED BY <1>1, <1>2, <1>3, <1>4, <1>5, <1>6 DEF Adds

LEMMA AddsStill ==
  ASSUME NEW s, NEW t, NEW f, Ready(s, f), Still(s, t), Sound(t), NEW I
  PROVE  Adds(s, t, f, I)
<1>1. Ready(t, f)
  BY StillReady DEF Ready, Still, Sound
<1>2. \A p \in InBlocks : FilePage(s, p) => FilePage(t, p)
  BY StillReady DEF Ready, Sound, Where
<1>3. SameName(s, t, f) /\ Size(t, f) = Size(s, f)
  BY StillIs DEF Alike, SameName
<1> QED BY <1>1, <1>2, <1>3, StillIs DEF Adds, Still

LEMMA AddSlot ==
  ASSUME NEW s, NEW u, NEW t, NEW f, Ready(s, f), NEW b, Takes(s, u, b), Sound(t), NEW i \in Slots,
         Assigns(u, t, f, i, b), Slot(s, f, i) = 0
  PROVE  Adds(s, t, f, {i})
<1>1. Live(s, f) /\ f \in Where /\ Sound(s)
  BY BackedIs DEF Ready, FilePage, Live, Where
<1>2. Alike(s, u, f) /\ u.free = s.free \ {b} /\ b \in s.free /\ Remembers(s, u)
  BY <1>1 DEF Takes
<1>3. Edits(u, t, f) /\ SameName(u, t, f) /\ Size(t, f) = Size(u, f)
  BY DEF Assigns
<1>4. SameName(s, t, f) /\ Size(t, f) = Size(s, f)
  BY <1>2, <1>3 DEF Alike, SameName
<1>5. Remembers(s, t) /\ t.free = s.free \ {b} /\ Clean(t) /\ FilePage(t, f)
  BY <1>2, <1>3 DEF Remembers, Edits
<1>6. ASSUME NEW p \in Where, p # f
      PROVE  (Live(s, p) => Alike(s, t, p)) /\ (Alike(s, t, p) \/ Void(t, p))
  <2>1. Alike(u, t, p)
    BY <1>3, <1>6 DEF Edits
  <2>2. (Live(s, p) => Alike(s, u, p)) /\ (Alike(s, u, p) \/ Void(u, p))
    BY DEF Takes
  <2>3. (Alike(s, u, p) => Alike(s, t, p)) /\ (Void(u, p) => Void(t, p))
    BY <2>1 DEF Alike, Void
  <2> QED BY <2>2, <2>3
<1>7. Slot(t, f, i) = b /\ \A k \in Slots : k # i => Slot(t, f, k) = Slot(s, f, k)
  BY <1>2 DEF Assigns, Alike
<1>8. ASSUME NEW p \in Where PROVE Has(u, p) \subseteq Has(t, p)
  <2>1. CASE p = f
    <3>1. \A k \in Indices : k \in Slots
      BY Numbers
    <3>2. Slot(u, f, i) = 0 /\ \A k \in Slots : Slot(u, f, k) = Slot(s, f, k)
      BY <1>2 DEF Alike
    <3> QED BY <1>7, <2>1, <3>1, <3>2 DEF Has
  <2>2. CASE p # f
    BY <1>3, <2>2, AlikeHas DEF Edits
  <2> QED BY <2>1, <2>2
<1>9. ASSUME NEW p \in InBlocks, FilePage(s, p) PROVE FilePage(t, p)
  <2>1. FilePage(u, p) /\ Backed(u, p)
    BY <1>9, Places DEF Takes, FilePage
  <2>2. Backed(t, p)
    BY <1>8, <2>1 DEF Backed, Where
  <2> QED BY <1>3, <2>1, <2>2 DEF Edits, Pages
<1>10. Ready(t, f)
  BY <1>1, <1>5 DEF Ready
<1>11. \A c \in s.free \ t.free : \E k \in Slots : Slot(t, f, k) = c
  BY <1>5, <1>7
<1>12. \A k \in Slots : \/ Slot(t, f, k) = Slot(s, f, k)
                        \/ k \in {i} /\ Slot(s, f, k) = 0 /\ Slot(t, f, k) \in s.free
  BY <1>2, <1>7
<1> QED BY <1>4, <1>5, <1>6, <1>9, <1>10, <1>11, <1>12 DEF Adds

LEMMA PtrIs ==
  ASSUME NEW s, NEW f, Ready(s, f), NEW i, Reached(s, f, i)
  PROVE  PtrOf(s.cache, Get(s, f), i) = Slot(s, f, i)
<1>1. Typed(s) /\ f \in Where /\ Get(s, f) = FileAt(s, f) /\ Get(s, f) \in File
  BY ReadyGet DEF Ready
<1>2. i \in Slots /\ i # NINDIRECT /\ i \in Indices
  BY Numbers DEF Reached
<1>3. Slot(s, f, i) = PtrOf(Memory(s), Get(s, f), i)
  BY <1>1, <1>2, SlotIs
<1>4. Get(s, f).indirect \in Blocks \cup {0}
  BY <1>1, FileFields
<1>5. ~(i < NDIRECT) => Memory(s)[Get(s, f).indirect] = s.cache[Get(s, f).indirect]
  BY <1>1, <1>4, MemoryPages DEF Reached
<1> QED BY <1>3, <1>5 DEF PtrOf

(* The block of an indirect pointer is in use.                              *)
LEMMA IndirectUsed ==
  ASSUME NEW s, NEW f, Ready(s, f)
  PROVE  /\ Slot(s, f, NINDIRECT) = Get(s, f).indirect /\ Get(s, f).indirect \in Blocks \cup {0}
         /\ Get(s, f).indirect \notin s.free
         /\ \A i \in Indices : ~(i < NDIRECT) /\ Slot(s, f, i) # 0 => Get(s, f).indirect # 0
<1>1. Typed(s) /\ NotFree(s) /\ f \in Where /\ Get(s, f) = FileAt(s, f) /\ Get(s, f) \in File
  BY ReadyGet DEF Ready, Sound
<1>2. Slot(s, f, NINDIRECT) = Get(s, f).indirect
  BY <1>1, SlotIs, Numbers
<1>3. \A i \in Indices : i \in Slots /\ (~(i < NDIRECT) => i # NINDIRECT /\ i \notin Directs)
  BY Numbers DEF Directs
<1>4. \A i \in Indices : ~(i < NDIRECT) /\ Slot(s, f, i) # 0 => Get(s, f).indirect # 0
  BY <1>1, <1>3, SlotIs
<1> QED BY <1>1, <1>2, <1>4, FileFields, Numbers DEF NotFree

LEMMA WalkExact ==
  ASSUME NEW s, NEW f, Ready(s, f), NEW i \in Nat, NEW alloc \in BOOLEAN
  PROVE  LET w == file_block_walk(s, f, i, alloc) IN
         w.err \notin Stops =>
           /\ Adds(s, w.fs, f, Spots(i))
           /\ ~alloc \/ (i \in Indices /\ Slot(s, f, i) # 0) => Still(s, w.fs)
           /\ i \in Indices /\ Slot(s, f, i) # 0 => w.err = "ok"
           /\ w.err = "ok" => Reached(w.fs, f, i)
<1> DEFINE w == file_block_walk(s, f, i, alloc)
           n == Get(s, f).indirect
<1> SUFFICES ASSUME w.err \notin Stops
             PROVE  /\ Adds(s, w.fs, f, Spots(i))
                    /\ ~alloc \/ (i \in Indices /\ Slot(s, f, i) # 0) => Still(s, w.fs)
                    /\ i \in Indices /\ Slot(s, f, i) # 0 => w.err = "ok"
                    /\ w.err = "ok" => Reached(w.fs, f, i)
  OBVIOUS
<1>1. /\ Typed(s) /\ Sound(s) /\ Clean(s) /\ f \in Where /\ Still(s, s)
      /\ n \in Blocks \cup {0} /\ n \notin s.free
      /\ \A k \in Indices : ~(k < NDIRECT) /\ Slot(s, f, k) # 0 => n # 0
  BY ReadyGet, IndirectUsed, StillOf DEF Ready
<1>2. Sound(w.fs) /\ (w.err = "ok" => i \in Indices)
  BY <1>1, BlockWalk DEF Good
<1>3. CASE i < NDIRECT
  <2>1. w.fs = s /\ w.err = "ok"
    BY <1>3, Results DEF file_block_walk
  <2> QED BY <1>1, <1>2, <1>3, <2>1, AddsStill DEF Reached
<1>4. CASE i >= NINDIRECT
  <2>1. w.fs = s /\ w.err = "E_INVAL" /\ i \notin Indices
    BY <1>4, Results, Numbers DEF file_block_walk, Indices
  <2> QED BY <1>1, <1>2, <2>1, AddsStill
<1>5. CASE ~(i < NDIRECT) /\ ~(i >= NINDIRECT) /\ n # 0
  <2>1. w = read_block(s, n)
    BY <1>5 DEF file_block_walk
  <2>2. n \in Blocks
    BY <1>1, <1>5
  <2> HIDE DEF n, w
  <2>3. Still(s, w.fs) /\ w.err = "ok" /\ w.fs.cache[n] # Unmapped
    BY <1>1, <2>1, <2>2, ReadStill
  <2>4. Adds(s, w.fs, f, Spots(i)) /\ Ready(w.fs, f)
    <3>1. Sound(w.fs)
      BY <1>2 DEF w
    <3>2. Adds(s, w.fs, f, Spots(i))
      BY <2>3, <3>1, AddsStill
    <3> QED BY <3>2 DEF Adds
  <2>5. Get(w.fs, f) = Get(s, f)
    BY <2>3, <2>4, ReadyGet, StillIs
  <2> QED BY <1>2, <1>5, <2>3, <2>4, <2>5 DEF w, n, Reached
<1>6. CASE ~(i < NDIRECT) /\ ~(i >= NINDIRECT) /\ n = 0
  <2>1. i \in Indices /\ Slot(s, f, i) = 0
    BY <1>1, <1>6, Numbers DEF Indices
  <2>2. CASE ~alloc
    <3>1. w.fs = s /\ w.err = "E_NOT_FOUND"
      BY <1>6, <2>2, Results DEF file_block_walk
    <3> QED BY <1>1, <1>2, <2>1, <2>2, <3>1, AddsStill
  <2>3. CASE alloc
    <3> DEFINE a == alloc_block(s)
               x == [Get(a.fs, f) EXCEPT !.indirect = a.r]
               t == Put(a.fs, f, x)
    <3>1. w = IF a.err # "ok" THEN a
              ELSE IF t.cache[a.r] # Zero THEN Fail(t, "garbled") ELSE read_block(t, a.r)
      BY <1>6, <2>3 DEF file_block_walk, Then
    <3>2. /\ Sound(a.fs) /\ (a.err = "ok" => Fresh(a.fs, a.r) /\ Takes(s, a.fs, a.r))
          /\ a.err # "ok" => a.fs = s
      BY <1>1, AllocBlock, AllocExact
    <3>3. CASE a.err # "ok"
      <4>1. w = a
        BY <3>1, <3>3
      <4> HIDE DEF a, w
      <4> QED BY <1>1, <1>2, <2>1, <2>3, <3>2, <3>3, <4>1, AddsStill DEF w
    <3>4. CASE a.err = "ok"
      <4> HIDE DEF a
      <4>1. Typed(a.fs) /\ a.r \in Blocks /\ a.r \in s.free /\ Clean(a.fs) /\ a.fs.free = s.free \ {a.r}
        BY <3>2, <3>4 DEF Sound, Fresh, Takes
      <4>2. f # Root => f \in InBlocks /\ f.blk \notin s.free /\ Live(s, f)
        BY <1>1, BackedIs DEF Where, FilePage, Ready
      <4>3. Ready(a.fs, f) /\ Alike(s, a.fs, f)
        BY <1>1, <3>2, <3>4, <4>1, <4>2 DEF Ready, Takes, Live, FilePage
      <4>4. Get(a.fs, f) \in File /\ Get(a.fs, f) = FileAt(a.fs, f)
        BY <4>3, ReadyGet
      <4>5. Get(a.fs, f).indirect = 0
        <5>1. Slot(a.fs, f, NINDIRECT) = Get(a.fs, f).indirect /\ Slot(s, f, NINDIRECT) = n
          BY <4>3, IndirectUsed
        <5> QED BY <1>6, <4>3, <5>1, Numbers DEF Alike
      <4>6. /\ x \in File /\ x.indirect = a.r /\ x.name = Get(a.fs, f).name
            /\ x.type = Get(a.fs, f).type /\ x.size = Get(a.fs, f).size
            /\ \A k \in Directs : x.direct[k] = Get(a.fs, f).direct[k]
        BY <4>1, <4>4 DEF File, Directs
      <4> HIDE DEF x
      <4>7. CASE t.cache[a.r] # Zero
        <5>1. w.err = "garbled"
          BY <3>1, <3>4, <4>7, Results
        <5> QED BY <5>1 DEF Stops
      <4>8. CASE t.cache[a.r] = Zero
        <5>1. a.fs.cache[a.r] # Unmapped
          BY <3>2, <3>4 DEF Takes
        <5>2. t.cache[a.r] = a.fs.cache[a.r]
          BY <1>1, <4>1, <4>2, <4>6, PutTouches
        <5>3. Kind(a.fs, a.r) = "zero" /\ \A k \in Indices : Pointers(Memory(a.fs)[a.r])[k] = 0
          <6>1. Memory(a.fs)[a.r] = Zero /\ Zero.kind = "zero"
            BY <4>1, <4>8, <5>1, <5>2, MemoryPages DEF Zero
          <6> QED BY <6>1, PlainPage DEF Kind
        <5>4. /\ Edits(a.fs, t, f) /\ FileAt(t, f) = x /\ Slot(t, f, NINDIRECT) = a.r
              /\ \A k \in Indices : Slot(t, f, k) = PtrOf(Memory(a.fs), x, k)
          <6>1. f = Root \/ x.indirect # f.blk
            BY <4>1, <4>2, <4>6
          <6> QED BY <4>3, <4>6, <5>3, <6>1, PutExact
        <5>5. ASSUME NEW k \in Slots, k # NINDIRECT PROVE Slot(t, f, k) = Slot(a.fs, f, k)
          <6>1. /\ k \in Indices /\ Slot(a.fs, f, k) = PtrOf(Memory(a.fs), Get(a.fs, f), k)
                /\ k < NDIRECT => k \in Directs
            BY <1>1, <4>1, <4>4, <5>5, SlotIs, Numbers DEF Directs, Indices
          <6>2. a.r # 0
            BY <4>1, Numbers
          <6> QED BY <4>5, <4>6, <5>3, <5>4, <6>1, <6>2 DEF PtrOf
        <5>6. Assigns(a.fs, t, f, NINDIRECT, a.r)
          BY <4>4, <4>6, <5>4, <5>5 DEF Assigns, SameName, Name, Type, Size
        <5>7. w = read_block(t, a.r)
          BY <3>1, <3>4, <4>8
        <5> HIDE DEF t, w
        <5>8. Typed(t) /\ Clean(t) /\ a.r \notin t.free /\ FilePage(t, f)
          BY <4>1, <5>4 DEF Edits
        <5>9. Still(t, w.fs) /\ w.err = "ok" /\ w.fs.cache[a.r] # Unmapped
          BY <4>1, <5>7, <5>8, ReadStill
        <5>10. Sound(t)
          <6>1. Memory(w.fs) = Memory(t) /\ w.fs.free = t.free
            BY <5>9 DEF Still
          <6>2. \A p, k : Slot(t, p, k) = Slot(w.fs, p, k)
            BY <5>9, StillIs
          <6> QED BY <1>2, <5>8, <6>1, <6>2 DEF Sound, Unique, NotFree, w
        <5>11. Adds(s, t, f, {NINDIRECT})
          <6>1. NINDIRECT \in Slots /\ Slot(s, f, NINDIRECT) = 0
            BY <1>6, IndirectUsed, Numbers
          <6> QED BY <3>2, <3>4, <5>6, <5>10, <6>1, AddSlot
        <5>12. Ready(t, f)
          BY <5>11 DEF Adds
        <5>13. Adds(t, w.fs, f, {})
          BY <1>2, <5>9, <5>12, AddsStill DEF w
        <5>14. Adds(s, w.fs, f, Spots(i))
          <6>1. {NINDIRECT} \subseteq Spots(i) /\ {} \subseteq Spots(i)
            BY <1>6 DEF Spots
          <6> QED BY <1>1, <5>11, <5>13, <6>1, AddsTrans
        <5>15. Get(w.fs, f) = x
          BY <5>4, <5>9, <5>13, ReadyGet, StillIs DEF Adds
        <5>16. Reached(w.fs, f, i)
          BY <2>1, <4>1, <4>6, <5>9, <5>15, Numbers DEF Reached
        <5> QED BY <2>1, <2>3, <5>14, <5>16, <5>9 DEF w
      <4> QED BY <4>7, <4>8
    <3> QED BY <3>3, <3>4
  <2> QED BY <2>2, <2>3
<1> QED BY <1>3, <1>4, <1>5, <1>6

(* The page of an indirect block stays in the cache. *)
LEMMA AddsReached ==
  ASSUME NEW s, NEW t, NEW f, NEW I, Ready(s, f), Adds(s, t, f, I), NEW i, Reached(s, f, i)
  PROVE  Reached(t, f, i)
<1>1. Ready(t, f) /\ Remembers(s, t) /\ NINDIRECT \in Slots
  BY Numbers DEF Adds
<1>2. /\ Slot(s, f, NINDIRECT) = Get(s, f).indirect /\ Slot(t, f, NINDIRECT) = Get(t, f).indirect
      /\ Get(s, f).indirect \in Blocks \cup {0}
  BY <1>1, IndirectUsed
<1>3. Slot(s, f, NINDIRECT) # 0 => Slot(t, f, NINDIRECT) = Slot(s, f, NINDIRECT)
  BY <1>1 DEF Adds
<1> QED BY <1>1, <1>2, <1>3 DEF Reached, Remembers

LEMMA MapExact ==
  ASSUME NEW s, NEW f, Ready(s, f), NEW i \in Nat, NEW alloc \in BOOLEAN
  PROVE  LET m == file_map_block(s, f, i, alloc) IN
         m.err \notin Stops =>
           /\ Adds(s, m.fs, f, Spots(i))
           /\ ~alloc \/ (i \in Indices /\ Slot(s, f, i) # 0) => Still(s, m.fs)
           /\ i \in Indices /\ Slot(s, f, i) # 0 => m.err = "ok"
           /\ m.err = "ok" => i \in Indices /\ m.r \in Blocks /\ m.r = Slot(m.fs, f, i) /\ Reached(m.fs, f, i)
<1> DEFINE m == file_map_block(s, f, i, alloc)
           w == file_block_walk(s, f, i, alloc)
           b == PtrOf(w.fs.cache, Get(w.fs, f), i)
           a == alloc_block(w.fs)
<1> SUFFICES ASSUME m.err \notin Stops
             PROVE  /\ Adds(s, m.fs, f, Spots(i))
                    /\ ~alloc \/ (i \in Indices /\ Slot(s, f, i) # 0) => Still(s, m.fs)
                    /\ i \in Indices /\ Slot(s, f, i) # 0 => m.err = "ok"
                    /\ m.err = "ok" => i \in Indices /\ m.r \in Blocks /\ m.r = Slot(m.fs, f, i) /\ Reached(m.fs, f, i)
  OBVIOUS
<1>1. m = IF w.err # "ok" THEN w
          ELSE IF b # 0 THEN Ok(w.fs, b)
          ELSE IF ~alloc THEN Fail(w.fs, "E_NOT_FOUND")
          ELSE IF a.err # "ok" THEN a ELSE Ok(SetPtr(a.fs, f, i, a.r), a.r)
  BY DEF file_map_block, Then
<1>2. w.err \notin Stops =>
           /\ Adds(s, w.fs, f, Spots(i))
           /\ ~alloc \/ (i \in Indices /\ Slot(s, f, i) # 0) => Still(s, w.fs)
           /\ i \in Indices /\ Slot(s, f, i) # 0 => w.err = "ok"
           /\ w.err = "ok" => Reached(w.fs, f, i)
  BY WalkExact
<1>3. Sound(m.fs) /\ Sound(s) /\ Typed(s) /\ f \in Where
  BY MapFileBlock DEF Good, Ready, Sound
<1> HIDE DEF m, w
<1>4. CASE w.err # "ok"
  BY <1>1, <1>2, <1>4 DEF m
<1>5. CASE w.err = "ok"
  <2>1. /\ Adds(s, w.fs, f, Spots(i)) /\ Reached(w.fs, f, i) /\ Ready(w.fs, f) /\ i \in Indices
        /\ ~alloc \/ (i \in Indices /\ Slot(s, f, i) # 0) => Still(s, w.fs)
    BY <1>2, <1>5 DEF Stops, Adds, Reached
  <2>2. b = Slot(w.fs, f, i) /\ b \in Blocks \cup {0} /\ Typed(w.fs) /\ Sound(w.fs) /\ Clean(w.fs)
    <3>1. b = Slot(w.fs, f, i)
      BY <2>1, PtrIs
    <3> QED BY <1>3, <2>1, <3>1, SlotIs, Numbers DEF Ready, Sound
  <2> HIDE DEF b
  <2>3. CASE b # 0
    <3>1. m.fs = w.fs /\ m.err = "ok" /\ m.r = b
      BY <1>1, <1>5, <2>3, Results
    <3> QED BY <2>1, <2>2, <2>3, <3>1 DEF m
  <2>4. Slot(s, f, i) = 0 \/ b # 0
    BY <2>1, <2>2, StillIs
  <2>5. CASE b = 0 /\ ~alloc
    <3>1. m.fs = w.fs /\ m.err = "E_NOT_FOUND"
      BY <1>1, <1>5, <2>5, Results
    <3> QED BY <2>1, <2>4, <2>5, <3>1 DEF m
  <2>6. CASE b = 0 /\ alloc
    <3>1. /\ Sound(a.fs) /\ (a.err = "ok" => Fresh(a.fs, a.r) /\ Takes(w.fs, a.fs, a.r))
          /\ a.err # "ok" => a.fs = w.fs
      BY <2>2, AllocBlock, AllocExact
    <3> HIDE DEF a
    <3>2. CASE a.err # "ok"
      <4>1. m = a
        BY <1>1, <1>5, <2>6, <3>2
      <4> QED BY <2>1, <2>4, <2>6, <3>1, <3>2, <4>1 DEF m
    <3>3. CASE a.err = "ok"
      <4> DEFINE t == SetPtr(a.fs, f, i, a.r)
      <4>1. m.fs = t /\ m.err = "ok" /\ m.r = a.r
        BY <1>1, <1>5, <2>6, <3>3, Results
      <4>2. Takes(w.fs, a.fs, a.r) /\ a.r \in Blocks /\ a.r \in w.fs.free
        BY <3>1, <3>3 DEF Fresh, Takes
      <4>3. Live(w.fs, f) /\ f \in Where
        BY <2>1, BackedIs DEF Ready, FilePage, Live, Where
      <4>4. Ready(a.fs, f) /\ Alike(w.fs, a.fs, f)
        BY <2>1, <3>1, <4>2, <4>3 DEF Ready, Takes, FilePage, Where
      <4>5. i \in Slots
        BY <2>1, Numbers
      <4>6. i < NDIRECT \/ (Get(a.fs, f).indirect # 0 /\ a.fs.cache[Get(a.fs, f).indirect] # Unmapped)
        <5>1. /\ Slot(a.fs, f, NINDIRECT) = Get(a.fs, f).indirect
              /\ Slot(w.fs, f, NINDIRECT) = Get(w.fs, f).indirect
              /\ Get(w.fs, f).indirect \in Blocks \cup {0}
          BY <2>1, <4>4, IndirectUsed
        <5>2. Get(a.fs, f).indirect = Get(w.fs, f).indirect
          BY <4>4, <5>1, Numbers DEF Alike
        <5>3. Remembers(w.fs, a.fs)
          BY <4>2 DEF Takes
        <5> QED BY <2>1, <5>1, <5>2, <5>3 DEF Reached, Remembers
      <4>7. Assigns(a.fs, t, f, i, a.r)
        BY <2>1, <4>2, <4>4, <4>6, SetPtrExact
      <4> HIDE DEF t
      <4>8. Sound(t)
        BY <1>3, <4>1 DEF m
      <4>9. Adds(w.fs, t, f, {i})
        BY <2>1, <2>2, <2>6, <4>2, <4>5, <4>7, <4>8, AddSlot
      <4>10. Adds(s, t, f, Spots(i))
        <5>1. {i} \subseteq Spots(i)
          BY DEF Spots
        <5> QED BY <1>3, <2>1, <4>9, <5>1, AddsTrans
      <4>11. a.r = Slot(t, f, i)
        BY <4>7 DEF Assigns
      <4>12. Reached(t, f, i)
        BY <2>1, <4>9, AddsReached
      <4> QED BY <2>1, <2>4, <2>6, <4>1, <4>2, <4>10, <4>11, <4>12 DEF m
    <3> QED BY <3>2, <3>3
  <2> QED BY <2>3, <2>5, <2>6
<1> QED BY <1>4, <1>5

LEMMA GetExact ==
  ASSUME NEW s, NEW f, Ready(s, f), NEW i \in Nat
  PROVE  LET g == file_get_block(s, f, i) IN
         g.err \notin Stops =>
           /\ Adds(s, g.fs, f, Spots(i))
           /\ i \in Indices /\ Slot(s, f, i) # 0 => g.err = "ok" /\ Still(s, g.fs)
           /\ g.err = "ok" => /\ Reached(g.fs, f, i) /\ i \in Indices /\ g.r \in Blocks
                              /\ g.r = Slot(g.fs, f, i)
                              /\ g.fs.cache[g.r] # Unmapped
<1> DEFINE g == file_get_block(s, f, i)
           m == file_map_block(s, f, i, TRUE)
<1> SUFFICES ASSUME g.err \notin Stops
             PROVE  /\ Adds(s, g.fs, f, Spots(i))
                    /\ i \in Indices /\ Slot(s, f, i) # 0 => g.err = "ok" /\ Still(s, g.fs)
                    /\ g.err = "ok" => /\ Reached(g.fs, f, i) /\ i \in Indices /\ g.r \in Blocks
                                       /\ g.r = Slot(g.fs, f, i)
                                       /\ g.fs.cache[g.r] # Unmapped
  OBVIOUS
<1>1. m.err \notin Stops =>
           /\ Adds(s, m.fs, f, Spots(i))
           /\ i \in Indices /\ Slot(s, f, i) # 0 => Still(s, m.fs)
           /\ i \in Indices /\ Slot(s, f, i) # 0 => m.err = "ok"
           /\ m.err = "ok" => i \in Indices /\ m.r \in Blocks /\ m.r = Slot(m.fs, f, i) /\ Reached(m.fs, f, i)
  BY MapExact
<1>2. Sound(g.fs) /\ Typed(s) /\ f \in Where
  BY GetFileBlock DEF Good, Ready, Sound
<1>3. g = IF m.err # "ok" THEN m ELSE read_block(m.fs, m.r)
  BY DEF file_get_block, Then
<1> HIDE DEF g, m
<1>4. CASE m.err # "ok"
  BY <1>1, <1>3, <1>4 DEF g
<1>5. CASE m.err = "ok"
  <2>1. /\ Adds(s, m.fs, f, Spots(i)) /\ Ready(m.fs, f) /\ Typed(m.fs) /\ Clean(m.fs) /\ Sound(m.fs)
        /\ i \in Indices /\ m.r \in Blocks /\ m.r = Slot(m.fs, f, i) /\ Reached(m.fs, f, i)
    BY <1>1, <1>5 DEF Stops, Adds, Ready, Sound
  <2>2. i \in Slots /\ m.r \notin m.fs.free
    BY <1>2, <2>1, Numbers DEF Sound, NotFree
  <2>3. g = read_block(m.fs, m.r)
    BY <1>3, <1>5
  <2>4. Still(m.fs, g.fs) /\ g.err = "ok" /\ g.r = m.r /\ g.fs.cache[g.r] # Unmapped
    BY <2>1, <2>2, <2>3, ReadStill
  <2>5. Adds(m.fs, g.fs, f, {})
    <3>1. Sound(g.fs)
      BY <1>2 DEF g
    <3> QED BY <2>1, <2>4, <3>1, AddsStill
  <2>6. Adds(s, g.fs, f, Spots(i))
    BY <1>2, <2>1, <2>5, AddsTrans
  <2>7. Slot(s, f, i) # 0 => Still(s, g.fs)
    BY <1>1, <1>5, <2>1, <2>4, StillOf DEF Stops
  <2>8. Reached(g.fs, f, i)
    BY <2>1, <2>5, AddsReached
  <2> QED BY <2>1, <2>4, <2>6, <2>7, <2>8, StillIs DEF g
<1> QED BY <1>4, <1>5

LEMMA DirExact ==
  ASSUME NEW s, NEW d, Ready(s, d), NEW i \in Nat
  PROVE  LET g == dir_block(s, d, i) IN
         g.err \notin Stops =>
           /\ Adds(s, g.fs, d, Spots(i))
           /\ g.err = "ok" => /\ i \in Indices /\ g.r \in Blocks /\ g.r = Slot(g.fs, d, i)
                              /\ g.fs.cache[g.r].kind \in {"zero", "dir"}
<1> DEFINE h == dir_block(s, d, i)
           g == file_get_block(s, d, i)
<1> SUFFICES ASSUME h.err \notin Stops
             PROVE  /\ Adds(s, h.fs, d, Spots(i))
                    /\ h.err = "ok" => /\ i \in Indices /\ h.r \in Blocks /\ h.r = Slot(h.fs, d, i)
                                       /\ h.fs.cache[h.r].kind \in {"zero", "dir"}
  OBVIOUS
<1>1. h = g /\ (g.err = "ok" => g.fs.cache[g.r].kind \in {"zero", "dir"})
  BY Results DEF dir_block, Then, Stops
<1>2. g.err \notin Stops =>
           /\ Adds(s, g.fs, d, Spots(i))
           /\ g.err = "ok" => i \in Indices /\ g.r \in Blocks /\ g.r = Slot(g.fs, d, i)
  BY GetExact
<1> QED BY <1>1, <1>2

-----------------------------------------------------------------------------
(* Blocks that a File gives back.                                           *)

(* The slots of a File of n blocks. *)
Room(n) == {i \in Indices : i < n} \cup {i \in {NINDIRECT} : n > NDIRECT}

Cuts(s, t, f, I) ==
  /\ Ready(t, f) /\ Remembers(s, t) /\ SameName(s, t, f) /\ Pages(s, t)
  /\ \A p \in Where : p # f => Alike(s, t, p)
  /\ \A i \in Slots : Slot(t, f, i) = IF i \in I THEN 0 ELSE Slot(s, f, i)
  /\ \A b \in Blocks : b \in t.free <=> b \in s.free \/ \E i \in I \cap Slots : Slot(s, f, i) = b

LEMMA Shrunk ==
  ASSUME NEW s, NEW t, NEW f, NEW I, Cuts(s, t, f, I)
  PROVE  \A p \in InBlocks : Backed(t, p) => Backed(s, p)
<1>1. ASSUME NEW p \in Where PROVE Has(t, p) \subseteq Has(s, p)
  <2>1. CASE p = f
    <3>1. \A i \in Indices : i \in Slots
      BY Numbers
    <3> QED BY <2>1, <3>1 DEF Cuts, Has
  <2>2. CASE p # f
    BY <2>2, AlikeHas DEF Cuts
  <2> QED BY <2>1, <2>2
<1> QED BY <1>1 DEF Backed, Where

LEMMA CutsTrans ==
  ASSUME NEW s, NEW t, NEW u, NEW f, NEW I, NEW K, Cuts(s, t, f, I), Cuts(t, u, f, K)
  PROVE  Cuts(s, u, f, I \cup K)
<1>1. Ready(u, f) /\ Remembers(s, u) /\ SameName(s, u, f)
  BY DEF Cuts, Remembers, SameName
<1>2. Pages(s, u)
  BY Shrunk DEF Cuts, Pages
<1>3. \A p \in Where : p # f => Alike(s, u, p)
  BY DEF Cuts, Alike
<1>4. \A i \in Slots : Slot(u, f, i) = IF i \in I \cup K THEN 0 ELSE Slot(s, f, i)
  BY DEF Cuts
<1>5. ASSUME NEW b \in Blocks
      PROVE  b \in u.free <=> b \in s.free \/ \E i \in (I \cup K) \cap Slots : Slot(s, f, i) = b
  <2>1. b # 0
    BY Numbers
  <2>2. b \in u.free <=> b \in t.free \/ \E i \in K \cap Slots : Slot(t, f, i) = b
    BY DEF Cuts
  <2>3. b \in t.free <=> b \in s.free \/ \E i \in I \cap Slots : Slot(s, f, i) = b
    BY DEF Cuts
  <2>4. \A i \in K \cap Slots : Slot(t, f, i) = b <=> i \notin I /\ Slot(s, f, i) = b
    BY <2>1 DEF Cuts
  <2> QED BY <2>2, <2>3, <2>4
<1> QED BY <1>1, <1>2, <1>3, <1>4, <1>5 DEF Cuts

LEMMA CutsStill ==
  ASSUME NEW s, NEW t, NEW f, Ready(s, f), Still(s, t), Sound(t), NEW I,
         \A i \in I \cap Slots : Slot(s, f, i) = 0
  PROVE  Cuts(s, t, f, I)
<1>1. Adds(s, t, f, {})
  BY AddsStill
<1>2. \A i \in Slots : Slot(t, f, i) = IF i \in I THEN 0 ELSE Slot(s, f, i)
  BY StillIs
<1>3. \A b \in Blocks : b \in t.free <=> b \in s.free \/ \E i \in I \cap Slots : Slot(s, f, i) = b
  BY Numbers DEF Still
<1> QED BY <1>1, <1>2, <1>3, StillIs DEF Cuts, Adds, Pages

LEMMA Commutes ==
  ASSUME NEW s, Typed(s), NEW b \in Blocks, NEW f
  PROVE  /\ \A x : Put(free_block(s, b), f, x) = free_block(Put(s, f, x), b)
         /\ \A i : SetPtr(free_block(s, b), f, i, 0) = free_block(SetPtr(s, f, i, 0), b)
<1> DEFINE u == [s EXCEPT !.free = @ \cup {b}]
<1>1. \A t : free_block(t, b) = [t EXCEPT !.free = @ \cup {b}]
  BY Numbers DEF free_block, Blocks
<1>2. u.cache = s.cache /\ u.root = s.root
  BY DEF Typed
<1>3. \A r : [u EXCEPT !.root = r] = [[s EXCEPT !.root = r] EXCEPT !.free = @ \cup {b}]
  BY DEF Typed
<1>4. \A c : [u EXCEPT !.cache = c] = [[s EXCEPT !.cache = c] EXCEPT !.free = @ \cup {b}]
  BY DEF Typed
<1>5. \A k, c : [u EXCEPT !.cache[k] = c] = [[s EXCEPT !.cache[k] = c] EXCEPT !.free = @ \cup {b}]
  <2> SUFFICES ASSUME NEW k, NEW c
               PROVE [u EXCEPT !.cache[k] = c] = [[s EXCEPT !.cache[k] = c] EXCEPT !.free = @ \cup {b}]
    OBVIOUS
  <2>1. /\ [u EXCEPT !.cache[k] = c] = [u EXCEPT !.cache = [s.cache EXCEPT ![k] = c]]
        /\ [s EXCEPT !.cache[k] = c] = [s EXCEPT !.cache = [s.cache EXCEPT ![k] = c]]
    BY <1>2
  <2> QED BY <1>4, <2>1
<1>6. free_block(s, b) = u
  BY <1>1
<1> HIDE DEF u
<1>7. \A x : Put(u, f, x) = free_block(Put(s, f, x), b)
  <2> SUFFICES ASSUME NEW x PROVE Put(u, f, x) = free_block(Put(s, f, x), b)
    OBVIOUS
  <2>1. CASE f = Root
    <3>1. Put(u, f, x) = [u EXCEPT !.root = x] /\ Put(s, f, x) = [s EXCEPT !.root = x]
      BY <2>1 DEF Put
    <3> QED BY <1>1, <1>3, <3>1
  <2>2. CASE f # Root
    <3> DEFINE c == DirBlock([Entries(s.cache[f.blk]) EXCEPT ![f.idx] = x])
    <3>1. Put(u, f, x) = [u EXCEPT !.cache[f.blk] = c] /\ Put(s, f, x) = [s EXCEPT !.cache[f.blk] = c]
      BY <1>2, <2>2 DEF Put
    <3> HIDE DEF c
    <3> DEFINE z == [s EXCEPT !.cache[f.blk] = c]
    <3>2. [u EXCEPT !.cache[f.blk] = c] = [z EXCEPT !.free = @ \cup {b}]
      BY <1>5
    <3> HIDE DEF z
    <3>3. free_block(z, b) = [z EXCEPT !.free = @ \cup {b}]
      BY <1>1
    <3> QED BY <3>1, <3>2, <3>3 DEF z
  <2> QED BY <2>1, <2>2
<1>8. Get(u, f) = Get(s, f)
  BY <1>2 DEF Get
<1>9. \A i : SetPtr(u, f, i, 0) = free_block(SetPtr(s, f, i, 0), b)
  <2> SUFFICES ASSUME NEW i PROVE SetPtr(u, f, i, 0) = free_block(SetPtr(s, f, i, 0), b)
    OBVIOUS
  <2>1. CASE i < NDIRECT
    BY <1>7, <1>8, <2>1 DEF SetPtr
  <2>2. CASE ~(i < NDIRECT)
    <3> DEFINE n == Get(s, f).indirect
               c == PtrBlock([Pointers(s.cache[n]) EXCEPT ![i] = 0])
    <3>1. SetPtr(u, f, i, 0) = [u EXCEPT !.cache[n] = c] /\ SetPtr(s, f, i, 0) = [s EXCEPT !.cache[n] = c]
      BY <1>2, <1>8, <2>2 DEF SetPtr
    <3> HIDE DEF n, c
    <3> DEFINE z == [s EXCEPT !.cache[n] = c]
    <3>2. [u EXCEPT !.cache[n] = c] = [z EXCEPT !.free = @ \cup {b}]
      BY <1>5
    <3> HIDE DEF z
    <3>3. free_block(z, b) = [z EXCEPT !.free = @ \cup {b}]
      BY <1>1
    <3> QED BY <3>1, <3>2, <3>3 DEF z
  <2> QED BY <2>1, <2>2
<1> QED BY <1>6, <1>7, <1>9

(* A slot is cleared and its block given back. *)
LEMMA CutSlot ==
  ASSUME NEW s, NEW f, Ready(s, f), NEW i \in Slots, NEW u, Edits(s, u, f), SameName(s, u, f),
         NEW I, i \in I, \A k \in Slots : Slot(u, f, k) = IF k \in I THEN 0 ELSE Slot(s, f, k),
         \A k \in I \cap Slots : k = i \/ Slot(s, f, k) = 0,
         Slot(s, f, i) # 0, Sound(free_block(u, Slot(s, f, i)))
  PROVE  Cuts(s, free_block(u, Slot(s, f, i)), f, I) /\
         Size(free_block(u, Slot(s, f, i)), f) = Size(u, f)
<1> DEFINE b == Slot(s, f, i)
           t == free_block(u, b)
<1>1. b \in Blocks /\ Typed(u) /\ f \in Where
  BY SlotIs DEF Ready, Sound, Edits
<1> HIDE DEF b
<1>2. /\ t.free = u.free \cup {b} /\ (Clean(u) => Clean(t)) /\ t.cache = u.cache
      /\ \A p : FileAt(t, p) = FileAt(u, p) /\ Has(t, p) = Has(u, p)
      /\ \A p, k : Slot(t, p, k) = Slot(u, p, k)
  BY <1>1, FreeExact
<1>3. Sound(t)
  BY DEF b
<1> HIDE DEF t
<1>4. \A p \in Where : (Alike(s, u, p) => Alike(s, t, p)) /\ (Backed(t, p) <=> Backed(u, p))
  BY <1>2 DEF Alike, Name, Type, Size, Backed
<1>5. \A p \in Where : FilePage(t, p) <=> FilePage(u, p)
  BY <1>2, <1>4 DEF FilePage
<1>6. Ready(t, f) /\ Remembers(s, t) /\ Pages(s, t)
  BY <1>1, <1>2, <1>3, <1>4, <1>5 DEF Ready, Edits, Remembers, Pages, Where
<1>7. SameName(s, t, f) /\ Size(t, f) = Size(u, f)
  BY <1>2 DEF SameName, Name, Type, Size
<1>8. \A p \in Where : p # f => Alike(s, t, p)
  BY <1>4 DEF Edits
<1>9. \A k \in Slots : Slot(t, f, k) = IF k \in I THEN 0 ELSE Slot(s, f, k)
  BY <1>2
<1>10. ASSUME NEW c \in Blocks
       PROVE  c \in t.free <=> c \in s.free \/ \E k \in I \cap Slots : Slot(s, f, k) = c
  <2>1. c # 0 /\ (c \in t.free <=> c \in s.free \/ c = b)
    BY <1>2, Numbers DEF Edits
  <2>2. c = b <=> \E k \in I \cap Slots : Slot(s, f, k) = c
    BY <2>1 DEF b
  <2> QED BY <2>1, <2>2
<1>11. Cuts(s, t, f, I)
  BY <1>6, <1>7, <1>8, <1>9, <1>10 DEF Cuts
<1> QED BY <1>7, <1>11 DEF t, b

LEMMA ClearExact ==
  ASSUME NEW s, NEW f, Ready(s, f), NEW i \in Nat
  PROVE  LET c == file_clear_block(s, f, i) IN
         c.err = "ok" => Cuts(s, c.fs, f, {i}) /\ Size(c.fs, f) = Size(s, f) /\ i \in Indices
<1> DEFINE c == file_clear_block(s, f, i)
           w == file_block_walk(s, f, i, FALSE)
           b == PtrOf(w.fs.cache, Get(w.fs, f), i)
           u == free_block(w.fs, b)
           t == SetPtr(u, f, i, 0)
<1> SUFFICES ASSUME c.err = "ok"
             PROVE  Cuts(s, c.fs, f, {i}) /\ Size(c.fs, f) = Size(s, f) /\ i \in Indices
  OBVIOUS
<1>1. c = IF w.err # "ok" THEN w ELSE IF b = 0 THEN Ok(w.fs, 0) ELSE Ok(t, 0)
  BY DEF file_clear_block, Then
<1>2. Sound(c.fs) /\ Sound(s) /\ Typed(s) /\ f \in Where
  BY ClearFileBlock DEF Good, Ready, Sound, Stops
<1>3. w.err = "ok"
  BY <1>1
<1>4. Still(s, w.fs) /\ Adds(s, w.fs, f, Spots(i)) /\ Reached(w.fs, f, i)
  BY <1>3, WalkExact DEF Stops
<1> HIDE DEF c, w
<1>5. Ready(w.fs, f) /\ Typed(w.fs) /\ i \in Indices /\ i \in Slots /\ Sound(w.fs)
  BY <1>4, Numbers DEF Adds, Ready, Sound, Reached
<1>6. b = Slot(w.fs, f, i) /\ b = Slot(s, f, i) /\ b \in Blocks \cup {0}
  BY <1>2, <1>4, <1>5, PtrIs, StillIs, SlotIs
<1>7. Cuts(s, w.fs, f, {}) /\ Size(w.fs, f) = Size(s, f)
  BY <1>4, <1>5, CutsStill DEF Adds
<1> HIDE DEF b
<1>8. CASE b = 0
  <2>1. c.fs = w.fs
    BY <1>1, <1>3, <1>8, Results
  <2> QED BY <1>4, <1>5, <1>6, <1>7, <1>8, <2>1, CutsStill DEF c
<1>9. CASE b # 0
  <2> DEFINE v == SetPtr(w.fs, f, i, 0)
  <2>1. b \in Blocks
    BY <1>6, <1>9
  <2>2. c.fs = t /\ t = free_block(v, b)
    BY <1>1, <1>3, <1>5, <1>9, <2>1, Commutes, Results
  <2>3. Assigns(w.fs, v, f, i, 0)
    BY <1>4, <1>5, SetPtrExact DEF Reached
  <2> HIDE DEF v, t
  <2>4. \A k \in Slots : Slot(v, f, k) = IF k \in {i} THEN 0 ELSE Slot(w.fs, f, k)
    BY <2>3 DEF Assigns
  <2>5. Sound(free_block(v, b))
    BY <1>2, <2>2 DEF c
  <2>6. Cuts(w.fs, free_block(v, b), f, {i}) /\ Size(free_block(v, b), f) = Size(v, f)
    <3>1. Edits(w.fs, v, f) /\ SameName(w.fs, v, f) /\ i \in {i}
      BY <2>3 DEF Assigns
    <3>2. Slot(w.fs, f, i) # 0 /\ Sound(free_block(v, Slot(w.fs, f, i)))
      BY <1>6, <1>9, <2>5
    <3>3. /\ Cuts(w.fs, free_block(v, Slot(w.fs, f, i)), f, {i})
          /\ Size(free_block(v, Slot(w.fs, f, i)), f) = Size(v, f)
      BY <1>5, <2>4, <3>1, <3>2, CutSlot
    <3> QED BY <1>6, <3>3
  <2>7. Cuts(s, c.fs, f, {} \cup {i})
    BY <1>7, <2>2, <2>6, CutsTrans
  <2>8. {} \cup {i} = {i}
    OBVIOUS
  <2> QED BY <1>5, <1>7, <2>2, <2>3, <2>6, <2>7, <2>8 DEF c, Assigns
<1> QED BY <1>8, <1>9

LEMMA ClearLoop ==
  ASSUME NEW s, NEW f, NEW from \in Nat, NEW to \in Nat
  PROVE  \E g : /\ clear_blocks(s, f, from, to) = g[to]
                /\ \A i \in 0..to :
                     LET c == file_clear_block(g[i - 1].fs, f, i - 1) IN
                     g[i] = IF i <= from THEN Ok(s, 0)
                            ELSE IF g[i - 1].err # "ok" THEN g[i - 1]
                            ELSE IF c.err # "ok" THEN Fail(c.fs, "panic") ELSE c
<1> DEFINE one(t, i) == file_clear_block(t.fs, f, i)
           step(x, i) == IF x.err # "ok" THEN x
                         ELSE IF one(x, i - 1).err # "ok" THEN Fail(one(x, i - 1).fs, "panic")
                         ELSE one(x, i - 1)
           Loop(g, n) == g = [i \in 0..n |-> IF i <= from THEN Ok(s, 0) ELSE step(g[i - 1], i)]
           g0 == CHOOSE g : Loop(g, to)
<1>1. clear_blocks(s, f, from, to) = g0[to]
  BY DEF clear_blocks, Then
<1> HIDE DEF step
<1>2. \E g : Loop(g, to)
  <2> DEFINE S == {n \in Nat : \E g : Loop(g, n)}
  <2>1. 0 \in S
    <3>1. Loop([i \in {0} |-> Ok(s, 0)], 0)
      OBVIOUS
    <3> QED BY <3>1
  <2>2. ASSUME NEW n \in 1..to, n - 1 \in S PROVE n \in S
    <3>1. PICK g : Loop(g, n - 1)
      BY <2>2
    <3> DEFINE h == [i \in 0..n |-> IF i # n THEN g[i] ELSE IF n <= from THEN Ok(s, 0)
                                    ELSE step(g[n - 1], n)]
    <3>2. ASSUME NEW i \in 0..n
          PROVE  h[i] = IF i <= from THEN Ok(s, 0) ELSE step(h[i - 1], i)
      BY <3>1
    <3>3. Loop(h, n)
      BY <3>2
    <3> HIDE DEF h
    <3> QED BY <3>3
  <2> HIDE DEF S
  <2>3. to \in S
    BY <2>1, <2>2, Upto
  <2> QED BY <2>3 DEF S
<1>3. Loop(g0, to)
  BY <1>2
<1> HIDE DEF g0
<1>4. \A i \in 0..to : g0[i] = IF i <= from THEN Ok(s, 0) ELSE step(g0[i - 1], i)
  BY <1>3
<1> QED BY <1>1, <1>4 DEF step

Span(n, m) == {k \in Indices : n <= k /\ k < m}

LEMMA ClearBlocksExact ==
  ASSUME NEW s, NEW f, Ready(s, f), NEW from \in Nat, NEW to \in Nat
  PROVE  LET c == clear_blocks(s, f, from, to) IN
         /\ c.err = "ok" => Cuts(s, c.fs, f, Span(from, to)) /\ Size(c.fs, f) = Size(s, f)
         /\ c.err # "ok" => c.err \in Stops
<1> DEFINE Fine(x, i) ==
      /\ x.err = "ok" => Cuts(s, x.fs, f, Span(from, i)) /\ Size(x.fs, f) = Size(s, f)
      /\ x.err # "ok" => x.err \in Stops
<1>1. PICK g : /\ clear_blocks(s, f, from, to) = g[to]
               /\ \A i \in 0..to :
                     LET c == file_clear_block(g[i - 1].fs, f, i - 1) IN
                     g[i] = IF i <= from THEN Ok(s, 0)
                            ELSE IF g[i - 1].err # "ok" THEN g[i - 1]
                            ELSE IF c.err # "ok" THEN Fail(c.fs, "panic") ELSE c
  BY ClearLoop
<1>2. ASSUME NEW i \in 0..to, i <= from PROVE Fine(g[i], i)
  <2>1. g[i].fs = s /\ g[i].err = "ok"
    BY <1>1, <1>2, Results
  <2>2. Span(from, i) = {}
    BY <1>2 DEF Span, Indices
  <2>3. Cuts(s, s, f, {})
    BY StillOf, CutsStill DEF Ready, Sound
  <2> QED BY <2>1, <2>2, <2>3
<1> DEFINE S == {i \in 0..to : Fine(g[i], i)}
<1>3. 0 \in S
  BY <1>2
<1>4. ASSUME NEW i \in 1..to, i - 1 \in S PROVE i \in S
  <2>1. CASE i <= from
    BY <1>2, <2>1
  <2>2. CASE ~(i <= from)
    <3> DEFINE x == g[i - 1]
               c == file_clear_block(x.fs, f, i - 1)
    <3>1. i - 1 \in Nat /\ Fine(x, i - 1) /\ g[i] = IF x.err # "ok" THEN x
                  ELSE IF c.err # "ok" THEN Fail(c.fs, "panic") ELSE c
      BY <1>1, <1>4, <2>2
    <3>2. CASE x.err # "ok"
      BY <3>1, <3>2
    <3>3. CASE x.err = "ok" /\ c.err # "ok"
      <4>1. g[i].err = "panic"
        BY <3>1, <3>3, Results
      <4> QED BY <4>1 DEF Stops
    <3>4. CASE x.err = "ok" /\ c.err = "ok"
      <4>1. Cuts(s, x.fs, f, Span(from, i - 1)) /\ Size(x.fs, f) = Size(s, f) /\ Ready(x.fs, f)
        BY <3>1, <3>4 DEF Cuts
      <4>2. Cuts(x.fs, c.fs, f, {i - 1}) /\ Size(c.fs, f) = Size(x.fs, f) /\ i - 1 \in Indices
        BY <3>1, <3>4, <4>1, ClearExact
      <4>3. Span(from, i - 1) \cup {i - 1} = Span(from, i)
        BY <2>2, <4>2 DEF Span, Indices
      <4>4. g[i] = c
        BY <3>1, <3>4
      <4> HIDE DEF c
      <4>5. Cuts(s, c.fs, f, Span(from, i))
        BY <4>1, <4>2, <4>3, CutsTrans
      <4> QED BY <3>4, <4>1, <4>2, <4>4, <4>5
    <3> QED BY <3>2, <3>3, <3>4
  <2> QED BY <2>1, <2>2
<1> HIDE DEF S
<1>5. to \in S
  BY <1>3, <1>4, Upto
<1> QED BY <1>1, <1>5 DEF S

-----------------------------------------------------------------------------
(* Sizes, and what is written to the disk.                                  *)

LEMMA CutsEdits ==
  ASSUME NEW s, NEW t, NEW f \in Where, Edits(s, t, f), SameName(s, t, f), Sound(t), NEW I,
         \A i \in Slots : Slot(t, f, i) = Slot(s, f, i), \A i \in I \cap Slots : Slot(s, f, i) = 0
  PROVE  Cuts(s, t, f, I)
<1>1. Ready(t, f)
  BY DEF Edits, Ready
<1>2. \A b \in Blocks : b \in t.free <=> b \in s.free \/ \E i \in I \cap Slots : Slot(s, f, i) = b
  BY Numbers DEF Edits
<1> QED BY <1>1, <1>2 DEF Cuts, Edits

FitsAt(s, p) == \A i \in Slots : Slot(s, p, i) # 0 => i \in Room(Nblocks(Size(s, p)))

LEMMA TruncateExact ==
  ASSUME NEW s, NEW f, Ready(s, f), FitsAt(s, f), NEW n \in Nat, Nblocks(n) <= Nblocks(Size(s, f))
  PROVE  LET t == file_truncate(s, f, n) IN
         /\ t.err = "ok" => Cuts(s, t.fs, f, Slots \ Room(Nblocks(n))) /\ Size(t.fs, f) = n
         /\ t.err # "ok" => t.err \in Stops
<1> DEFINE t == file_truncate(s, f, n)
           new == Nblocks(n)
           old == Nblocks(Get(s, f).size)
           c == clear_blocks(s, f, new, old)
           u == c.fs
           x == Get(u, f)
           b == x.indirect
           y == [x EXCEPT !.indirect = 0, !.size = n]
           z == [x EXCEPT !.size = n]
           I == Slots \ Room(new)
<1>1. /\ Get(s, f) = FileAt(s, f) /\ Get(s, f).size \in Nat /\ old = Nblocks(Size(s, f))
      /\ new \in Nat /\ old \in Nat /\ Typed(s)
  BY ReadyGet, FileFields, NblocksNat DEF Size
<1>2. t = IF c.err # "ok" THEN c
          ELSE Ok(IF new <= NDIRECT /\ b # 0 THEN Put(free_block(u, b), f, y) ELSE Put(u, f, z), 0)
  BY DEF file_truncate, Then
<1>3. /\ c.err = "ok" => Cuts(s, u, f, Span(new, old)) /\ Size(u, f) = Size(s, f)
      /\ c.err # "ok" => c.err \in Stops
  BY <1>1, ClearBlocksExact
<1>4. t.err = "ok" => Sound(t.fs)
  BY Truncate DEF Ready, Good, Stops
<1> HIDE DEF c
<1>5. CASE c.err # "ok"
  BY <1>2, <1>3, <1>5
<1>6. CASE c.err = "ok"
  <2>1. t.err = "ok" /\ t.fs = IF new <= NDIRECT /\ b # 0 THEN Put(free_block(u, b), f, y)
                              ELSE Put(u, f, z)
    BY <1>2, <1>6, Results
  <2>2. Cuts(s, u, f, Span(new, old)) /\ Size(u, f) = Size(s, f) /\ Ready(u, f)
    BY <1>3, <1>6 DEF Cuts
  <2>3. /\ x \in File /\ x = FileAt(u, f) /\ b = Slot(u, f, NINDIRECT) /\ b \in Blocks \cup {0}
        /\ Typed(u) /\ f \in Where
    BY <2>2, ReadyGet, IndirectUsed DEF Ready
  <2> HIDE DEF t, u, x, b, new, old
  <2>4. /\ Span(new, old) \subseteq I /\ \A i \in I : i # NINDIRECT => Slot(u, f, i) = 0
        /\ NINDIRECT \in I <=> new <= NDIRECT
        /\ \A i \in Indices : i < NDIRECT => i \in Directs
        /\ \A i \in Indices : new <= NDIRECT /\ ~(i < NDIRECT) => i \in I
    <3>1. /\ \A i \in Slots : i \in Nat /\ (i # NINDIRECT => i \in Indices)
          /\ NDIRECT \in Nat /\ NINDIRECT \in Nat /\ NINDIRECT \notin Indices /\ NINDIRECT \in Slots
          /\ Indices \subseteq Slots /\ \A i \in Indices : i < NDIRECT => i \in Directs
      BY Numbers DEF Slots, Indices, Directs
    <3>2. ASSUME NEW i \in I, i # NINDIRECT PROVE Slot(u, f, i) = 0
      <4>1. i \in Indices /\ ~(i < new) /\ i \in Slots
        BY <1>1, <3>1, <3>2 DEF Room
      <4>2. Slot(s, f, i) # 0 => i < old
        BY <1>1, <3>1, <4>1 DEF FitsAt, Room
      <4> QED BY <1>1, <2>2, <3>1, <4>1, <4>2 DEF Cuts, Span
    <3>3. Span(new, old) \subseteq I
      BY <1>1, <3>1 DEF Span, Room, Indices
    <3>4. NINDIRECT \in I <=> new <= NDIRECT
      BY <1>1, <3>1 DEF Room
    <3>5. \A i \in Indices : new <= NDIRECT /\ ~(i < NDIRECT) => i \in I
      BY <1>1, <3>1 DEF Room
    <3> QED BY <3>1, <3>2, <3>3, <3>4, <3>5
  <2> HIDE DEF I
  <2>5. Cuts(u, t.fs, f, I) /\ Size(t.fs, f) = n
    <3>1. CASE new <= NDIRECT /\ b # 0
      <4> DEFINE v == Put(u, f, y)
      <4>1. b \in Blocks /\ t.fs = free_block(v, b)
        BY <2>1, <2>3, <3>1, Commutes
      <4>2. /\ y \in File /\ y.indirect = 0 /\ y.size = n /\ y.name = x.name /\ y.type = x.type
            /\ \A i \in Directs : y.direct[i] = x.direct[i]
        BY <2>3 DEF File
      <4> HIDE DEF y
      <4>3. /\ Edits(u, v, f) /\ FileAt(v, f) = y /\ Slot(v, f, NINDIRECT) = 0
            /\ \A i \in Indices : Slot(v, f, i) = PtrOf(Memory(u), y, i)
        BY <2>2, <4>2, PutExact
      <4> HIDE DEF v
      <4>4. SameName(u, v, f) /\ Size(v, f) = n
        BY <2>3, <4>2, <4>3 DEF SameName, Name, Type, Size
      <4>5. ASSUME NEW k \in Slots PROVE Slot(v, f, k) = IF k \in I THEN 0 ELSE Slot(u, f, k)
        <5>1. CASE k = NINDIRECT
          BY <2>4, <3>1, <4>3, <5>1
        <5>2. CASE k # NINDIRECT
          <6>1. k \in Indices /\ Slot(u, f, k) = PtrOf(Memory(u), x, k)
            BY <2>3, <5>2, SlotIs
          <6> QED BY <2>4, <3>1, <4>2, <4>3, <5>2, <6>1 DEF PtrOf
        <5> QED BY <5>1, <5>2
      <4>6. \A k \in I \cap Slots : k = NINDIRECT \/ Slot(u, f, k) = 0
        BY <2>4
      <4>7. Sound(free_block(v, b))
        BY <1>4, <2>1, <4>1
      <4>8. /\ Cuts(u, free_block(v, Slot(u, f, NINDIRECT)), f, I)
            /\ Size(free_block(v, Slot(u, f, NINDIRECT)), f) = Size(v, f)
        <5>1. NINDIRECT \in Slots /\ NINDIRECT \in I
          BY <2>4, <3>1, Numbers
        <5> QED BY <2>2, <2>3, <3>1, <4>3, <4>4, <4>5, <4>6, <4>7, <5>1, CutSlot
      <4> QED BY <2>3, <4>1, <4>4, <4>8
    <3>2. CASE ~(new <= NDIRECT /\ b # 0)
      <4>1. t.fs = Put(u, f, z)
        BY <2>1, <3>2
      <4>2. /\ z \in File /\ z.indirect = x.indirect /\ z.direct = x.direct /\ z.size = n
            /\ z.name = x.name /\ z.type = x.type
        BY <2>3 DEF File
      <4> HIDE DEF z
      <4>3. /\ Edits(u, t.fs, f) /\ FileAt(t.fs, f) = z
            /\ \A i \in Slots : Slot(t.fs, f, i) = Slot(u, f, i)
        BY <2>2, <4>1, <4>2, PutSame DEF x
      <4>4. SameName(u, t.fs, f) /\ Size(t.fs, f) = n
        BY <2>3, <4>2, <4>3 DEF SameName, Name, Type, Size
      <4>5. \A i \in I \cap Slots : Slot(u, f, i) = 0
        BY <2>3, <2>4, <3>2
      <4> QED BY <1>4, <2>1, <2>3, <4>3, <4>4, <4>5, CutsEdits
    <3> QED BY <3>1, <3>2
  <2>6. Span(new, old) \cup I = I
    BY <2>4
  <2>7. Cuts(s, t.fs, f, I)
    BY <2>2, <2>5, <2>6, CutsTrans
  <2> QED BY <2>1, <2>5, <2>7 DEF t, I, new
<1> QED BY <1>5, <1>6

LEMMA WalkedStill ==
  ASSUME NEW s, Typed(s), Clean(s), NEW x \in File, NEW n
  PROVE  Still(s, walked(s, x, n)) /\ Typed(walked(s, x, n)) /\ Clean(walked(s, x, n))
<1>1. Still(s, walked(s, x, n))
  <2>1. CASE n > NDIRECT /\ x.indirect # 0
    <3>1. x.indirect \in Blocks
      BY <2>1, FileFields
    <3> QED BY <2>1, <3>1, ReadStill DEF walked
  <2>2. CASE ~(n > NDIRECT /\ x.indirect # 0)
    BY <2>2, StillOf DEF walked
  <2> QED BY <2>1, <2>2
<1> QED BY <1>1 DEF Still

LEMMA FlushStill ==
  ASSUME NEW s, Typed(s), Clean(s), NEW f \in Where
  PROVE  Still(s, file_flush(s, f))
<1> DEFINE x == Get(s, f)
           t == walked(s, x, Nblocks(x.size))
           B == t.dirty \cap {PtrOf(t.cache, x, i) : i \in 0..(Min({Nblocks(x.size), NINDIRECT}) - 1)}
<1>1. Still(s, t) /\ Typed(t) /\ Clean(t)
  BY GetIs, WalkedStill
<1>2. file_flush(s, f) = write_blocks(t, B)
  BY DEF file_flush
<1>3. B \subseteq t.dirty
  OBVIOUS
<1> HIDE DEF t, B
<1>4. Still(t, write_blocks(t, B))
  BY <1>1, <1>3, WriteStill
<1> QED BY <1>1, <1>2, <1>4, StillOf

LEMMA FlushDirStill ==
  ASSUME NEW s, Typed(s), Clean(s), NEW d \in Positions
  PROVE  Still(s, flush_dir(s, d))
<1>1. d = Nil \/ d \in Where
  BY Places
<1> QED BY <1>1, FlushStill, StillOf DEF flush_dir

LEMMA CloseStill ==
  ASSUME NEW s, Sound(s), Clean(s), NEW f \in InBlocks
  PROVE  Still(s, file_close(s, f))
<1> DEFINE c == file_close(s, f)
           d == Get(s, f).dir
           t0 == file_flush(s, f)
           x == Get(t0, d)
           n == Min({x.size \div BLOCK_SIZE, NINDIRECT})
           t == walked(t0, x, n)
           own == \E i \in 0..(n - 1) : /\ PtrOf(t.cache, x, i) = f.blk
                                        /\ \A j \in 0..(i - 1) : PtrOf(t.cache, x, j) # 0
           u == IF own THEN dirty_block(t, f.blk) ELSE t
<1>1. c = IF d = Nil THEN t0 ELSE file_flush(u, d)
  BY DEF file_close
<1>2. Typed(t0) /\ Still(s, t0) /\ Clean(t0)
  <2>1. Still(s, t0)
    BY SoundIs, FlushStill DEF Where
  <2> QED BY <2>1 DEF Still
<1>3. d \in {Nil} \cup Where
  <2>1. f \in Where
    BY DEF Where
  <2> QED BY <2>1, SoundIs, GetIs, FileFields, Places
<1> HIDE DEF c, t0, d
<1>4. CASE d = Nil
  BY <1>1, <1>2, <1>4 DEF c
<1>5. CASE d # Nil
  <2>1. x \in File /\ d \in Where
    BY <1>2, <1>3, <1>5, GetIs
  <2> HIDE DEF x, n
  <2>2. Typed(t) /\ Still(s, t) /\ Clean(t)
    BY <1>2, <2>1, WalkedStill, StillOf
  <2> HIDE DEF t, own
  <2>3. Still(t, u)
    <3>1. f.blk \in Blocks
      BY Places
    <3> QED BY <2>2, <3>1, DirtyStill, StillOf
  <2>4. Still(s, u) /\ Typed(u) /\ Clean(u)
    BY <2>2, <2>3, StillOf DEF Still
  <2> HIDE DEF u
  <2>5. Still(u, file_flush(u, d))
    BY <2>1, <2>4, FlushStill
  <2> QED BY <1>1, <1>5, <2>4, <2>5, StillOf DEF c
<1> QED BY <1>4, <1>5

(* Blocks that are marked dirty. *)
LEMMA DirtyFileStill ==
  ASSUME NEW s, NEW f, Ready(s, f), NEW i \in Nat
  PROVE  LET c == file_dirty(s, f, i) IN c.err \notin Stops => Still(s, c.fs) /\ Ready(c.fs, f)
<1> DEFINE c == file_dirty(s, f, i)
           m == file_map_block(s, f, i, FALSE)
<1> SUFFICES ASSUME c.err \notin Stops PROVE Still(s, c.fs) /\ Ready(c.fs, f)
  OBVIOUS
<1>1. c = IF m.err # "ok" THEN m ELSE Ok(dirty_block(m.fs, m.r), 0)
  BY DEF file_dirty, Then
<1>2. m.err \notin Stops => Still(s, m.fs) /\ Typed(m.fs) /\ (m.err = "ok" => m.r \in Blocks)
  BY MapExact DEF Still
<1>3. Sound(c.fs) /\ Typed(s) /\ f \in Where
  BY FileDirty DEF Good, Ready, Sound
<1> HIDE DEF c, m
<1>4. Still(s, c.fs)
  <2>1. CASE m.err # "ok"
    BY <1>1, <1>2, <2>1 DEF c
  <2>2. CASE m.err = "ok"
    <3>1. c.fs = dirty_block(m.fs, m.r) /\ m.err \notin Stops
      BY <1>1, <2>2, Results DEF Stops
    <3>2. Still(m.fs, c.fs)
      BY <1>2, <2>2, <3>1, DirtyStill
    <3> QED BY <1>2, <3>1, <3>2, StillOf
  <2> QED BY <2>1, <2>2
<1> QED BY <1>3, <1>4, StillReady DEF Ready, Still, c

LEMMA MarkStill ==
  ASSUME NEW s, NEW f, Ready(s, f), NEW last \in Nat
  PROVE  LET c == dirty_blocks(s, f, last) IN c.err \notin Stops => Still(s, c.fs) /\ Ready(c.fs, f)
<1> DEFINE step(t, n) == IF t.err # "ok" THEN t ELSE file_dirty(t.fs, f, n - 1)
           Loop(g, n) == g = [i \in 0..n |-> IF i = 0 THEN Ok(s, 0) ELSE step(g[i - 1], i)]
           g0 == CHOOSE g : Loop(g, last)
           Fine(t) == t.err \notin Stops => Still(s, t.fs) /\ Ready(t.fs, f)
<1>1. dirty_blocks(s, f, last) = g0[last]
  BY DEF dirty_blocks, Then
<1>2. ASSUME NEW t, NEW n \in Nat \ {0}, Fine(t) PROVE Fine(step(t, n))
  <2>1. CASE t.err # "ok"
    BY <1>2, <2>1
  <2>2. CASE t.err = "ok"
    <3> DEFINE c == file_dirty(t.fs, f, n - 1)
    <3>1. Still(s, t.fs) /\ Ready(t.fs, f) /\ n - 1 \in Nat
      BY <1>2, <2>2 DEF Stops
    <3>2. c.err \notin Stops => Still(t.fs, c.fs) /\ Ready(c.fs, f)
      BY <3>1, DirtyFileStill
    <3>3. step(t, n) = c
      BY <2>2
    <3> HIDE DEF step, c
    <3> QED BY <3>1, <3>2, <3>3, StillOf
  <2> QED BY <2>1, <2>2
<1>3. Fine(Ok(s, 0))
  BY Results, StillOf DEF Ready, Sound
<1> HIDE DEF step, Fine
<1>4. \E g : Loop(g, last)
  <2> DEFINE S == {k \in Nat : \E g : Loop(g, k)}
  <2>1. 0 \in S
    <3>1. Loop([i \in {0} |-> Ok(s, 0)], 0)
      OBVIOUS
    <3> QED BY <3>1
  <2>2. ASSUME NEW k \in 1..last, k - 1 \in S PROVE k \in S
    <3>1. PICK g : Loop(g, k - 1)
      BY <2>2
    <3> DEFINE h == [i \in 0..k |-> IF i # k THEN g[i] ELSE step(g[k - 1], k)]
    <3>2. ASSUME NEW i \in 0..k
          PROVE  h[i] = IF i = 0 THEN Ok(s, 0) ELSE step(h[i - 1], i)
      BY <3>1
    <3>3. Loop(h, k)
      BY <3>2
    <3> HIDE DEF h
    <3> QED BY <3>3
  <2> HIDE DEF S
  <2>3. last \in S
    BY <2>1, <2>2, Upto
  <2> QED BY <2>3 DEF S
<1>5. Loop(g0, last)
  BY <1>4
<1> HIDE DEF g0
<1>6. \A i \in 0..last : g0[i] = IF i = 0 THEN Ok(s, 0) ELSE step(g0[i - 1], i)
  BY <1>5
<1> DEFINE S == {i \in 0..last : Fine(g0[i])}
<1>7. 0 \in S
  BY <1>6, <1>3
<1>8. ASSUME NEW i \in 1..last, i - 1 \in S PROVE i \in S
  BY <1>2, <1>6, <1>8
<1> HIDE DEF S
<1>9. last \in S
  BY <1>7, <1>8, Upto
<1> QED BY <1>1, <1>9 DEF S, Fine

LEMMA RoomMono ==
  ASSUME NEW a \in Nat, NEW b \in Nat, a <= b
  PROVE  Room(a) \subseteq Room(b)
BY Numbers DEF Room, Indices

LEMMA SetSizeExact ==
  ASSUME NEW s, NEW f, Ready(s, f), FitsAt(s, f), NEW n \in Nat
  PROVE  LET c == file_set_size(s, f, n) IN
         /\ c.err = "ok" => Cuts(s, c.fs, f, Slots \ Room(Nblocks(n))) /\ Size(c.fs, f) = n
         /\ c.err # "ok" => c.err \in Stops
<1> DEFINE c == file_set_size(s, f, n)
           t == IF Get(s, f).size > n THEN file_truncate(s, f, n) ELSE Ok(s, 0)
           x == [Get(t.fs, f) EXCEPT !.size = n]
           u == Put(t.fs, f, x)
           d == Get(t.fs, f).dir
           I == Slots \ Room(Nblocks(n))
<1>1. c = IF t.err # "ok" THEN t ELSE Ok(flush_dir(u, d), 0)
  BY DEF file_set_size, Then
<1>2. /\ Get(s, f) = FileAt(s, f) /\ Get(s, f).size \in Nat /\ Size(s, f) \in Nat
      /\ Nblocks(n) \in Nat /\ Nblocks(Size(s, f)) \in Nat /\ Typed(s) /\ f \in Where /\ Sound(s)
  BY ReadyGet, FileFields, NblocksNat DEF Size, Ready
<1>3. (t.err = "ok" => Cuts(s, t.fs, f, I)) /\ (t.err # "ok" => t.err \in Stops)
  <2>1. CASE Get(s, f).size > n
    <3>1. Nblocks(n) <= Nblocks(Size(s, f))
      BY <1>2, <2>1, NblocksMono DEF Size
    <3> QED BY <2>1, <3>1, TruncateExact
  <2>2. CASE ~(Get(s, f).size > n)
    <3>1. Nblocks(Size(s, f)) <= Nblocks(n)
      BY <1>2, <2>2, NblocksMono DEF Size
    <3>2. Room(Nblocks(Size(s, f))) \subseteq Room(Nblocks(n))
      BY <1>2, <3>1, RoomMono
    <3>3. \A i \in I \cap Slots : Slot(s, f, i) = 0
      BY <3>2 DEF FitsAt
    <3> HIDE DEF I
    <3>4. Cuts(s, s, f, I)
      BY <1>2, <3>3, CutsStill, StillOf
    <3> QED BY <2>2, <3>4, Results
  <2> QED BY <2>1, <2>2
<1>4. c.err = "ok" => Sound(c.fs)
  BY <1>2, SetSize, GoodOf
<1> HIDE DEF c, t, I
<1>5. CASE t.err # "ok"
  BY <1>1, <1>3, <1>5 DEF c
<1>6. CASE t.err = "ok"
  <2>1. Cuts(s, t.fs, f, I) /\ Ready(t.fs, f) /\ Sound(t.fs) /\ Typed(t.fs)
    BY <1>3, <1>6 DEF Cuts, Ready, Sound
  <2>2. Get(t.fs, f) = FileAt(t.fs, f) /\ Get(t.fs, f) \in File /\ d \in Positions
    BY <2>1, ReadyGet, FileFields
  <2>3. /\ x \in File /\ x.direct = Get(t.fs, f).direct /\ x.indirect = Get(t.fs, f).indirect
        /\ x.size = n /\ x.name = Get(t.fs, f).name /\ x.type = Get(t.fs, f).type
    BY <2>2 DEF File
  <2>4. Sound(u) /\ Typed(u)
    BY <1>2, <2>1, Resized, QuietSound, SoundIs
  <2> HIDE DEF x, d
  <2>5. Edits(t.fs, u, f) /\ FileAt(u, f) = x /\ \A i \in Slots : Slot(u, f, i) = Slot(t.fs, f, i)
    BY <2>1, <2>3, PutSame
  <2> HIDE DEF u
  <2>6. SameName(t.fs, u, f) /\ Size(u, f) = n
    BY <2>2, <2>3, <2>5 DEF SameName, Name, Type, Size
  <2>7. \A i \in I \cap Slots : Slot(t.fs, f, i) = 0 /\ Slot(u, f, i) = 0
    BY <2>1, <2>5 DEF Cuts
  <2>8. Cuts(t.fs, u, f, I)
    BY <1>2, <2>4, <2>5, <2>6, <2>7, CutsEdits
  <2>9. Still(u, flush_dir(u, d)) /\ Ready(u, f)
    BY <2>2, <2>4, <2>8, FlushDirStill DEF Cuts, Ready
  <2>10. c.err = "ok" /\ c.fs = flush_dir(u, d)
    BY <1>1, <1>6, Results
  <2>11. Cuts(u, c.fs, f, I) /\ Size(c.fs, f) = n
    BY <1>4, <2>6, <2>7, <2>9, <2>10, CutsStill, StillIs DEF Size, c
  <2>12. I \cup I = I
    OBVIOUS
  <2> QED BY <2>1, <2>8, <2>10, <2>11, <2>12, CutsTrans DEF c, I
<1> QED BY <1>5, <1>6

-----------------------------------------------------------------------------
(* The tree.  A directory's members are the Files of its blocks that have a *)
(* name; its size counts the blocks in which dir_lookup looks for them.     *)

Called(s, p) == Name(s, p) # NoName
In(s, d, p) == Type(s, d) = "DIR" /\ p.blk \in Has(s, d)
Listed(s, d, p) ==
  Type(s, d) = "DIR" /\ \E i \in Indices : i < Size(s, d) \div BLOCK_SIZE /\ Slot(s, d, i) = p.blk

Top(s) == {p \in InBlocks : Called(s, p) /\ In(s, Root, p)}
Reach(s) == {Root} \cup Top(s) \cup {p \in InBlocks : Called(s, p) /\ \E d \in Top(s) : In(s, d, p)}
Found(s, p) ==
  /\ p \in InBlocks /\ Called(s, p)
  /\ Listed(s, Root, p) \/ \E d \in InBlocks : Called(s, d) /\ Listed(s, Root, d) /\ Listed(s, d, p)

LEMMA ListedIn ==
  ASSUME NEW s, NEW d, NEW p \in InBlocks, Listed(s, d, p)
  PROVE  In(s, d, p)
BY Places, Numbers DEF Listed, In, Has

LEMMA FoundReach ==
  ASSUME NEW s, NEW p, Found(s, p)
  PROVE  p \in Reach(s) /\ p \in InBlocks /\ Called(s, p)
<1>1. CASE Listed(s, Root, p)
  BY <1>1, ListedIn DEF Found, Reach, Top
<1>2. CASE ~Listed(s, Root, p)
  <2>1. PICK d \in InBlocks : Called(s, d) /\ Listed(s, Root, d) /\ Listed(s, d, p)
    BY <1>2 DEF Found
  <2> QED BY <2>1, ListedIn DEF Found, Reach, Top
<1> QED BY <1>1, <1>2

LEMMA ReachIs ==
  ASSUME NEW s, Sound(s), NEW p \in Reach(s)
  PROVE  /\ p \in Where /\ Live(s, p)
         /\ p # Root => p \in InBlocks /\ Called(s, p) /\ Backed(s, p)
         /\ \A i \in Slots : Slot(s, p, i) # p.blk
<1>1. CASE p = Root
  <2>1. Root.blk = 1 /\ Root \in Where
    BY DEF Root, Pos, Where
  <2> QED BY <1>1, <2>1, SoundIs, SlotIs, Numbers DEF Live
<1>2. CASE p # Root
  <2>1. p \in InBlocks /\ Called(s, p) /\ Backed(s, p)
    BY <1>2 DEF Reach, Top, In, Backed
  <2> QED BY <2>1, BackedIs DEF Where, Live
<1> QED BY <1>1, <1>2

(* A block has one owner: a File is in one directory. *)
LEMMA OneOwner ==
  ASSUME NEW s, Sound(s), NEW d \in Where, NEW e \in Where, NEW b, b \in Has(s, d), b \in Has(s, e)
  PROVE  d = e
BY Numbers DEF Sound, Unique, Has

-----------------------------------------------------------------------------
(* What the server keeps, while it serves, besides one use per block: a     *)
(* File has no blocks past its size, a File without a name has none, and a  *)
(* file has all that its size counts.  f is a file whose size changes.      *)

Whole(s, p) ==
  /\ Nblocks(Size(s, p)) <= NINDIRECT
  /\ \A i \in Indices : i < Nblocks(Size(s, p)) => Slot(s, p, i) # 0
Nameless(s, p) == Name(s, p) = NoName => Size(s, p) = 0
Full(s, p) == Type(s, p) = "REG" \/ p.blk \notin Has(s, Root) => Whole(s, p)
RootIs(s) == Type(s, Root) = "DIR" /\ Size(s, Root) % BLOCK_SIZE = 0

Shape(s, f) ==
  /\ Sound(s) /\ Clean(s) /\ RootIs(s)
  /\ \A p \in Where : FitsAt(s, p)
  /\ \A p \in InBlocks : Nameless(s, p) /\ (p # f => Full(s, p))

(* What a step keeps of the tree: all but the blocks of f and of            *)
(* directories, which grow.                                                 *)
Grow(s, t, f) ==
  /\ Remembers(s, t) /\ t.free \subseteq s.free
  /\ Top(s) \subseteq Top(t) /\ Reach(s) \subseteq Reach(t)
  /\ \A p \in Top(s) : SameName(s, t, p)
  /\ \A p \in Reach(s), i \in Slots : Slot(s, p, i) # 0 => Slot(t, p, i) = Slot(s, p, i)
  /\ \A p : Found(s, p) =>
       Found(t, p) /\ SameName(s, t, p) /\ (Type(s, p) = "REG" => p = f \/ Alike(s, t, p))
  /\ \A p \in InBlocks : FilePage(s, p) => FilePage(t, p)

(* The blocks that have been taken are those of Files in T. *)
Fills(s, t, T) == \A b \in s.free \ t.free : \E q \in T, i \in Slots : Slot(t, q, i) = b

(* Every block that is not free is used, or in L. *)
Leak(s, L) == \A b \in Blocks \ s.free : b \in L \/ \E p \in Reach(s), i \in Slots : Slot(s, p, i) = b

LEMMA GrowTrans ==
  ASSUME NEW s, NEW t, NEW u, NEW f, Grow(s, t, f), Grow(t, u, f)
  PROVE  Grow(s, u, f)
<1>1. Remembers(s, u) /\ u.free \subseteq s.free /\ Top(s) \subseteq Top(u) /\ Reach(s) \subseteq Reach(u)
  BY DEF Grow, Remembers
<1>2. \A p \in Top(s) : SameName(s, u, p)
  BY DEF Grow, SameName
<1>3. \A p \in Reach(s), i \in Slots : Slot(s, p, i) # 0 => Slot(u, p, i) = Slot(s, p, i)
  BY DEF Grow
<1>4. ASSUME NEW p, Found(s, p)
      PROVE  Found(u, p) /\ SameName(s, u, p) /\ (Type(s, p) = "REG" => p = f \/ Alike(s, u, p))
  <2>1. /\ Found(t, p) /\ SameName(s, t, p) /\ Found(u, p) /\ SameName(t, u, p)
        /\ Type(s, p) = "REG" => p = f \/ Alike(s, t, p)
        /\ Type(t, p) = "REG" => p = f \/ Alike(t, u, p)
    BY <1>4 DEF Grow
  <2> QED BY <2>1 DEF SameName, Alike
<1>5. \A p \in InBlocks : FilePage(s, p) => FilePage(u, p)
  BY DEF Grow
<1> QED BY <1>1, <1>2, <1>3, <1>4, <1>5 DEF Grow

LEMMA FillsTrans ==
  ASSUME NEW s, NEW t, NEW u, NEW T, NEW U,
         \A q \in T : q \in U /\ \A i \in Slots : Slot(t, q, i) # 0 => Slot(u, q, i) = Slot(t, q, i),
         s.free \subseteq Blocks, Fills(s, t, T), Fills(t, u, U)
  PROVE  Fills(s, u, U)
<1> SUFFICES ASSUME NEW b \in s.free \ u.free
             PROVE  \E q \in U, i \in Slots : Slot(u, q, i) = b
  BY DEF Fills
<1>1. CASE b \in t.free
  BY <1>1 DEF Fills
<1>2. CASE b \notin t.free
  <2>1. PICK q \in T, i \in Slots : Slot(t, q, i) = b
    BY <1>2 DEF Fills
  <2>2. b # 0
    BY Numbers
  <2> QED BY <2>1, <2>2
<1> QED BY <1>1, <1>2

LEMMA GrowLeak ==
  ASSUME NEW s, NEW t, NEW f, NEW L, Grow(s, t, f), Fills(s, t, Reach(t)), Leak(s, L)
  PROVE  Leak(t, L)
<1> SUFFICES ASSUME NEW b \in Blocks \ t.free, b \notin L
             PROVE  \E p \in Reach(t), i \in Slots : Slot(t, p, i) = b
  BY DEF Leak
<1>1. CASE b \in s.free
  BY <1>1 DEF Fills
<1>2. CASE b \notin s.free
  <2>1. PICK p \in Reach(s), i \in Slots : Slot(s, p, i) = b
    BY <1>2 DEF Leak
  <2> QED BY <2>1, Numbers DEF Grow
<1> QED BY <1>1, <1>2

Keeps(s, t, p) ==
  /\ SameName(s, t, p) /\ Size(s, p) <= Size(t, p)
  /\ \A i \in Slots : Slot(s, p, i) # 0 => Slot(t, p, i) = Slot(s, p, i)

LEMMA AlikeKeeps ==
  ASSUME NEW s, NEW t, NEW p \in Where, Typed(s), Alike(s, t, p)
  PROVE  Keeps(s, t, p)
<1>1. Size(s, p) \in Nat
  BY FileTypes, FileFields DEF Size
<1> QED BY <1>1 DEF Alike, Keeps, SameName

LEMMA KeepsIn ==
  ASSUME NEW s, NEW t, NEW d \in Where, Typed(s), Typed(t), Keeps(s, t, d)
  PROVE  /\ Has(s, d) \subseteq Has(t, d)
         /\ \A p : (In(s, d, p) => In(t, d, p))
         /\ \A p \in InBlocks : (Listed(s, d, p) => Listed(t, d, p))
<1>1. Has(s, d) \subseteq Has(t, d)
  BY Numbers DEF Keeps, Has
<1>2. Size(s, d) \div BLOCK_SIZE <= Size(t, d) \div BLOCK_SIZE
  BY FileTypes, FileFields, DivMono, Numbers DEF Keeps, Size
<1>3. ASSUME NEW p \in InBlocks, Listed(s, d, p) PROVE Listed(t, d, p)
  <2>1. PICK i \in Indices : i < Size(s, d) \div BLOCK_SIZE /\ Slot(s, d, i) = p.blk
    BY <1>3 DEF Listed
  <2>2. Slot(t, d, i) = p.blk
    BY <2>1, Numbers, Places DEF Keeps
  <2>3. Size(s, d) \div BLOCK_SIZE \in Nat /\ Size(t, d) \div BLOCK_SIZE \in Nat /\ i \in Nat
    BY FileTypes, FileFields, DivNat, Numbers DEF Size, Indices
  <2>4. i < Size(t, d) \div BLOCK_SIZE
    BY <1>2, <2>1, <2>3
  <2> QED BY <1>3, <2>2, <2>4 DEF Listed, Keeps, SameName
<1> QED BY <1>1, <1>3 DEF In, Keeps, SameName

LEMMA KeepsGrow ==
  ASSUME NEW s, NEW t, NEW f, Sound(s), Typed(t), Remembers(s, t), t.free \subseteq s.free,
         \A p \in Where : Live(s, p) =>
           Keeps(s, t, p) /\ (p = f \/ Type(s, p) = "DIR" \/ Alike(s, t, p)),
         \A p \in InBlocks : FilePage(s, p) => FilePage(t, p)
  PROVE  Grow(s, t, f)
<1>1. Typed(s)
  BY SoundIs
<1>2. ASSUME NEW p \in Reach(s)
      PROVE  /\ p \in Where /\ Keeps(s, t, p) /\ (p = f \/ Type(s, p) = "DIR" \/ Alike(s, t, p))
             /\ p # Root => p \in InBlocks /\ Called(t, p)
  <2>1. p \in Where /\ Live(s, p) /\ (p # Root => p \in InBlocks /\ Called(s, p))
    BY ReachIs
  <2> QED BY <2>1 DEF Keeps, SameName, Called
<1>3. Root \in Reach(s) /\ Top(s) \subseteq Reach(s) /\ Root \notin InBlocks
  BY Places DEF Reach
<1>4. ASSUME NEW p \in Top(s) PROVE p \in Top(t) /\ SameName(s, t, p)
  <2>1. p \in InBlocks /\ In(s, Root, p)
    BY DEF Top
  <2>2. In(t, Root, p)
    BY <1>1, <1>2, <1>3, <2>1, KeepsIn
  <2> QED BY <1>2, <1>3, <2>1, <2>2 DEF Top, Keeps
<1>5. ASSUME NEW p \in Reach(s) PROVE p \in Reach(t)
  <2>1. CASE p = Root \/ p \in Top(s)
    BY <1>4, <2>1 DEF Reach
  <2>2. CASE ~(p = Root \/ p \in Top(s))
    <3>1. p \in InBlocks /\ \E d \in Top(s) : In(s, d, p)
      BY <2>2 DEF Reach
    <3>2. PICK d \in Top(s) : In(s, d, p)
      BY <3>1
    <3>3. In(t, d, p)
      BY <1>1, <1>2, <1>3, <3>2, KeepsIn
    <3> QED BY <1>2, <1>3, <1>4, <3>1, <3>3 DEF Reach
  <2> QED BY <2>1, <2>2
<1>6. ASSUME NEW p, Found(s, p)
      PROVE  Found(t, p) /\ SameName(s, t, p) /\ (Type(s, p) = "REG" => p = f \/ Alike(s, t, p))
  <2>1. p \in Reach(s) /\ p \in InBlocks
    BY <1>6, FoundReach
  <2>2. /\ Called(t, p) /\ SameName(s, t, p) /\ (Type(s, p) = "REG" => p = f \/ Alike(s, t, p))
    BY <1>2, <1>3, <2>1 DEF Keeps
  <2>3. CASE Listed(s, Root, p)
    <3>1. Listed(t, Root, p)
      BY <1>1, <1>2, <1>3, <2>1, <2>3, KeepsIn
    <3> QED BY <2>1, <2>2, <3>1 DEF Found
  <2>4. CASE ~Listed(s, Root, p)
    <3>1. PICK d \in InBlocks : Called(s, d) /\ Listed(s, Root, d) /\ Listed(s, d, p)
      BY <1>6, <2>4 DEF Found
    <3>2. d \in Reach(s)
      BY <3>1, FoundReach DEF Found
    <3>3. Called(t, d) /\ Listed(t, Root, d) /\ Listed(t, d, p)
      BY <1>1, <1>2, <1>3, <2>1, <3>1, <3>2, KeepsIn
    <3> QED BY <2>1, <2>2, <3>3 DEF Found
  <2> QED BY <2>3, <2>4
<1>7. \A p \in Reach(s), i \in Slots : Slot(s, p, i) # 0 => Slot(t, p, i) = Slot(s, p, i)
  BY <1>2 DEF Keeps
<1> QED BY <1>4, <1>5, <1>6, <1>7 DEF Grow

LEMMA VoidFits ==
  ASSUME NEW s, NEW p, Void(s, p)
  PROVE  FitsAt(s, p) /\ Nameless(s, p) /\ Whole(s, p)
BY Numbers, NblocksMono DEF Void, FitsAt, Nameless, Whole, Indices

LEMMA AlikeFits ==
  ASSUME NEW s, NEW t, NEW p, Alike(s, t, p)
  PROVE  /\ FitsAt(s, p) <=> FitsAt(t, p)
         /\ Nameless(s, p) <=> Nameless(t, p)
         /\ Whole(s, p) <=> Whole(t, p)
<1>1. Name(t, p) = Name(s, p) /\ Size(t, p) = Size(s, p) /\ \A i \in Slots : Slot(t, p, i) = Slot(s, p, i)
  BY DEF Alike
<1>2. FitsAt(s, p) <=> FitsAt(t, p)
  BY <1>1 DEF FitsAt
<1>3. Nameless(s, p) <=> Nameless(t, p)
  BY <1>1 DEF Nameless
<1>4. Whole(s, p) <=> Whole(t, p)
  BY <1>1, Numbers DEF Whole
<1> QED BY <1>2, <1>3, <1>4

(* A File that gets blocks it has room for. *)
LEMMA AddsShape ==
  ASSUME NEW s, NEW g, Shape(s, g), NEW t, NEW f, NEW I, Adds(s, t, f, I), f \in Where,
         I \cap Slots \subseteq Room(Nblocks(Size(s, f))), f = g \/ Type(s, f) = "DIR"
  PROVE  Shape(t, g) /\ Grow(s, t, g) /\ Fills(s, t, {f}) /\ Keeps(s, t, f)
<1>1. /\ Sound(s) /\ Typed(s) /\ Sound(t) /\ Typed(t) /\ Clean(t) /\ Root \in Where
      /\ SameName(s, t, f) /\ Size(t, f) = Size(s, f) /\ Remembers(s, t) /\ t.free \subseteq s.free
  BY SoundIs DEF Shape, Adds, Ready, Where
<1>2. ASSUME NEW p \in Where, p # f
      PROVE  (Live(s, p) => Alike(s, t, p)) /\ (Alike(s, t, p) \/ Void(t, p))
  BY <1>2 DEF Adds
<1>3. Keeps(s, t, f)
  <2>1. Size(s, f) \in Nat
    BY <1>1, FileTypes, FileFields DEF Size
  <2>2. \A i \in Slots : Slot(s, f, i) # 0 => Slot(t, f, i) = Slot(s, f, i)
    BY DEF Adds
  <2> QED BY <1>1, <2>1, <2>2 DEF Keeps
<1>4. \A p \in Where : Live(s, p) =>
        Keeps(s, t, p) /\ (p = g \/ Type(s, p) = "DIR" \/ Alike(s, t, p))
  BY <1>1, <1>2, <1>3, AlikeKeeps
<1>5. Grow(s, t, g)
  <2>1. \A p \in InBlocks : FilePage(s, p) => FilePage(t, p)
    BY DEF Adds
  <2> QED BY <1>1, <1>4, <2>1, KeepsGrow
<1>6. Fills(s, t, {f})
  BY DEF Fills, Adds
<1>7. RootIs(t) /\ Keeps(s, t, Root)
  <2>1. Live(s, Root)
    BY DEF Live
  <2>2. CASE Root = f
    BY <1>1, <1>3, <2>2 DEF RootIs, Shape, SameName
  <2>3. CASE Root # f
    BY <1>1, <1>2, <1>4, <2>1, <2>3 DEF RootIs, Shape, Alike
  <2> QED BY <2>2, <2>3
<1>8. ASSUME NEW p \in Where PROVE FitsAt(t, p)
  <2>1. FitsAt(s, p)
    BY DEF Shape
  <2>2. CASE p = f
    <3>1. \A i \in Slots : Slot(t, f, i) = Slot(s, f, i) \/ i \in Room(Nblocks(Size(s, f)))
      BY DEF Adds
    <3> QED BY <1>1, <2>1, <2>2, <3>1 DEF FitsAt
  <2>3. CASE p # f
    BY <1>2, <2>1, <2>3, VoidFits, AlikeFits
  <2> QED BY <2>2, <2>3
<1>9. ASSUME NEW p \in InBlocks PROVE Nameless(t, p) /\ (p # g => Full(t, p))
  <2>1. p \in Where /\ Nameless(s, p) /\ (p # g => Full(s, p))
    BY DEF Shape, Where
  <2>2. Has(s, Root) \subseteq Has(t, Root)
    BY <1>1, <1>7, KeepsIn
  <2>3. CASE p = f
    <3>1. Nameless(t, p)
      BY <1>1, <2>1, <2>3 DEF Nameless, SameName
    <3>2. ASSUME p # g PROVE Full(t, p)
      <4>1. Type(s, f) = "DIR" /\ Type(t, f) = "DIR"
        BY <1>1, <2>3, <3>2 DEF SameName
      <4>2. SUFFICES ASSUME p.blk \notin Has(t, Root) PROVE Whole(t, p)
        BY <2>3, <4>1 DEF Full
      <4>3. Whole(s, f)
        BY <2>1, <2>2, <2>3, <3>2, <4>2 DEF Full
      <4>4. \A i \in Indices : i \in Slots /\ Slot(s, f, i) \in Blocks \cup {0}
        BY <1>1, SlotIs, Numbers
      <4> QED BY <1>1, <1>3, <2>3, <4>3, <4>4 DEF Whole, Keeps
    <3> QED BY <3>1, <3>2
  <2>4. CASE p # f /\ Alike(s, t, p)
    <3>1. Nameless(t, p)
      BY <2>1, <2>4, AlikeFits
    <3>2. ASSUME p # g PROVE Full(t, p)
      <4>1. Full(s, p) /\ Type(t, p) = Type(s, p)
        BY <2>1, <2>4, <3>2 DEF Alike
      <4>2. Whole(s, p) => Whole(t, p)
        BY <2>4, AlikeFits
      <4> QED BY <2>2, <4>1, <4>2 DEF Full
    <3> QED BY <3>1, <3>2
  <2>5. CASE p # f /\ Void(t, p)
    BY <2>5, VoidFits DEF Full
  <2> QED BY <1>2, <2>1, <2>3, <2>4, <2>5
<1> QED BY <1>1, <1>3, <1>5, <1>6, <1>7, <1>8, <1>9 DEF Shape

(* A step that keeps the pointers of all Files, and all but the name, type  *)
(* and size of f. *)
Marks(s, t, f) ==
  /\ Edits(s, t, f) /\ Sound(t) /\ f \in Where
  /\ \A i \in Slots : Slot(t, f, i) = Slot(s, f, i)

LEMMA MarksOf ==
  ASSUME NEW s, NEW f, Ready(s, f), NEW x \in File,
         x.direct = Get(s, f).direct, x.indirect = Get(s, f).indirect, Sound(Put(s, f, x))
  PROVE  Marks(s, Put(s, f, x), f) /\ FileAt(Put(s, f, x), f) = x /\ Ready(Put(s, f, x), f)
<1>1. f \in Where
  BY DEF Ready
<1> QED BY <1>1, PutSame DEF Marks, Edits, Ready

LEMMA MarksIs ==
  ASSUME NEW s, NEW t, NEW f, Typed(s), Marks(s, t, f)
  PROVE  /\ \A p \in Where : Has(t, p) = Has(s, p)
         /\ \A p \in InBlocks : Backed(t, p) <=> Backed(s, p)
         /\ \A p \in InBlocks : FilePage(s, p) => FilePage(t, p)
         /\ \A p \in Where, i \in Slots : Slot(t, p, i) = Slot(s, p, i)
         /\ Sound(t) /\ Typed(t) /\ t.free = s.free
<1>1. \A p \in Where, i \in Slots : Slot(t, p, i) = Slot(s, p, i)
  BY DEF Marks, Edits, Alike
<1>2. \A p \in Where : Has(t, p) = Has(s, p)
  BY <1>1, Numbers DEF Has
<1>3. \A p \in InBlocks : Backed(t, p) <=> Backed(s, p)
  BY <1>2 DEF Backed, Where
<1>4. \A p \in InBlocks : FilePage(s, p) => FilePage(t, p)
  BY <1>3, Places DEF Marks, Edits, Pages, FilePage
<1> QED BY <1>1, <1>2, <1>3, <1>4 DEF Marks, Edits

-----------------------------------------------------------------------------
(* Directories that grow. *)

LEMMA Quotient ==
  ASSUME NEW n \in Nat, NEW k \in Nat \ {0}, NEW q \in Nat, NEW r \in 0..(k - 1), n = k * q + r
  PROVE  n \div k = q /\ n % k = r
<1> DEFINE p == n \div k
           z == n % k
<1>1. p \in Nat /\ n = k * p + z /\ z \in 0..(k - 1)
  BY DivNat
<1> HIDE DEF p, z
<1>2. ~(p > q)
  <2> SUFFICES ASSUME p > q PROVE FALSE
    OBVIOUS
  <2> DEFINE m == p - q - 1
  <2>1. m \in Nat /\ p = q + 1 + m
    BY <1>1
  <2> HIDE DEF m
  <2>2. k * m >= 0 /\ k * (q + 1 + m) = k * q + k + k * m
    BY <2>1
  <2> QED BY <1>1, <2>1, <2>2
<1>3. ~(q > p)
  <2> SUFFICES ASSUME q > p PROVE FALSE
    OBVIOUS
  <2> DEFINE m == q - p - 1
  <2>1. m \in Nat /\ q = p + 1 + m
    BY <1>1
  <2> HIDE DEF m
  <2>2. k * m >= 0 /\ k * (p + 1 + m) = k * p + k + k * m
    BY <1>1, <2>1
  <2> QED BY <1>1, <2>1, <2>2
<1>4. p = q
  BY <1>1, <1>2, <1>3
<1> QED BY <1>1, <1>4 DEF p, z

LEMMA DivGrown ==
  ASSUME NEW n \in Nat, NEW k \in Nat \ {0}
  PROVE  /\ (n + k) \div k = n \div k + 1
         /\ n % k = 0 => (n + k) % k = 0
<1> DEFINE q == n \div k
           r == n % k
<1>1. q \in Nat /\ n = k * q + r /\ r \in 0..(k - 1)
  BY DivNat
<1> HIDE DEF q, r
<1>2. k * (q + 1) = k * q + k
  BY <1>1
<1>3. n + k = k * (q + 1) + r /\ n + k \in Nat /\ q + 1 \in Nat
  BY <1>1, <1>2
<1>4. (n + k) \div k = q + 1 /\ (n + k) % k = r
  BY <1>1, <1>3, Quotient
<1> QED BY <1>4 DEF q, r

LEMMA NblocksOver == \A n \in Nat : n \div BLOCK_SIZE <= Nblocks(n)
<1> SUFFICES ASSUME NEW n \in Nat PROVE n \div BLOCK_SIZE <= Nblocks(n)
  OBVIOUS
<1> DEFINE q == (n + BLOCK_SIZE - 1) \div BLOCK_SIZE
<1>1. n + BLOCK_SIZE - 1 \in Nat /\ n <= n + BLOCK_SIZE - 1 /\ BLOCK_SIZE \in Nat \ {0}
  BY Numbers
<1>2. n \div BLOCK_SIZE <= q /\ q \in Nat
  BY <1>1, DivMono, DivNat
<1>3. Nblocks(n) = (q * BLOCK_SIZE) \div BLOCK_SIZE
  BY DEF Nblocks, ROUND
<1> HIDE DEF q
<1>4. q * BLOCK_SIZE \in Nat /\ q * BLOCK_SIZE = BLOCK_SIZE * q + 0 /\ 0 \in 0..(BLOCK_SIZE - 1)
  BY <1>1, <1>2
<1>5. (q * BLOCK_SIZE) \div BLOCK_SIZE = q
  BY <1>1, <1>2, <1>4, Quotient
<1> QED BY <1>2, <1>3, <1>5

(* A directory has room for the blocks that it is searched in. *)
LEMMA DirRoom ==
  ASSUME NEW n \in Nat, NEW i \in Nat, i < n \div BLOCK_SIZE
  PROVE  Spots(i) \cap Slots \subseteq Room(Nblocks(n))
<1>1. i < Nblocks(n) /\ Nblocks(n) \in Nat /\ n \div BLOCK_SIZE \in Nat
  BY NblocksOver, NblocksNat, DivNat, Numbers
<1>2. \A k \in Slots : k # NINDIRECT => k \in Indices
  BY Numbers DEF Slots, Indices
<1> QED BY <1>1, <1>2, Numbers DEF Spots, Room

LEMMA MarkGrow ==
  ASSUME NEW s, NEW g, Shape(s, g), NEW t, NEW f, Marks(s, t, f), SameName(s, t, f),
         Size(s, f) <= Size(t, f), f = g \/ Type(s, f) = "DIR" \/ Alike(s, t, f)
  PROVE  Grow(s, t, g)
<1>1. /\ Sound(s) /\ Typed(s) /\ Typed(t) /\ Remembers(s, t) /\ t.free = s.free
      /\ \A p \in InBlocks : FilePage(s, p) => FilePage(t, p)
  BY SoundIs, MarksIs DEF Shape, Marks, Edits
<1>2. Keeps(s, t, f)
  BY DEF Marks, Keeps
<1>3. ASSUME NEW p \in Where
      PROVE  Keeps(s, t, p) /\ (p = g \/ Type(s, p) = "DIR" \/ Alike(s, t, p))
  <2>1. p # f => Alike(s, t, p)
    BY DEF Marks, Edits
  <2> QED BY <1>1, <1>2, <2>1, AlikeKeeps
<1> QED BY <1>1, <1>3, KeepsGrow

LEMMA MarkShape ==
  ASSUME NEW s, NEW g, Shape(s, g), NEW t, NEW f, Marks(s, t, f), FitsAt(t, f),
         f = Root => RootIs(t), f # Root => Nameless(t, f) /\ (f # g => Full(t, f))
  PROVE  Shape(t, g)
<1>1. /\ Sound(s) /\ Typed(s) /\ Sound(t) /\ Clean(t) /\ Root \in Where /\ Root \notin InBlocks
      /\ Has(t, Root) = Has(s, Root)
  BY SoundIs, MarksIs, Places DEF Shape, Marks, Edits, Where
<1>2. ASSUME NEW p \in Where, p # f PROVE Alike(s, t, p)
  BY <1>2 DEF Marks, Edits
<1>3. RootIs(t)
  BY <1>1, <1>2 DEF Shape, RootIs, Alike
<1>4. \A p \in Where : FitsAt(t, p)
  BY <1>2, AlikeFits DEF Shape
<1>5. ASSUME NEW p \in InBlocks PROVE Nameless(t, p) /\ (p # g => Full(t, p))
  <2>1. CASE p = f
    BY <1>1, <2>1
  <2>2. CASE p # f
    <3>1. Alike(s, t, p) /\ Nameless(s, p) /\ (p # g => Full(s, p))
      BY <1>2, <2>2 DEF Shape, Where
    <3>2. Type(t, p) = Type(s, p)
      BY <3>1 DEF Alike
    <3> QED BY <1>1, <3>1, <3>2, AlikeFits DEF Full
  <2> QED BY <2>1, <2>2
<1> QED BY <1>1, <1>3, <1>4, <1>5 DEF Shape

LEMMA DirectedExact ==
  ASSUME NEW s, NEW g, Shape(s, g), NEW f, Ready(s, f), NEW d \in Positions
  PROVE  LET t == Put(s, f, [Get(s, f) EXCEPT !.dir = d]) IN
         /\ Shape(t, g) /\ Grow(s, t, g) /\ t.free = s.free /\ Ready(t, f)
         /\ \A p \in Where : Alike(s, t, p)
<1> DEFINE x == [Get(s, f) EXCEPT !.dir = d]
           t == Put(s, f, x)
<1>1. /\ Get(s, f) \in File /\ Get(s, f) = FileAt(s, f) /\ Typed(s) /\ f \in Where /\ Sound(s)
  BY ReadyGet DEF Ready
<1>2. Sound(t)
  BY <1>1, Directed, QuietSound
<1>3. /\ x \in File /\ x.direct = Get(s, f).direct /\ x.indirect = Get(s, f).indirect
      /\ x.name = Get(s, f).name /\ x.type = Get(s, f).type /\ x.size = Get(s, f).size
  BY <1>1 DEF File
<1> HIDE DEF x
<1>4. Marks(s, t, f) /\ FileAt(t, f) = x /\ Ready(t, f)
  BY <1>2, <1>3, MarksOf
<1> HIDE DEF t
<1>5. Alike(s, t, f)
  BY <1>1, <1>3, <1>4 DEF Marks, Alike, Name, Type, Size
<1>6. \A p \in Where : Alike(s, t, p)
  BY <1>4, <1>5 DEF Marks, Edits
<1>7. Size(s, f) \in Nat
  BY <1>1, FileFields DEF Size
<1>8. Grow(s, t, g)
  BY <1>4, <1>5, <1>7, MarkGrow DEF Alike, SameName
<1>9. Shape(t, g)
  <2>1. FitsAt(t, f)
    BY <1>1, <1>5, AlikeFits DEF Shape
  <2>2. f = Root => RootIs(t)
    BY <1>5 DEF Alike, Shape, RootIs
  <2>3. f # Root => Nameless(t, f) /\ (f # g => Full(t, f))
    <3>1. SUFFICES ASSUME f # Root PROVE Nameless(t, f) /\ (f # g => Full(t, f))
      OBVIOUS
    <3>2. Nameless(s, f) /\ (f # g => Full(s, f)) /\ Has(t, Root) = Has(s, Root)
      BY <1>1, <1>4, <3>1, MarksIs DEF Shape, Where
    <3> QED BY <1>5, <3>2, AlikeFits DEF Full, Alike
  <2> QED BY <1>4, <2>1, <2>2, <2>3, MarkShape
<1>10. t.free = s.free
  BY <1>4 DEF Marks, Edits
<1> QED BY <1>4, <1>6, <1>8, <1>9, <1>10 DEF t, x

(* A directory that can be searched: Root, or one of Root's. *)
Folder(s, d) == d \in {Root} \cup Top(s) /\ Type(s, d) = "DIR"

LEMMA FolderIs ==
  ASSUME NEW s, NEW d, Folder(s, d)
  PROVE  d \in Where /\ d \in Reach(s) /\ (d # Root => Called(s, d) /\ d.blk \in Has(s, Root))
BY DEF Folder, Top, Reach, Where, In

LEMMA GrownExact ==
  ASSUME NEW s, NEW g, Shape(s, g), NEW d, Ready(s, d), Folder(s, d), d # g
  PROVE  LET t == Put(s, d, [Get(s, d) EXCEPT !.size = @ + BLOCK_SIZE]) IN
         /\ Shape(t, g) /\ Grow(s, t, g) /\ t.free = s.free /\ Ready(t, d) /\ SameName(s, t, d)
         /\ Size(t, d) = Size(s, d) + BLOCK_SIZE /\ Marks(s, t, d)
<1> DEFINE n == Get(s, d).size + BLOCK_SIZE
           x == [Get(s, d) EXCEPT !.size = n]
           t == Put(s, d, x)
<1>1. /\ Get(s, d) \in File /\ Get(s, d) = FileAt(s, d) /\ Typed(s) /\ d \in Where /\ Sound(s)
      /\ Size(s, d) = Get(s, d).size /\ Size(s, d) \in Nat /\ BLOCK_SIZE \in Nat \ {0}
  BY ReadyGet, FileFields, Numbers DEF Ready, Size
<1>2. n \in Nat /\ n = Size(s, d) + BLOCK_SIZE /\ Size(s, d) <= n
  BY <1>1
<1> HIDE DEF n
<1>3. Sound(t)
  BY <1>1, <1>2, Resized, QuietSound
<1>4. /\ x \in File /\ x.direct = Get(s, d).direct /\ x.indirect = Get(s, d).indirect
      /\ x.name = Get(s, d).name /\ x.type = Get(s, d).type /\ x.size = n
  BY <1>1, <1>2 DEF File
<1> HIDE DEF x
<1>5. Marks(s, t, d) /\ FileAt(t, d) = x /\ Ready(t, d)
  BY <1>3, <1>4, MarksOf
<1> HIDE DEF t
<1>6. SameName(s, t, d) /\ Size(t, d) = n /\ Type(t, d) = "DIR"
  BY <1>1, <1>4, <1>5 DEF SameName, Name, Type, Size, Folder
<1>7. Grow(s, t, g)
  BY <1>2, <1>5, <1>6, MarkGrow DEF Folder
<1>8. Shape(t, g)
  <2>1. FitsAt(t, d)
    <3>1. Nblocks(Size(s, d)) <= Nblocks(n) /\ Nblocks(n) \in Nat /\ Nblocks(Size(s, d)) \in Nat
      BY <1>1, <1>2, NblocksMono, NblocksNat
    <3>2. Room(Nblocks(Size(s, d))) \subseteq Room(Nblocks(n))
      BY <3>1, RoomMono
    <3>3. FitsAt(s, d)
      BY <1>1 DEF Shape
    <3> QED BY <1>5, <1>6, <3>2, <3>3 DEF FitsAt, Marks
  <2>2. d = Root => RootIs(t)
    <3>1. SUFFICES ASSUME d = Root PROVE RootIs(t)
      OBVIOUS
    <3>2. Size(s, d) % BLOCK_SIZE = 0
      BY <3>1 DEF Shape, RootIs
    <3>3. (Size(s, d) + BLOCK_SIZE) % BLOCK_SIZE = 0
      BY <1>1, <3>2, DivGrown
    <3> QED BY <1>2, <1>6, <3>1, <3>3 DEF RootIs
  <2>3. d # Root => Nameless(t, d) /\ Full(t, d)
    <3>1. SUFFICES ASSUME d # Root PROVE Nameless(t, d) /\ Full(t, d)
      OBVIOUS
    <3>2. Called(s, d) /\ d.blk \in Has(s, Root) /\ Has(t, Root) = Has(s, Root)
      <4>1. Root \in Where
        BY DEF Where
      <4> QED BY <1>1, <1>5, <3>1, <4>1, FolderIs, MarksIs
    <3> QED BY <1>6, <3>2 DEF Nameless, Full, Called, SameName
  <2> QED BY <1>5, <2>1, <2>2, <2>3, MarkShape
<1>9. t.free = s.free
  BY <1>5 DEF Marks, Edits
<1> QED BY <1>2, <1>5, <1>6, <1>7, <1>8, <1>9 DEF t, x, n

(* A step that adds blocks to directories that can be searched.             *)
Upper(s) == {Root} \cup Top(s)
Rise(s, t, g) == Shape(s, g) /\ Shape(t, g) /\ Grow(s, t, g) /\ Fills(s, t, Upper(t))

LEMMA UpperGrow ==
  ASSUME NEW s, NEW t, NEW g, Grow(s, t, g), NEW q \in Upper(s)
  PROVE  /\ q \in Upper(t) /\ q \in Reach(s)
         /\ \A i \in Slots : Slot(s, q, i) # 0 => Slot(t, q, i) = Slot(s, q, i)
<1>1. q \in Reach(s)
  BY DEF Upper, Reach
<1> QED BY <1>1 DEF Upper, Grow

LEMMA RiseTrans ==
  ASSUME NEW s, NEW t, NEW u, NEW g, Rise(s, t, g), Rise(t, u, g)
  PROVE  Rise(s, u, g)
<1>1. Grow(s, u, g)
  BY GrowTrans DEF Rise
<1>2. s.free \subseteq Blocks
  BY DEF Rise, Shape, Sound, Typed
<1>3. \A q \in Upper(t) : q \in Upper(u) /\ \A i \in Slots : Slot(t, q, i) # 0 => Slot(u, q, i) = Slot(t, q, i)
  BY UpperGrow DEF Rise
<1>4. Fills(s, u, Upper(u))
  BY <1>2, <1>3, FillsTrans DEF Rise
<1> QED BY <1>1, <1>4 DEF Rise

LEMMA StillShape ==
  ASSUME NEW s, NEW t, NEW g, Shape(s, g), Still(s, t), Sound(t)
  PROVE  Rise(s, t, g)
<1>1. /\ Sound(s) /\ Typed(s) /\ Typed(t) /\ Clean(t) /\ t.free = s.free /\ Remembers(s, t)
      /\ \A p : Alike(s, t, p) /\ \A i : Slot(t, p, i) = Slot(s, p, i)
  BY SoundIs, StillIs DEF Shape, Still
<1>2. \A p \in InBlocks : FilePage(s, p) => FilePage(t, p)
  BY <1>1, StillReady DEF Where
<1>3. Grow(s, t, g)
  <2>1. \A p \in Where : Keeps(s, t, p)
    BY <1>1, AlikeKeeps
  <2> QED BY <1>1, <1>2, <2>1, KeepsGrow
<1>4. Fills(s, t, Upper(t))
  BY <1>1 DEF Fills
<1>5. Has(t, Root) = Has(s, Root) /\ RootIs(t)
  BY <1>1, AlikeHas DEF RootIs, Shape, Alike
<1>6. \A p \in Where : FitsAt(t, p)
  BY <1>1, AlikeFits DEF Shape
<1>7. ASSUME NEW p \in InBlocks PROVE Nameless(t, p) /\ (p # g => Full(t, p))
  <2>1. Alike(s, t, p) /\ Nameless(s, p) /\ (p # g => Full(s, p)) /\ Type(t, p) = Type(s, p)
    BY <1>1 DEF Shape, Alike
  <2> QED BY <1>5, <2>1, AlikeFits DEF Full
<1> QED BY <1>1, <1>3, <1>4, <1>5, <1>6, <1>7 DEF Rise, Shape

LEMMA RiseSelf ==
  ASSUME NEW s, NEW g, Shape(s, g)
  PROVE  Rise(s, s, g)
BY StillShape, StillOf DEF Shape, Sound

LEMMA FolderGrow ==
  ASSUME NEW s, NEW t, NEW g, Shape(t, g), Grow(s, t, g), NEW d, Folder(s, d)
  PROVE  Folder(t, d)
<1>1. CASE d = Root
  BY <1>1 DEF Folder, Shape, RootIs
<1>2. CASE d \in Top(s)
  BY <1>2 DEF Folder, Grow, SameName
<1> QED BY <1>1, <1>2 DEF Folder

(* The Files of a block of a directory. *)
LEMMA EntryIs ==
  ASSUME NEW t, NEW d, Ready(t, d), Folder(t, d), NEW i \in Indices, NEW b \in Blocks,
         b = Slot(t, d, i), t.cache[b].kind \in {"zero", "dir"}, NEW j \in Js
  PROVE  LET r == Pos(b, j) IN
         /\ r \in InBlocks /\ FilePage(t, r) /\ In(t, d, r)
         /\ Get(t, r) = FileAt(t, r) /\ Get(t, r) = Entries(t.cache[b])[j]
         /\ i < Size(t, d) \div BLOCK_SIZE => Listed(t, d, r)
<1> DEFINE r == Pos(b, j)
<1>1. r \in InBlocks /\ r.blk = b /\ r.idx = j /\ r # Root /\ r \in Where
  BY Places DEF Where
<1> HIDE DEF r
<1>2. b \in Has(t, d)
  BY Numbers DEF Has
<1>3. In(t, d, r)
  BY <1>1, <1>2 DEF In, Folder
<1>4. FilePage(t, r)
  <2>1. d = Root \/ (d \in InBlocks /\ d.blk \in Has(t, Root))
    BY FolderIs DEF Where
  <2>2. Backed(t, r)
    BY <1>1, <1>2, <2>1 DEF Backed
  <2> QED BY <1>1, <2>2 DEF FilePage
<1>5. t.cache[b] # Unmapped
  BY DEF Unmapped
<1>6. Get(t, r) = FileAt(t, r)
  BY <1>1, <1>5, HereGet DEF Ready, Sound
<1>7. Get(t, r) = Entries(t.cache[b])[j]
  BY <1>1 DEF Get
<1>8. i < Size(t, d) \div BLOCK_SIZE => Listed(t, d, r)
  BY <1>1 DEF Listed, Folder
<1> QED BY <1>1, <1>3, <1>4, <1>6, <1>7, <1>8 DEF r

LEMMA DirStep ==
  ASSUME NEW s, NEW g, Shape(s, g), NEW d, Ready(s, d), Folder(s, d), d # g, NEW i \in Nat,
         i < Size(s, d) \div BLOCK_SIZE
  PROVE  LET h == dir_block(s, d, i) IN
         h.err \notin Stops =>
           /\ Rise(s, h.fs, g) /\ Ready(h.fs, d) /\ Folder(h.fs, d) /\ Size(h.fs, d) = Size(s, d)
           /\ Adds(s, h.fs, d, Spots(i))
           /\ h.err = "ok" => /\ i \in Indices /\ h.r \in Blocks /\ h.r = Slot(h.fs, d, i)
                              /\ h.fs.cache[h.r].kind \in {"zero", "dir"}
<1> DEFINE h == dir_block(s, d, i)
<1> SUFFICES ASSUME h.err \notin Stops
             PROVE  /\ Rise(s, h.fs, g) /\ Ready(h.fs, d) /\ Folder(h.fs, d) /\ Size(h.fs, d) = Size(s, d)
                    /\ Adds(s, h.fs, d, Spots(i))
                    /\ h.err = "ok" => /\ i \in Indices /\ h.r \in Blocks /\ h.r = Slot(h.fs, d, i)
                                       /\ h.fs.cache[h.r].kind \in {"zero", "dir"}
  OBVIOUS
<1>1. /\ Adds(s, h.fs, d, Spots(i))
      /\ h.err = "ok" => /\ i \in Indices /\ h.r \in Blocks /\ h.r = Slot(h.fs, d, i)
                         /\ h.fs.cache[h.r].kind \in {"zero", "dir"}
  BY DirExact
<1> HIDE DEF h
<1>2. d \in Where /\ Size(s, d) \in Nat /\ Type(s, d) = "DIR"
  BY FileTypes, FileFields DEF Ready, Sound, Size, Folder
<1>3. Spots(i) \cap Slots \subseteq Room(Nblocks(Size(s, d)))
  BY <1>2, DirRoom
<1>4. Shape(h.fs, g) /\ Grow(s, h.fs, g) /\ Fills(s, h.fs, {d})
  BY <1>1, <1>2, <1>3, AddsShape
<1>5. Folder(h.fs, d)
  BY <1>4, FolderGrow
<1>6. Fills(s, h.fs, Upper(h.fs))
  BY <1>4, <1>5 DEF Fills, Folder, Upper
<1> QED BY <1>1, <1>4, <1>5, <1>6 DEF Rise, Adds, h

LEMMA RiseReady ==
  ASSUME NEW s, NEW t, NEW g, Rise(s, t, g), NEW f, Ready(s, f)
  PROVE  Ready(t, f)
<1>1. FilePage(t, f)
  BY DEF Rise, Grow, Ready, FilePage, Where
<1> QED BY <1>1 DEF Rise, Shape, Ready

(* What a search of a directory returns. *)
Seeks(s, t, g, d) ==
  t.err \notin Stops =>
    Rise(s, t.fs, g) /\ Ready(t.fs, d) /\ Folder(t.fs, d) /\ Size(t.fs, d) = Size(s, d)
Hit(t, d, r, name) ==
  r \in InBlocks /\ FilePage(t, r) /\ Listed(t, d, r) /\ Name(t, r) = name
Looks(s, t, g, d, name) == Seeks(s, t, g, d) /\ (t.err = "ok" => Hit(t.fs, d, t.r, name))

LEMMA HitIs ==
  ASSUME NEW s, NEW g, Shape(s, g), NEW d, Ready(s, d), Folder(s, d), NEW r, r \in InBlocks,
         FilePage(s, r), Listed(s, d, r), NEW name, Get(s, r).name = name
  PROVE  LET u == Put(s, r, [Get(s, r) EXCEPT !.dir = d]) IN
         /\ Rise(s, u, g) /\ Ready(u, d) /\ Folder(u, d) /\ Size(u, d) = Size(s, d)
         /\ Hit(u, d, r, name)
<1> DEFINE u == Put(s, r, [Get(s, r) EXCEPT !.dir = d])
<1>1. Ready(s, r) /\ r \in Where /\ d \in Where /\ d \in Positions /\ r # Root
  BY Places DEF Ready, Where
<1>2. /\ Shape(u, g) /\ Grow(s, u, g) /\ u.free = s.free /\ Ready(u, r)
      /\ \A p \in Where : Alike(s, u, p)
  BY <1>1, DirectedExact
<1> HIDE DEF u
<1>3. Rise(s, u, g)
  BY <1>2 DEF Rise, Fills
<1>4. Folder(u, d) /\ Ready(u, d)
  BY <1>2, <1>3, FolderGrow, RiseReady
<1>5. Size(u, d) = Size(s, d) /\ Listed(u, d, r)
  <2>1. Alike(s, u, d) /\ Indices \subseteq Slots
    BY <1>1, <1>2, Numbers
  <2> QED BY <2>1 DEF Alike, Listed
<1>6. Name(u, r) = name
  <2>1. Name(s, r) = name
    BY <1>1, ReadyGet DEF Name
  <2> QED BY <1>1, <1>2, <2>1 DEF Alike
<1> QED BY <1>1, <1>2, <1>3, <1>4, <1>5, <1>6 DEF u, Hit, Ready

(* The entries of a block that have a name, and what dir_lookup makes of it. *)
Hits(h, name) == {j \in 0..(FILE2BLK - 1) : Entries(h.fs.cache[h.r])[j].name = name}
Looked(h, d, name) ==
  LET f == Pos(h.r, Min(Hits(h, name))) IN
  IF h.err # "ok" THEN h
  ELSE IF Hits(h, name) = {} THEN Fail(h.fs, "E_NOT_FOUND")
  ELSE Ok(Put(h.fs, f, [Get(h.fs, f) EXCEPT !.dir = d]), f)

LEMMA LookupStep ==
  ASSUME NEW s, NEW g, Shape(s, g), NEW d, Ready(s, d), Folder(s, d), d # g, NEW i \in Nat,
         i < Size(s, d) \div BLOCK_SIZE, NEW name
  PROVE  Looks(s, Looked(dir_block(s, d, i), d, name), g, d, name)
<1> DEFINE h == dir_block(s, d, i)
           hits == {j \in 0..(FILE2BLK - 1) : Entries(h.fs.cache[h.r])[j].name = name}
           f == Pos(h.r, Min(hits))
           u == Put(h.fs, f, [Get(h.fs, f) EXCEPT !.dir = d])
           l == Looked(h, d, name)
<1>1. l = IF h.err # "ok" THEN h ELSE IF hits = {} THEN Fail(h.fs, "E_NOT_FOUND") ELSE Ok(u, f)
  BY DEF Looked, Hits
<1>2. h.err \notin Stops =>
           /\ Rise(s, h.fs, g) /\ Ready(h.fs, d) /\ Folder(h.fs, d) /\ Size(h.fs, d) = Size(s, d)
           /\ h.err = "ok" => /\ i \in Indices /\ h.r \in Blocks /\ h.r = Slot(h.fs, d, i)
                              /\ h.fs.cache[h.r].kind \in {"zero", "dir"}
  BY DirStep
<1> HIDE DEF h, l, hits
<1>3. CASE h.err # "ok"
  BY <1>1, <1>2, <1>3 DEF Looks, Seeks, l, h
<1>4. CASE h.err = "ok" /\ hits = {}
  <2>1. l = Fail(h.fs, "E_NOT_FOUND")
    BY <1>1, <1>4
  <2>2. Looks(s, l, g, d, name)
    BY <1>2, <1>4, <2>1, Results DEF Looks, Seeks, Stops
  <2> QED BY <2>2 DEF l, h
<1>5. CASE h.err = "ok" /\ hits # {}
  <2>1. l = Ok(u, f)
    BY <1>1, <1>5
  <2>2. /\ Rise(s, h.fs, g) /\ Ready(h.fs, d) /\ Folder(h.fs, d) /\ Size(h.fs, d) = Size(s, d)
        /\ i \in Indices /\ h.r \in Blocks /\ h.r = Slot(h.fs, d, i)
        /\ h.fs.cache[h.r].kind \in {"zero", "dir"} /\ Shape(h.fs, g)
    BY <1>2, <1>5 DEF Stops, Rise
  <2>3. Min(hits) \in hits /\ Min(hits) \in Js
    <3>1. hits \in SUBSET Nat /\ hits \subseteq Js
      BY Numbers DEF Js, hits
    <3> QED BY <1>5, <3>1, MinIn
  <2> DEFINE m == Min(hits)
  <2>4. m \in Js /\ Entries(h.fs.cache[h.r])[m].name = name
    BY <2>3 DEF hits
  <2>5. f = Pos(h.r, m)
    OBVIOUS
  <2> HIDE DEF m, f
  <2>6. /\ f \in InBlocks /\ FilePage(h.fs, f) /\ Get(h.fs, f).name = name /\ Listed(h.fs, d, f)
    BY <2>2, <2>4, <2>5, EntryIs
  <2>7. /\ Rise(h.fs, u, g) /\ Ready(u, d) /\ Folder(u, d) /\ Size(u, d) = Size(h.fs, d)
        /\ Hit(u, d, f, name)
    BY <2>2, <2>6, HitIs
  <2> HIDE DEF u
  <2>8. Rise(s, u, g) /\ Size(u, d) = Size(s, d)
    BY <2>2, <2>7, RiseTrans
  <2>9. Looks(s, l, g, d, name)
    BY <2>1, <2>7, <2>8, Results DEF Looks, Seeks
  <2> QED BY <2>9 DEF l, h
<1> QED BY <1>3, <1>4, <1>5

LEMMA SeeksTrans ==
  ASSUME NEW s, NEW t, NEW l, NEW g, NEW d, Seeks(s, t, g, d), t.err \notin Stops,
         Seeks(t.fs, l, g, d)
  PROVE  Seeks(s, l, g, d)
BY RiseTrans DEF Seeks

LEMMA SeeksSelf ==
  ASSUME NEW s, NEW g, Shape(s, g), NEW d, Ready(s, d), Folder(s, d), NEW e
  PROVE  Seeks(s, Fail(s, e), g, d) /\ Seeks(s, Ok(s, e), g, d)
BY RiseSelf, Results DEF Seeks

LEMMA SizeDiv ==
  ASSUME NEW s, NEW d, Ready(s, d)
  PROVE  Get(s, d).size = Size(s, d) /\ Size(s, d) \in Nat /\ Size(s, d) \div BLOCK_SIZE \in Nat
<1>1. Get(s, d) = FileAt(s, d) /\ Get(s, d) \in File
  BY ReadyGet
<1>2. Get(s, d).size \in Nat
  BY <1>1, FileFields
<1> QED BY <1>1, <1>2, DivNat, Numbers DEF Size

LEMMA LookupExact ==
  ASSUME NEW s, NEW g, Shape(s, g), NEW d, Ready(s, d), Folder(s, d), d # g, NEW name
  PROVE  Looks(s, dir_lookup(s, d, name), g, d, name)
<1> DEFINE n == Get(s, d).size \div BLOCK_SIZE
           step(t, i) == IF t.err # "E_NOT_FOUND" THEN t
                         ELSE Looked(dir_block(t.fs, d, i - 1), d, name)
           Loop(h, k) == h = [i \in 0..k |-> IF i = 0 THEN Fail(s, "E_NOT_FOUND")
                                             ELSE step(h[i - 1], i)]
           g0 == CHOOSE h : Loop(h, n)
           Fine(t) == Looks(s, t, g, d, name)
<1>1. dir_lookup(s, d, name) = g0[n]
  BY DEF dir_lookup, Looked, Hits
<1>2. n \in Nat /\ n = Size(s, d) \div BLOCK_SIZE
  BY SizeDiv
<1>3. ASSUME NEW t, NEW i \in 1..n, Fine(t) PROVE Fine(step(t, i))
  <2>1. CASE t.err # "E_NOT_FOUND"
    BY <1>3, <2>1
  <2>2. CASE t.err = "E_NOT_FOUND"
    <3>1. /\ Seeks(s, t, g, d) /\ t.err \notin Stops /\ Shape(t.fs, g) /\ Ready(t.fs, d)
          /\ Folder(t.fs, d) /\ Size(t.fs, d) = Size(s, d)
      BY <1>3, <2>2 DEF Looks, Seeks, Stops, Rise
    <3>2. i - 1 \in Nat /\ i - 1 < Size(t.fs, d) \div BLOCK_SIZE
      BY <1>2, <3>1
    <3>3. step(t, i) = Looked(dir_block(t.fs, d, i - 1), d, name)
      BY <2>2
    <3>4. Looks(t.fs, Looked(dir_block(t.fs, d, i - 1), d, name), g, d, name)
      BY <3>1, <3>2, LookupStep
    <3> HIDE DEF step
    <3> QED BY <3>1, <3>3, <3>4, SeeksTrans DEF Looks
  <2> QED BY <2>1, <2>2
<1>4. Fine(Fail(s, "E_NOT_FOUND"))
  BY SeeksSelf, Results DEF Looks
<1> HIDE DEF step, Fine, n
<1>5. \E h : Loop(h, n)
  <2> DEFINE S == {k \in Nat : \E h : Loop(h, k)}
  <2>1. 0 \in S
    <3>1. Loop([i \in {0} |-> Fail(s, "E_NOT_FOUND")], 0)
      OBVIOUS
    <3> QED BY <3>1
  <2>2. ASSUME NEW k \in 1..n, k - 1 \in S PROVE k \in S
    <3>1. PICK h : Loop(h, k - 1)
      BY <2>2
    <3> DEFINE z == [i \in 0..k |-> IF i # k THEN h[i] ELSE step(h[k - 1], k)]
    <3>2. ASSUME NEW i \in 0..k
          PROVE  z[i] = IF i = 0 THEN Fail(s, "E_NOT_FOUND") ELSE step(z[i - 1], i)
      BY <3>1
    <3>3. Loop(z, k)
      BY <3>2
    <3> HIDE DEF z
    <3> QED BY <1>2, <3>3
  <2> HIDE DEF S
  <2>3. n \in S
    BY <1>2, <2>1, <2>2, Upto
  <2> QED BY <2>3 DEF S
<1>6. Loop(g0, n)
  BY <1>5
<1> HIDE DEF g0
<1>7. \A i \in 0..n : g0[i] = IF i = 0 THEN Fail(s, "E_NOT_FOUND") ELSE step(g0[i - 1], i)
  BY <1>6
<1> DEFINE S == {i \in 0..n : Fine(g0[i])}
<1>8. 0 \in S
  BY <1>2, <1>7, <1>4
<1>9. ASSUME NEW i \in 1..n, i - 1 \in S PROVE i \in S
  BY <1>2, <1>3, <1>7, <1>9
<1> HIDE DEF S
<1>10. n \in S
  BY <1>2, <1>8, <1>9, Upto
<1> QED BY <1>1, <1>10 DEF S, Fine

(* dir_alloc_file returns a File that no path finds, and that lacks none of *)
(* the blocks its size counts. *)
Spare(s, t, f) ==
  f \in InBlocks /\ FilePage(t, f) /\ ~Found(s, f) /\ f \notin Top(s) /\ Whole(t, f)

Picked(h) ==
  IF h.err # "ok" THEN h
  ELSE IF Hits(h, NoName) = {} THEN Fail(h.fs, "none")
  ELSE Ok(h.fs, Pos(h.r, Min(Hits(h, NoName))))

Picks(s, t, g, d) == Seeks(s, t, g, d) /\ (t.err = "ok" => Spare(s, t.fs, t.r))

LEMMA SpareGrow ==
  ASSUME NEW s, NEW t, NEW u, NEW g, Grow(s, t, g), NEW f, Spare(t, u, f)
  PROVE  Spare(s, u, f)
BY DEF Spare, Grow

LEMMA UnnamedSpare ==
  ASSUME NEW s, NEW g, Shape(s, g), NEW f \in InBlocks, FilePage(s, f), Name(s, f) = NoName
  PROVE  Spare(s, s, f)
<1>1. ~Found(s, f) /\ f \notin Top(s)
  BY DEF Found, Top, Called
<1>2. Size(s, f) = 0
  BY DEF Shape, Nameless
<1>3. Whole(s, f)
  BY <1>2, Numbers, NblocksMono DEF Whole, Indices
<1> QED BY <1>1, <1>3 DEF Spare

LEMMA PickStep ==
  ASSUME NEW s, NEW g, Shape(s, g), NEW d, Ready(s, d), Folder(s, d), d # g, NEW i \in Nat,
         i < Size(s, d) \div BLOCK_SIZE
  PROVE  Picks(s, Picked(dir_block(s, d, i)), g, d)
<1> DEFINE h == dir_block(s, d, i)
           hits == Hits(h, NoName)
           f == Pos(h.r, Min(hits))
           l == Picked(h)
<1>1. l = IF h.err # "ok" THEN h ELSE IF hits = {} THEN Fail(h.fs, "none") ELSE Ok(h.fs, f)
  BY DEF Picked
<1>2. h.err \notin Stops =>
           /\ Rise(s, h.fs, g) /\ Ready(h.fs, d) /\ Folder(h.fs, d) /\ Size(h.fs, d) = Size(s, d)
           /\ h.err = "ok" => /\ i \in Indices /\ h.r \in Blocks /\ h.r = Slot(h.fs, d, i)
                              /\ h.fs.cache[h.r].kind \in {"zero", "dir"}
  BY DirStep
<1> HIDE DEF h, l
<1>3. CASE h.err # "ok"
  BY <1>1, <1>2, <1>3 DEF Picks, Seeks, l, h
<1>4. CASE h.err = "ok" /\ hits = {}
  <2>1. l = Fail(h.fs, "none")
    BY <1>1, <1>4
  <2>2. Picks(s, l, g, d)
    BY <1>2, <1>4, <2>1, Results DEF Picks, Seeks, Stops
  <2> QED BY <2>2 DEF l, h
<1>5. CASE h.err = "ok" /\ hits # {}
  <2>1. l = Ok(h.fs, f)
    BY <1>1, <1>5
  <2>2. /\ Rise(s, h.fs, g) /\ Ready(h.fs, d) /\ Folder(h.fs, d) /\ Size(h.fs, d) = Size(s, d)
        /\ i \in Indices /\ h.r \in Blocks /\ h.r = Slot(h.fs, d, i)
        /\ h.fs.cache[h.r].kind \in {"zero", "dir"} /\ Shape(h.fs, g)
    BY <1>2, <1>5 DEF Stops, Rise
  <2> DEFINE m == Min(hits)
  <2>3. m \in Js /\ Entries(h.fs.cache[h.r])[m].name = NoName
    <3>1. hits \in SUBSET Nat /\ hits \subseteq Js
      BY Numbers DEF Js, Hits
    <3>2. m \in hits
      BY <1>5, <3>1, MinIn
    <3> QED BY <3>1, <3>2 DEF Hits
  <2>4. f = Pos(h.r, m)
    OBVIOUS
  <2> HIDE DEF m, f
  <2>5. /\ f \in InBlocks /\ FilePage(h.fs, f) /\ Get(h.fs, f).name = NoName
        /\ Get(h.fs, f) = FileAt(h.fs, f)
    BY <2>2, <2>3, <2>4, EntryIs
  <2>6. Spare(h.fs, h.fs, f)
    BY <2>2, <2>5, UnnamedSpare DEF Name
  <2>7. Spare(s, h.fs, f)
    BY <2>2, <2>6, SpareGrow DEF Rise
  <2>8. Picks(s, l, g, d)
    BY <2>1, <2>2, <2>7, Results DEF Picks, Seeks
  <2> QED BY <2>8 DEF l, h
<1> QED BY <1>3, <1>4, <1>5

LEMMA NblocksEven ==
  ASSUME NEW n \in Nat, n % BLOCK_SIZE = 0
  PROVE  Nblocks(n) = n \div BLOCK_SIZE
<1> DEFINE q == n \div BLOCK_SIZE
           k == BLOCK_SIZE
<1>1. k \in Nat \ {0}
  BY Numbers
<1> HIDE DEF k
<1>2. q \in Nat /\ n = k * q + 0
  BY <1>1, DivNat DEF k
<1> HIDE DEF q
<1>3. n + k - 1 = k * q + (k - 1) /\ n + k - 1 \in Nat /\ k - 1 \in 0..(k - 1)
  BY <1>1, <1>2
<1>4. (n + k - 1) \div k = q
  BY <1>1, <1>2, <1>3, Quotient
<1>5. q * k = k * q + 0 /\ q * k \in Nat /\ 0 \in 0..(k - 1)
  BY <1>1, <1>2
<1>6. (q * k) \div k = q
  BY <1>1, <1>2, <1>5, Quotient
<1> QED BY <1>4, <1>6 DEF Nblocks, ROUND, k, q

(* The first entry of the block that a directory gets.  The page may hold   *)
(* Files of a directory that was removed; no path finds them.               *)
LEMMA NextSpare ==
  ASSUME NEW s, NEW g, Shape(s, g), NEW d, Folder(s, d), g \notin InBlocks,
         NEW n \in Indices, n = Size(s, d) \div BLOCK_SIZE,
         NEW u, Shape(u, g), Marks(s, u, d), NEW t, NEW I, Adds(u, t, d, I),
         NEW b \in Blocks, b = Slot(t, d, n), NEW j \in Js, FilePage(t, Pos(b, j))
  PROVE  Spare(s, t, Pos(b, j))
<1> DEFINE f == Pos(b, j)
<1>1. /\ f \in InBlocks /\ f.blk = b /\ f # Root /\ f \in Where /\ Root \in Where /\ Root \notin InBlocks
  BY Places DEF Where
<1> HIDE DEF f
<1>2. Sound(s) /\ Typed(s) /\ Sound(u) /\ d \in Where /\ d \in Reach(s) /\ n \in Slots /\ b # 0
  BY SoundIs, FolderIs, Numbers DEF Shape
<1>3. Slot(u, d, n) = Slot(s, d, n) /\ u.free = s.free /\ Has(u, Root) = Has(s, Root)
  BY <1>1, <1>2, MarksIs
<1>4. b = Slot(s, d, n) \/ b \in s.free
  BY <1>2, <1>3 DEF Adds
<1>5. ~Found(s, f) /\ f \notin Top(s) /\ f.blk \notin Has(s, Root) /\ f # d
  <2>1. CASE b \in s.free
    <3>1. f \notin Reach(s)
      BY <1>1, <1>2, <2>1, ReachIs DEF Live
    <3>2. b \notin Has(s, Root)
      BY <1>1, <1>2, <2>1, Numbers DEF Has, Sound, NotFree
    <3> QED BY <1>1, <1>2, <3>1, <3>2, FoundReach DEF Reach
  <2>2. CASE b = Slot(s, d, n)
    <3>1. b \in Has(s, d)
      BY <1>2, <2>2 DEF Has
    <3>2. f # d
      BY <1>1, <1>2, <2>2, ReachIs
    <3>3. f.blk \notin Has(s, Root)
      <4>1. SUFFICES ASSUME d = Root PROVE FALSE
        BY <1>1, <1>2, <3>1, OneOwner
      <4>2. Size(s, Root) \in Nat /\ Size(s, Root) % BLOCK_SIZE = 0 /\ FitsAt(s, Root)
        BY <1>1, <1>2, FileTypes, FileFields DEF Size, Shape, RootIs
      <4>3. Nblocks(Size(s, Root)) = n
        BY <4>1, <4>2, NblocksEven
      <4>4. n \in Room(n)
        BY <1>2, <2>2, <4>1, <4>2, <4>3 DEF FitsAt
      <4> QED BY <4>4, Numbers DEF Room, Indices
    <3>4. ASSUME NEW e \in Where, Listed(s, e, f) PROVE FALSE
      <4>1. f.blk \in Has(s, e)
        BY <1>1, <3>4, ListedIn DEF In
      <4>2. e = d
        BY <1>1, <1>2, <3>1, <4>1, OneOwner
      <4>3. PICK i \in Indices : i < n /\ Slot(s, d, i) = b
        BY <1>1, <3>4, <4>2 DEF Listed
      <4>4. i = n
        BY <1>2, <2>2, <4>3, Numbers DEF Sound, Unique
      <4> QED BY <4>3, <4>4, Numbers DEF Indices
    <3>5. ~Found(s, f)
      BY <1>1, <3>4 DEF Found, Where
    <3> QED BY <3>2, <3>3, <3>5 DEF Top, In
  <2> QED BY <1>4, <2>1, <2>2
<1>6. Whole(u, f)
  BY <1>1, <1>3, <1>5 DEF Shape, Full
<1>7. Alike(u, t, f) \/ Void(t, f)
  BY <1>1, <1>5 DEF Adds
<1>8. Whole(t, f)
  BY <1>6, <1>7, AlikeFits, VoidFits
<1> QED BY <1>1, <1>5, <1>8 DEF Spare, f

LEMMA AllocFileExact ==
  ASSUME NEW s, NEW g, Shape(s, g), NEW d, Ready(s, d), Folder(s, d), d # g, g \notin InBlocks
  PROVE  LET t == dir_alloc_file(s, d) IN
         t.err \notin Stops => Rise(s, t.fs, g) /\ (t.err = "ok" => Spare(s, t.fs, t.r))
<1> DEFINE n == Get(s, d).size \div BLOCK_SIZE
           step(t, i) == IF t.err # "none" THEN t ELSE Picked(dir_block(t.fs, d, i - 1))
           Loop(h, k) == h = [i \in 0..k |-> IF i = 0 THEN Fail(s, "none") ELSE step(h[i - 1], i)]
           g0 == CHOOSE h : Loop(h, n)
           Fine(t) == Picks(s, t, g, d)
           t0 == g0[n]
           u == Put(t0.fs, d, [Get(t0.fs, d) EXCEPT !.size = @ + BLOCK_SIZE])
           b0 == dir_block(u, d, n)
           z == dir_alloc_file(s, d)
<1> SUFFICES ASSUME z.err \notin Stops
             PROVE  Rise(s, z.fs, g) /\ (z.err = "ok" => Spare(s, z.fs, z.r))
  OBVIOUS
<1>1. z = IF t0.err # "none" THEN t0
          ELSE IF b0.err # "ok" THEN b0 ELSE Ok(b0.fs, Pos(b0.r, 0))
  BY DEF dir_alloc_file, Then, Picked, Hits
<1>2. n \in Nat /\ n = Size(s, d) \div BLOCK_SIZE
  BY SizeDiv
<1>3. ASSUME NEW t, NEW i \in 1..n, Fine(t) PROVE Fine(step(t, i))
  <2>1. CASE t.err # "none"
    BY <1>3, <2>1
  <2>2. CASE t.err = "none"
    <3>1. /\ Seeks(s, t, g, d) /\ t.err \notin Stops /\ Shape(t.fs, g) /\ Ready(t.fs, d)
          /\ Folder(t.fs, d) /\ Size(t.fs, d) = Size(s, d) /\ Grow(s, t.fs, g)
      BY <1>3, <2>2 DEF Picks, Seeks, Stops, Rise
    <3>2. i - 1 \in Nat /\ i - 1 < Size(t.fs, d) \div BLOCK_SIZE
      BY <1>2, <3>1
    <3>3. step(t, i) = Picked(dir_block(t.fs, d, i - 1))
      BY <2>2
    <3>4. Picks(t.fs, Picked(dir_block(t.fs, d, i - 1)), g, d)
      BY <3>1, <3>2, PickStep
    <3> HIDE DEF step
    <3> QED BY <3>1, <3>3, <3>4, SeeksTrans, SpareGrow DEF Picks
  <2> QED BY <2>1, <2>2
<1>4. Fine(Fail(s, "none"))
  BY SeeksSelf, Results DEF Picks
<1> HIDE DEF step, Fine, n
<1>5. \E h : Loop(h, n)
  <2> DEFINE S == {k \in Nat : \E h : Loop(h, k)}
  <2>1. 0 \in S
    <3>1. Loop([i \in {0} |-> Fail(s, "none")], 0)
      OBVIOUS
    <3> QED BY <3>1
  <2>2. ASSUME NEW k \in 1..n, k - 1 \in S PROVE k \in S
    <3>1. PICK h : Loop(h, k - 1)
      BY <2>2
    <3> DEFINE y == [i \in 0..k |-> IF i # k THEN h[i] ELSE step(h[k - 1], k)]
    <3>2. ASSUME NEW i \in 0..k
          PROVE  y[i] = IF i = 0 THEN Fail(s, "none") ELSE step(y[i - 1], i)
      BY <3>1
    <3>3. Loop(y, k)
      BY <3>2
    <3> HIDE DEF y
    <3> QED BY <1>2, <3>3
  <2> HIDE DEF S
  <2>3. n \in S
    BY <1>2, <2>1, <2>2, Upto
  <2> QED BY <2>3 DEF S
<1>6. Loop(g0, n)
  BY <1>5
<1> HIDE DEF g0
<1>7. \A i \in 0..n : g0[i] = IF i = 0 THEN Fail(s, "none") ELSE step(g0[i - 1], i)
  BY <1>6
<1> DEFINE S == {i \in 0..n : Fine(g0[i])}
<1>8. 0 \in S
  BY <1>2, <1>7, <1>4
<1>9. ASSUME NEW i \in 1..n, i - 1 \in S PROVE i \in S
  BY <1>2, <1>3, <1>7, <1>9
<1> HIDE DEF S
<1>10. n \in S
  BY <1>2, <1>8, <1>9, Upto
<1>11. Picks(s, t0, g, d)
  BY <1>10 DEF S, Fine
<1> HIDE DEF t0, z
<1>12. CASE t0.err # "none"
  BY <1>1, <1>11, <1>12 DEF Picks, Seeks, z
<1>13. CASE t0.err = "none"
  <2>1. /\ Rise(s, t0.fs, g) /\ Ready(t0.fs, d) /\ Folder(t0.fs, d) /\ Size(t0.fs, d) = Size(s, d)
        /\ Shape(t0.fs, g) /\ Grow(s, t0.fs, g)
    BY <1>11, <1>13 DEF Picks, Seeks, Stops, Rise
  <2>2. /\ Shape(u, g) /\ Grow(t0.fs, u, g) /\ u.free = t0.fs.free /\ Ready(u, d)
        /\ Size(u, d) = Size(t0.fs, d) + BLOCK_SIZE /\ Marks(t0.fs, u, d)
    BY <2>1, GrownExact
  <2> HIDE DEF u
  <2>3. Rise(t0.fs, u, g)
    BY <2>1, <2>2 DEF Rise, Fills
  <2>4. Folder(u, d)
    BY <2>1, <2>2, FolderGrow
  <2>5. n < Size(u, d) \div BLOCK_SIZE
    <3>1. Size(s, d) \in Nat /\ BLOCK_SIZE \in Nat \ {0}
      BY SizeDiv, Numbers
    <3>2. (Size(s, d) + BLOCK_SIZE) \div BLOCK_SIZE = Size(s, d) \div BLOCK_SIZE + 1
      BY <3>1, DivGrown
    <3> QED BY <1>2, <2>1, <2>2, <3>2
  <2>6. b0.err \notin Stops =>
           /\ Rise(u, b0.fs, g) /\ Ready(b0.fs, d) /\ Folder(b0.fs, d)
           /\ Adds(u, b0.fs, d, Spots(n))
           /\ b0.err = "ok" => /\ n \in Indices /\ b0.r \in Blocks /\ b0.r = Slot(b0.fs, d, n)
                               /\ b0.fs.cache[b0.r].kind \in {"zero", "dir"}
    BY <1>2, <2>2, <2>4, <2>5, DirStep
  <2> HIDE DEF b0
  <2>7. b0.err \notin Stops => Rise(s, b0.fs, g)
    BY <2>1, <2>3, <2>6, RiseTrans
  <2>8. CASE b0.err # "ok"
    BY <1>1, <1>13, <2>7, <2>8 DEF z
  <2>9. CASE b0.err = "ok"
    <3>1. z.fs = b0.fs /\ z.r = Pos(b0.r, 0) /\ b0.err \notin Stops
      BY <1>1, <1>13, <2>9, Results DEF Stops
    <3>2. FilePage(b0.fs, Pos(b0.r, 0)) /\ 0 \in Js
      BY <2>6, <2>9, <3>1, EntryIs, Numbers
    <3>3. Spare(t0.fs, b0.fs, Pos(b0.r, 0))
      BY <1>2, <2>1, <2>2, <2>6, <2>9, <3>1, <3>2, NextSpare
    <3>4. Spare(s, b0.fs, Pos(b0.r, 0))
      BY <2>1, <3>3, SpareGrow
    <3> QED BY <2>7, <3>1, <3>4 DEF z
  <2> QED BY <2>8, <2>9
<1> QED BY <1>12, <1>13

-----------------------------------------------------------------------------
(* A path.                                                                  *)
WalkAt(t, f, e, d) == [fs |-> t, r |-> f, err |-> e, dir |-> d]
WalkStep(w, path, i) ==
  LET l == dir_lookup(w.fs, w.r, path[i]) IN
  IF w.err # "ok" THEN w
  ELSE IF Get(w.fs, w.r).type # "DIR" THEN WalkAt(w.fs, Nil, "E_NOT_FOUND", Nil)
  ELSE WalkAt(l.fs, l.r, l.err,
              IF l.err = "ok" \/ (l.err = "E_NOT_FOUND" /\ i = Len(path)) THEN w.r ELSE Nil)

LEMMA WalkIs ==
  ASSUME NEW s, NEW path \in Paths
  PROVE  LET w == WalkStep(WalkAt(s, Root, "ok", Nil), path, 1) IN
         walk_path(s, path) = IF Len(path) = 1 THEN w ELSE WalkStep(w, path, 2)
<1> DEFINE n == Len(path)
           start == WalkAt(s, Root, "ok", Nil)
           step(w, i) == WalkStep(w, path, i)
           Loop(g, k) == g = [i \in 0..k |-> IF i = 0 THEN start ELSE step(g[i - 1], i)]
           g0 == CHOOSE g : Loop(g, n)
<1>1. walk_path(s, path) = g0[n]
  BY DEF walk_path, Then, WalkAt, WalkStep
<1>2. n \in Nat /\ n \in 1..2
  BY PathIs
<1> HIDE DEF step, start, n
<1>3. \E g : Loop(g, n)
  <2> DEFINE S == {k \in Nat : \E g : Loop(g, k)}
  <2>1. 0 \in S
    <3>1. Loop([i \in {0} |-> start], 0)
      OBVIOUS
    <3> QED BY <3>1
  <2>2. ASSUME NEW k \in 1..n, k - 1 \in S PROVE k \in S
    <3>1. PICK g : Loop(g, k - 1)
      BY <2>2
    <3> DEFINE h == [i \in 0..k |-> IF i # k THEN g[i] ELSE step(g[k - 1], k)]
    <3>2. ASSUME NEW i \in 0..k
          PROVE  h[i] = IF i = 0 THEN start ELSE step(h[i - 1], i)
      BY <3>1
    <3>3. Loop(h, k)
      BY <3>2
    <3> HIDE DEF h
    <3> QED BY <1>2, <3>3
  <2> HIDE DEF S
  <2>3. n \in S
    BY <1>2, <2>1, <2>2, Upto
  <2> QED BY <2>3 DEF S
<1>4. Loop(g0, n)
  BY <1>3
<1> HIDE DEF g0
<1>5. \A i \in 0..n : g0[i] = IF i = 0 THEN start ELSE step(g0[i - 1], i)
  BY <1>4
<1>6. g0[0] = start /\ g0[1] = step(start, 1) /\ (n # 1 => n = 2 /\ g0[2] = step(g0[1], 2))
  BY <1>2, <1>5
<1> QED BY <1>1, <1>6 DEF step, start, n

(* The File that a path leads to. *)
Leads(t, path, r) ==
  /\ r \in InBlocks /\ FilePage(t, r) /\ Name(t, r) = path[Len(path)]
  /\ IF Len(path) = 1 THEN Listed(t, Root, r)
     ELSE \E d \in InBlocks : Name(t, d) = path[1] /\ Listed(t, Root, d) /\ Listed(t, d, r)

LEMMA LeadsFound ==
  ASSUME NEW t, NEW path \in Paths, NEW r, Leads(t, path, r)
  PROVE  Found(t, r) /\ r \in Reach(t) /\ r \in InBlocks /\ FilePage(t, r)
<1>1. path[1] \in Names /\ path[Len(path)] \in Names /\ NoName \notin Names
  BY PathIs, SizesAssumption
<1>2. Found(t, r)
  BY <1>1 DEF Leads, Found, Called
<1> QED BY <1>2, FoundReach DEF Leads

(* A directory on the way. *)
LEMMA StepFolder ==
  ASSUME NEW s, NEW g, Shape(s, g), NEW d \in Where, FilePage(s, d), NEW name \in Names,
         d = Root \/ (Listed(s, Root, d) /\ Name(s, d) = name), Get(s, d).type = "DIR"
  PROVE  Ready(s, d) /\ Folder(s, d)
<1>1. Ready(s, d) /\ Sound(s) /\ Typed(s)
  BY SoundIs DEF Ready, Shape
<1>2. Type(s, d) = "DIR"
  BY <1>1, ReadyGet DEF Type
<1>3. CASE d = Root
  BY <1>1, <1>2, <1>3 DEF Folder
<1>4. CASE d # Root
  <2>1. d \in InBlocks /\ Called(s, d)
    BY <1>4, SizesAssumption DEF Where, Called
  <2>2. In(s, Root, d)
    BY <1>4, <2>1, ListedIn
  <2> QED BY <1>1, <1>2, <2>1, <2>2 DEF Folder, Top
<1> QED BY <1>3, <1>4

(* Of two directories only one has a block, whatever is added to them.      *)
LEMMA ListedStays ==
  ASSUME NEW s, NEW t, NEW g, Shape(s, g), Shape(t, g), Grow(s, t, g), NEW d \in InBlocks,
         Listed(s, Root, d), Called(s, d)
  PROVE  Listed(t, Root, d) /\ SameName(s, t, d)
<1>1. Found(s, d) /\ d \in Top(s)
  BY ListedIn DEF Found, Top
<1>2. Found(t, d) /\ SameName(s, t, d) /\ d \in Top(t)
  BY <1>1 DEF Grow
<1>3. ASSUME NEW e \in InBlocks, Listed(t, e, d) PROVE FALSE
  <2>1. d.blk \in Has(t, e) /\ d.blk \in Has(t, Root)
    BY <1>2, <1>3, ListedIn DEF In, Top
  <2> QED BY <2>1, OneOwner, Places DEF Shape, Where
<1> QED BY <1>2, <1>3 DEF Found

(* What walk_path returns: the File, or the directory that lacks it.        *)
Misses(w) ==
  w.err = "E_NOT_FOUND" /\ w.dir # Nil => Ready(w.fs, w.dir) /\ Folder(w.fs, w.dir)
Walks(s, w, path) ==
  w.err \notin Stops =>
    /\ Rise(s, w.fs, Nil) /\ Misses(w)
    /\ w.err = "ok" => Leads(w.fs, path, w.r)

LEMMA StepExact ==
  ASSUME NEW s, Shape(s, Nil), NEW path \in Paths, NEW i \in 1..Len(path), NEW w,
         w.err = "ok", w.fs = s, w.r \in Where, FilePage(s, w.r),
         w.r = Root \/ (Listed(s, Root, w.r) /\ Name(s, w.r) = path[1])
  PROVE  LET x == WalkStep(w, path, i) IN
         x.err \notin Stops =>
           /\ Rise(s, x.fs, Nil) /\ Misses(x)
           /\ x.err = "ok" => Hit(x.fs, w.r, x.r, path[i]) /\ Type(s, w.r) = "DIR"
<1> DEFINE x == WalkStep(w, path, i)
           d == w.r
           l == dir_lookup(s, d, path[i])
<1> SUFFICES ASSUME x.err \notin Stops
             PROVE  /\ Rise(s, x.fs, Nil) /\ Misses(x)
                    /\ x.err = "ok" => Hit(x.fs, d, x.r, path[i]) /\ Type(s, d) = "DIR"
  OBVIOUS
<1>1. x = IF Get(s, d).type # "DIR" THEN WalkAt(s, Nil, "E_NOT_FOUND", Nil)
          ELSE WalkAt(l.fs, l.r, l.err,
                      IF l.err = "ok" \/ (l.err = "E_NOT_FOUND" /\ i = Len(path)) THEN d ELSE Nil)
  BY DEF WalkStep
<1>2. path[1] \in Names /\ d # Nil
  BY PathIs, Places
<1> HIDE DEF x, d
<1>3. CASE Get(s, d).type # "DIR"
  <2>1. x.fs = s /\ x.err = "E_NOT_FOUND" /\ x.dir = Nil
    BY <1>1, <1>3 DEF WalkAt
  <2> QED BY <2>1, RiseSelf DEF Misses
<1>4. CASE Get(s, d).type = "DIR"
  <2>1. Ready(s, d) /\ Folder(s, d)
    BY <1>2, <1>4, StepFolder DEF d
  <2>2. Looks(s, l, Nil, d, path[i])
    BY <1>2, <2>1, LookupExact
  <2> HIDE DEF l
  <2>3. x.fs = l.fs /\ x.r = l.r /\ x.err = l.err /\ (x.dir = d \/ x.dir = Nil)
    BY <1>1, <1>4 DEF WalkAt
  <2>4. /\ Rise(s, x.fs, Nil) /\ Ready(x.fs, d) /\ Folder(x.fs, d)
        /\ x.err = "ok" => Hit(x.fs, d, x.r, path[i])
    BY <2>2, <2>3 DEF Looks, Seeks, x
  <2> QED BY <2>1, <2>3, <2>4 DEF Misses, Folder, x, d
<1> QED BY <1>3, <1>4

LEMMA WalkPathExact ==
  ASSUME NEW s, Shape(s, Nil), NEW path \in Paths
  PROVE  Walks(s, walk_path(s, path), path)
<1> DEFINE v == WalkAt(s, Root, "ok", Nil)
           w == WalkStep(v, path, 1)
           x == WalkStep(w, path, 2)
<1>1. walk_path(s, path) = IF Len(path) = 1 THEN w ELSE x
  BY WalkIs
<1>2. Len(path) \in 1..2 /\ path[1] \in Names
  BY PathIs
<1>3. v.fs = s /\ v.r = Root /\ v.err = "ok" /\ Root \in Where /\ FilePage(s, Root)
  BY DEF WalkAt, Where, FilePage
<1> HIDE DEF v
<1>4. w.err \notin Stops =>
        /\ Rise(s, w.fs, Nil) /\ Misses(w)
        /\ w.err = "ok" => Hit(w.fs, Root, w.r, path[1])
  BY <1>2, <1>3, StepExact
<1> HIDE DEF w
<1>5. CASE Len(path) = 1
  BY <1>1, <1>4, <1>5 DEF Walks, Leads, Hit
<1>6. CASE Len(path) # 1
  <2>1. Len(path) = 2 /\ walk_path(s, path) = x
    BY <1>1, <1>2, <1>6
  <2>2. CASE w.err # "ok"
    <3>1. x = w
      BY <2>2 DEF WalkStep
    <3> QED BY <1>4, <2>1, <2>2, <3>1 DEF Walks
  <2>3. CASE w.err = "ok"
    <3> DEFINE d == w.r
    <3>1. /\ Rise(s, w.fs, Nil) /\ Shape(w.fs, Nil) /\ d \in InBlocks /\ FilePage(w.fs, d)
          /\ Listed(w.fs, Root, d) /\ Name(w.fs, d) = path[1] /\ d \in Where
      BY <1>4, <2>3 DEF Stops, Rise, Hit, Where
    <3>2. x.err \notin Stops =>
            /\ Rise(w.fs, x.fs, Nil) /\ Misses(x)
            /\ x.err = "ok" => Hit(x.fs, d, x.r, path[2])
      BY <2>1, <2>3, <3>1, StepExact
    <3> HIDE DEF x
    <3>3. x.err \notin Stops => Rise(s, x.fs, Nil)
      BY <3>1, <3>2, RiseTrans
    <3>4. ASSUME x.err = "ok" PROVE Leads(x.fs, path, x.r)
      <4>1. Rise(w.fs, x.fs, Nil) /\ Hit(x.fs, d, x.r, path[2])
        BY <3>2, <3>4 DEF Stops
      <4>2. Called(w.fs, d)
        BY <1>2, <3>1, SizesAssumption DEF Called
      <4>3. Listed(x.fs, Root, d) /\ SameName(w.fs, x.fs, d)
        BY <3>1, <4>1, <4>2, ListedStays DEF Rise
      <4> QED BY <2>1, <3>1, <4>1, <4>3 DEF Leads, Hit, SameName
    <3> QED BY <2>1, <3>2, <3>3, <3>4 DEF Walks
  <2> QED BY <2>2, <2>3
<1> QED BY <1>5, <1>6

-----------------------------------------------------------------------------
(* A File that no path finds gets a name, and then a type.                  *)
LEMMA SpareFound ==
  ASSUME NEW s, NEW t, Rise(s, t, Nil), NEW f, Spare(s, t, f), NEW u, Marks(t, u, f), NEW p,
         Found(s, p)
  PROVE  Found(u, p) /\ p # f
<1>1. p # f /\ Found(t, p) /\ p \in InBlocks /\ f \in InBlocks /\ f # Root
  BY Places DEF Spare, Rise, Grow, Found
<1>2. Sound(t) /\ Typed(t) /\ Root \in Where /\ InBlocks \subseteq Where
  BY SoundIs DEF Rise, Shape, Where
<1>3. \A q \in Where : q # f => Alike(t, u, q)
  BY DEF Marks, Edits
<1>4. \A q \in Where : q # f => \A x : Listed(t, q, x) => Listed(u, q, x)
  BY <1>3, Numbers DEF Listed, Alike
<1>5. \A q \in Where : q # f /\ Called(t, q) => Called(u, q)
  BY <1>3 DEF Called, Alike
<1>6. CASE Listed(t, Root, p)
  BY <1>1, <1>2, <1>4, <1>5, <1>6 DEF Found
<1>7. CASE \E d \in InBlocks : Called(t, d) /\ Listed(t, Root, d) /\ Listed(t, d, p)
  <2>1. PICK d \in InBlocks : Called(t, d) /\ Listed(t, Root, d) /\ Listed(t, d, p)
    BY <1>7
  <2>2. p.blk \in Has(t, d) /\ d # Root
    BY <1>1, <2>1, ListedIn, Places DEF In
  <2>3. ~Listed(s, Root, p)
    <3>1. SUFFICES ASSUME Listed(s, Root, p) PROVE FALSE
      OBVIOUS
    <3>2. p \in Top(s)
      BY <1>1, <3>1, ListedIn DEF Top, Found
    <3>3. p.blk \in Has(t, Root)
      BY <3>2 DEF Rise, Grow, Top, In
    <3> QED BY <1>2, <2>2, <3>3, OneOwner
  <2>4. PICK e \in InBlocks : Called(s, e) /\ Listed(s, Root, e) /\ Listed(s, e, p)
    BY <2>3 DEF Found
  <2>5. e \in Top(s) /\ e \in Reach(s) /\ p.blk \in Has(s, e)
    BY <1>1, <2>4, ListedIn DEF Top, Reach, In
  <2>6. p.blk \in Has(t, e)
    BY <2>5, Numbers DEF Rise, Grow, Has
  <2>7. d = e
    BY <1>2, <2>2, <2>6, OneOwner
  <2>8. d # f
    BY <2>5, <2>7 DEF Spare
  <2> QED BY <1>1, <1>2, <1>4, <1>5, <2>1, <2>8 DEF Found
<1> QED BY <1>1, <1>6, <1>7 DEF Found

LEMMA SpareMark ==
  ASSUME NEW s, NEW t, Rise(s, t, Nil), NEW f, Spare(s, t, f), NEW u, Marks(t, u, f),
         Size(u, f) = Size(t, f), Called(u, f)
  PROVE  Rise(s, u, Nil) /\ Spare(s, u, f)
<1>1. Shape(s, Nil) /\ Shape(t, Nil) /\ Grow(s, t, Nil) /\ Fills(s, t, Upper(t))
  BY DEF Rise
<1>2. f \in InBlocks /\ f # Root /\ FilePage(t, f) /\ f \notin Top(s) /\ Whole(t, f) /\ Root # Nil
  BY Places DEF Spare, Where
<1>3. Sound(t) /\ Typed(t) /\ Root \in Where /\ InBlocks \subseteq Where
  BY <1>1, SoundIs DEF Shape, Where
<1>4. \A q \in Where : q # f => Alike(t, u, q)
  BY DEF Marks, Edits
<1>5. /\ \A p \in Where : Has(u, p) = Has(t, p)
      /\ \A p \in InBlocks : FilePage(t, p) => FilePage(u, p)
      /\ \A p \in Where, i \in Slots : Slot(u, p, i) = Slot(t, p, i)
      /\ Sound(u) /\ u.free = t.free /\ Remembers(t, u)
  BY <1>3, MarksIs DEF Marks, Edits
<1>6. Whole(u, f) /\ FitsAt(u, f)
  <2>1. FitsAt(t, f)
    BY <1>1, <1>2, <1>3 DEF Shape
  <2> QED BY <1>2, <1>3, <1>5, <2>1, Numbers DEF Whole, FitsAt
<1>7. Shape(u, Nil)
  BY <1>1, <1>2, <1>6, MarkShape DEF Nameless, Full, Called
<1>8. Spare(s, u, f)
  BY <1>2, <1>5, <1>6 DEF Spare
<1>9. \A p \in InBlocks : Called(t, p) => Called(u, p)
  BY <1>3, <1>4 DEF Called, Alike
<1>10. Type(u, Root) = Type(t, Root)
  BY <1>2, <1>3, <1>4 DEF Alike
<1>11. Top(t) \subseteq Top(u)
  BY <1>3, <1>5, <1>9, <1>10 DEF Top, In
<1>12. Upper(t) \subseteq Upper(u)
  BY <1>11 DEF Upper
<1>13. Fills(s, u, Upper(u))
  <2>1. Upper(t) \subseteq Where
    BY <1>3 DEF Upper, Top
  <2> QED BY <1>1, <1>5, <1>12, <2>1 DEF Fills
<1>14. Top(s) \subseteq Top(t) /\ Reach(s) \subseteq Reach(t) /\ Reach(s) \subseteq Where
  BY <1>1, ReachIs DEF Grow, Shape
<1>15. \A p \in Top(s) : SameName(s, u, p)
  BY <1>1, <1>2, <1>3, <1>4 DEF Grow, SameName, Alike, Top
<1>16. Reach(s) \subseteq Reach(u)
  <2> SUFFICES ASSUME NEW p \in Reach(s) PROVE p \in Reach(u)
    OBVIOUS
  <2>1. CASE p \in {Root} \cup Top(s)
    BY <1>11, <1>14, <2>1 DEF Reach
  <2>2. CASE p \notin {Root} \cup Top(s)
    <3>1. p \in InBlocks /\ p # Root
      BY <2>2 DEF Reach
    <3>2. PICK d \in Top(s) : In(s, d, p)
      BY <2>2 DEF Reach
    <3>3. Called(u, p)
      BY <1>3, <1>9, <1>14, <3>1, ReachIs
    <3>4. d \in Reach(s) /\ d \in Where
      BY <1>14, <3>2 DEF Reach
    <3>5. p.blk \in Has(t, d)
      BY <1>1, <3>2, <3>4, Numbers DEF Grow, Has, In
    <3>6. In(u, d, p)
      BY <1>5, <1>15, <3>2, <3>4, <3>5 DEF In, SameName
    <3>7. d \in Top(u)
      BY <1>11, <1>14, <3>2
    <3> QED BY <3>1, <3>3, <3>6, <3>7 DEF Reach
  <2> QED BY <2>1, <2>2
<1>17. \A p : Found(s, p) =>
         Found(u, p) /\ SameName(s, u, p) /\ (Type(s, p) = "REG" => p = Nil \/ Alike(s, u, p))
  <2> SUFFICES ASSUME NEW p, Found(s, p)
               PROVE  /\ Found(u, p) /\ SameName(s, u, p)
                      /\ Type(s, p) = "REG" => p = Nil \/ Alike(s, u, p)
    OBVIOUS
  <2>1. Found(u, p) /\ p # f /\ p \in Where
    BY <1>3, SpareFound DEF Found
  <2>2. SameName(s, t, p) /\ (Type(s, p) = "REG" => p = Nil \/ Alike(s, t, p))
    BY <1>1 DEF Grow
  <2>3. Alike(t, u, p)
    BY <1>4, <2>1
  <2> QED BY <2>1, <2>2, <2>3 DEF SameName, Alike
<1>18. Remembers(s, u) /\ u.free \subseteq s.free
  BY <1>1, <1>5 DEF Grow, Remembers
<1>19. \A p \in Reach(s), i \in Slots : Slot(s, p, i) # 0 => Slot(u, p, i) = Slot(s, p, i)
  BY <1>1, <1>5, <1>14 DEF Grow
<1>20. \A p \in InBlocks : FilePage(s, p) => FilePage(u, p)
  BY <1>1, <1>5 DEF Grow
<1>21. Grow(s, u, Nil)
  BY <1>11, <1>14, <1>15, <1>16, <1>17, <1>18, <1>19, <1>20 DEF Grow
<1> QED BY <1>1, <1>7, <1>8, <1>13, <1>21 DEF Rise

LEMMA SparePut ==
  ASSUME NEW s, NEW t, Rise(s, t, Nil), NEW f, Spare(s, t, f), NEW x \in File,
         x.direct = Get(t, f).direct, x.indirect = Get(t, f).indirect, x.size = Get(t, f).size,
         x.name # NoName
  PROVE  LET u == Put(t, f, x) IN Rise(s, u, Nil) /\ Spare(s, u, f) /\ Called(u, f)
<1> DEFINE u == Put(t, f, x)
<1>1. Sound(t) /\ Typed(t) /\ f \in Where /\ Ready(t, f)
  BY SoundIs DEF Rise, Shape, Spare, Where, Ready
<1>2. Under(x, Get(t, f))
  BY DEF Under
<1>3. Sound(u)
  BY <1>1, <1>2, PutUnder, QuietSound
<1>4. Marks(t, u, f) /\ FileAt(u, f) = x
  BY <1>1, <1>3, MarksOf
<1>5. Size(u, f) = Size(t, f) /\ Called(u, f)
  BY <1>1, <1>4, ReadyGet DEF Size, Called, Name
<1> HIDE DEF u
<1>6. Rise(s, u, Nil) /\ Spare(s, u, f)
  BY <1>4, <1>5, SpareMark
<1> QED BY <1>5, <1>6 DEF u

Makes(s, c) ==
  c.err \notin Stops =>
    Rise(s, c.fs, Nil) /\ (c.err = "ok" => Spare(s, c.fs, c.r) /\ Called(c.fs, c.r))

LEMMA CreateExact ==
  ASSUME NEW s, Shape(s, Nil), NEW path \in Paths
  PROVE  Makes(s, file_create(s, path))
<1> DEFINE c == file_create(s, path)
           w == walk_path(s, path)
           d == dir_alloc_file(w.fs, w.dir)
           n == path[Len(path)]
           x == [Get(d.fs, d.r) EXCEPT !.name = n]
           t == Put(d.fs, d.r, x)
<1>1. n \in Names /\ n # NoName
  <2>1. n \in Names
    BY PathIs
  <2> QED BY <2>1, SizesAssumption
<1>2. Walks(s, w, path)
  BY WalkPathExact
<1>3. c = IF w.err = "ok" THEN Fail(w.fs, "E_FILE_EXISTS")
          ELSE IF w.err # "E_NOT_FOUND" \/ w.dir = Nil THEN Fail(w.fs, w.err)
          ELSE IF d.err \in Stops THEN d
          ELSE IF d.err # "ok" THEN Fail(d.fs, w.err) ELSE Ok(t, d.r)
  BY DEF file_create
<1> HIDE DEF c, w, n
<1> SUFFICES ASSUME c.err \notin Stops
             PROVE  Rise(s, c.fs, Nil) /\ (c.err = "ok" => Spare(s, c.fs, c.r) /\ Called(c.fs, c.r))
  BY DEF Makes, c
<1>4. CASE w.err = "ok"
  <2>1. c = Fail(w.fs, "E_FILE_EXISTS")
    BY <1>3, <1>4
  <2> QED BY <1>2, <1>4, <2>1, Results DEF Walks, Stops
<1>5. CASE w.err # "ok" /\ (w.err # "E_NOT_FOUND" \/ w.dir = Nil)
  <2>1. c = Fail(w.fs, w.err)
    BY <1>3, <1>5
  <2> QED BY <1>2, <1>5, <2>1, Results DEF Walks
<1>6. CASE w.err = "E_NOT_FOUND" /\ w.dir # Nil
  <2>1. Rise(s, w.fs, Nil) /\ Shape(w.fs, Nil) /\ Ready(w.fs, w.dir) /\ Folder(w.fs, w.dir)
    BY <1>2, <1>6 DEF Walks, Misses, Stops, Rise
  <2>2. d.err \notin Stops =>
          Rise(w.fs, d.fs, Nil) /\ (d.err = "ok" => Spare(w.fs, d.fs, d.r))
    BY <1>6, <2>1, Places, AllocFileExact DEF Where
  <2> HIDE DEF d
  <2>3. d.err \notin Stops => Rise(s, d.fs, Nil)
    BY <2>1, <2>2, RiseTrans
  <2>4. CASE d.err # "ok"
    <3>1. d.err \notin Stops /\ c.fs = d.fs /\ c.err # "ok"
      BY <1>3, <1>6, <2>4, Results
    <3> QED BY <2>3, <3>1
  <2>5. CASE d.err = "ok"
    <3>1. c = Ok(t, d.r)
      BY <1>3, <1>6, <2>5 DEF Stops
    <3>2. Rise(s, d.fs, Nil) /\ Spare(s, d.fs, d.r)
      BY <2>1, <2>2, <2>3, <2>5, SpareGrow DEF Stops, Rise
    <3>3. Get(d.fs, d.r) \in File
      BY <3>2, SoundIs, GetIs DEF Rise, Shape, Spare, Where
    <3>4. /\ x \in File /\ x.direct = Get(d.fs, d.r).direct /\ x.indirect = Get(d.fs, d.r).indirect
          /\ x.size = Get(d.fs, d.r).size /\ x.name = n
      BY <1>1, <3>3 DEF File
    <3> HIDE DEF x
    <3>5. Rise(s, t, Nil) /\ Spare(s, t, d.r) /\ Called(t, d.r)
      BY <1>1, <3>2, <3>4, SparePut
    <3> QED BY <3>1, <3>5, Results
  <2> QED BY <2>4, <2>5
<1> QED BY <1>4, <1>5, <1>6

(* mkdir and touch *)
LEMMA MadeExact ==
  ASSUME NEW s, Shape(s, Nil), NEW path \in Paths, NEW type \in {"REG", "DIR"}
  PROVE  LET c == Then(file_create(s, path), LAMBDA x :
                       Ok(Put(x.fs, x.r, [Get(x.fs, x.r) EXCEPT !.type = type]), 0))
         IN c.err \notin Stops => Rise(s, c.fs, Nil)
<1> DEFINE d == file_create(s, path)
           x == [Get(d.fs, d.r) EXCEPT !.type = type]
           c == Then(d, LAMBDA y : Ok(Put(y.fs, y.r, [Get(y.fs, y.r) EXCEPT !.type = type]), 0))
<1>1. Makes(s, d)
  BY CreateExact
<1>2. c = IF d.err # "ok" THEN d ELSE Ok(Put(d.fs, d.r, x), 0)
  BY DEF Then
<1> HIDE DEF c, d
<1>3. CASE d.err # "ok"
  BY <1>1, <1>2, <1>3 DEF Makes, c, d
<1>4. CASE d.err = "ok"
  <2>1. Rise(s, d.fs, Nil) /\ Spare(s, d.fs, d.r) /\ Called(d.fs, d.r)
    BY <1>1, <1>4 DEF Makes, Stops
  <2>2. Ready(d.fs, d.r)
    BY <2>1 DEF Rise, Shape, Spare, Where, Ready
  <2>3. Get(d.fs, d.r) \in File /\ Get(d.fs, d.r).name # NoName
    BY <2>1, <2>2, ReadyGet DEF Called, Name
  <2>4. /\ x \in File /\ x.direct = Get(d.fs, d.r).direct /\ x.indirect = Get(d.fs, d.r).indirect
        /\ x.size = Get(d.fs, d.r).size /\ x.name # NoName
    BY <2>3 DEF File
  <2> HIDE DEF x
  <2>5. Rise(s, Put(d.fs, d.r, x), Nil)
    BY <2>1, <2>4, SparePut
  <2>6. c.fs = Put(d.fs, d.r, x)
    BY <1>2, <1>4, Results
  <2> QED BY <2>5, <2>6 DEF c, d
<1> QED BY <1>3, <1>4

-----------------------------------------------------------------------------
(* A File that gives back blocks.                                           *)
Alters(t, u, f) ==
  /\ Typed(u) /\ t.free \subseteq u.free
  /\ \A p \in Where : p # f => Alike(t, u, p)
  /\ \A i \in Slots : \/ Slot(t, f, i) = 0
                      \/ Slot(u, f, i) = Slot(t, f, i) /\ Called(u, f)
                      \/ Slot(t, f, i) \in u.free

(* What the members of a directory use. *)
Offspring(s, f) ==
  {p \in InBlocks : /\ f \in Top(s) /\ Type(s, f) = "DIR" /\ p.blk \in Has(s, f)
                    /\ Called(s, p) /\ p \notin Top(s)}
Lost(s, f) == {b \in Blocks : \E p \in Offspring(s, f), i \in Slots : Slot(s, p, i) = b}

LEMMA AltersUpper ==
  ASSUME NEW t, Sound(t), NEW u, NEW f \in InBlocks, Alters(t, u, f), NEW p \in Upper(t),
         p = f => Called(u, f)
  PROVE  p \in Upper(u) /\ p \in Reach(u)
<1>1. Root \in Where /\ InBlocks \subseteq Where /\ Root # f
  BY Places DEF Where
<1>2. Alike(t, u, Root)
  BY <1>1 DEF Alters
<1>3. Has(u, Root) = Has(t, Root) /\ Type(u, Root) = Type(t, Root)
  BY <1>2, AlikeHas DEF Alike
<1>4. CASE p = Root
  BY <1>4 DEF Upper, Reach
<1>5. CASE p # Root
  <2>1. p \in InBlocks /\ Called(t, p) /\ In(t, Root, p)
    BY <1>5 DEF Upper, Top
  <2>2. Called(u, p)
    BY <1>1, <2>1 DEF Alters, Called, Alike
  <2> QED BY <1>3, <2>1, <2>2 DEF Upper, Reach, Top, In
<1> QED BY <1>4, <1>5

LEMMA AltersMember ==
  ASSUME NEW t, Sound(t), NEW u, NEW f \in InBlocks, Alters(t, u, f), NEW p \in InBlocks,
         NEW d \in Top(t), In(t, d, p), d # f, Called(t, p), p = f => Called(u, f)
  PROVE  p \in Reach(u)
<1>1. InBlocks \subseteq Where /\ d \in InBlocks
  BY DEF Where, Top
<1>2. Alike(t, u, d)
  BY <1>1 DEF Alters
<1>3. In(u, d, p)
  BY <1>2, AlikeHas DEF In, Alike
<1>4. d \in Top(u)
  <2>1. d \in Upper(t) /\ d # Root
    BY <1>1, Places DEF Upper
  <2>2. d \in Upper(u)
    BY <2>1, AltersUpper
  <2> QED BY <2>1, <2>2 DEF Upper
<1>5. Called(u, p)
  BY <1>1 DEF Alters, Called, Alike
<1> QED BY <1>3, <1>4, <1>5 DEF Reach

LEMMA CutLeak ==
  ASSUME NEW s, NEW t, NEW g, Rise(s, t, g), NEW L, Leak(s, L), NEW f \in InBlocks,
         NEW u, Alters(t, u, f)
  PROVE  Leak(u, L \cup Lost(s, f))
<1> SUFFICES ASSUME NEW b \in Blocks, b \notin u.free, b \notin L, b \notin Lost(s, f)
             PROVE  \E p \in Reach(u), i \in Slots : Slot(u, p, i) = b
  BY DEF Leak
<1>1. /\ Sound(s) /\ Sound(t) /\ Grow(s, t, g) /\ Fills(s, t, Upper(t)) /\ b # 0
      /\ Root \in Where /\ InBlocks \subseteq Where
  BY Numbers DEF Rise, Shape, Where
<1>2. b \notin t.free
  BY DEF Alters
<1>3. ASSUME NEW p \in Where, NEW i \in Slots, Slot(t, p, i) = b
      PROVE  Slot(u, p, i) = b /\ (p = f => Called(u, f))
  BY <1>1, <1>3 DEF Alters, Alike
<1>4. CASE b \in s.free
  <2>1. PICK p \in Upper(t), i \in Slots : Slot(t, p, i) = b
    BY <1>1, <1>2, <1>4 DEF Fills
  <2>2. p \in Where
    BY <1>1, <2>1 DEF Upper, Top
  <2> QED BY <1>1, <1>3, <2>1, <2>2, AltersUpper
<1>5. CASE b \notin s.free
  <2>1. PICK p \in Reach(s), i \in Slots : Slot(s, p, i) = b
    BY <1>5 DEF Leak
  <2>2. p \in Where /\ p \in Reach(t) /\ Slot(t, p, i) = b
    BY <1>1, <2>1, ReachIs DEF Grow
  <2>3. Slot(u, p, i) = b /\ (p = f => Called(u, f))
    BY <1>3, <2>2
  <2>4. CASE p \in Upper(t)
    BY <1>1, <2>3, <2>4, AltersUpper
  <2>5. CASE p \notin Upper(t)
    <3>1. p \in InBlocks /\ Called(t, p) /\ p \notin Top(s) /\ p # Root /\ Called(s, p)
      BY <1>1, <2>1, <2>2, <2>5, ReachIs DEF Upper, Reach, Grow
    <3>2. PICK d \in Top(s) : In(s, d, p)
      BY <2>1, <3>1 DEF Reach
    <3>3. d \in Top(t) /\ SameName(s, t, d) /\ d \in Reach(s)
      BY <1>1, <3>2 DEF Grow, Reach
    <3>4. In(t, d, p)
      BY <1>1, <3>2, <3>3, Numbers DEF Grow, Has, In, SameName
    <3>5. d # f
      <4>1. SUFFICES ASSUME d = f PROVE FALSE
        OBVIOUS
      <4>2. p \in Offspring(s, f)
        BY <3>1, <3>2, <4>1 DEF Offspring, In
      <4> QED BY <2>1, <4>2 DEF Lost
    <3> QED BY <1>1, <2>3, <3>1, <3>3, <3>4, <3>5, AltersMember
  <2> QED BY <2>4, <2>5
<1> QED BY <1>4, <1>5

(* The File has the blocks its new size counts. *)
LEMMA CutShape ==
  ASSUME NEW t, NEW g, Shape(t, g), NEW f \in InBlocks, NEW n \in Nat, NEW u,
         Cuts(t, u, f, Slots \ Room(Nblocks(n))), Size(u, f) = n, Nameless(u, f),
         f = g \/ Full(u, f)
  PROVE  Shape(u, g)
<1>1. Root \in Where /\ Root # f /\ InBlocks \subseteq Where
  BY Places DEF Where
<1>2. \A p \in Where : p # f => Alike(t, u, p)
  BY DEF Cuts
<1>3. Sound(u) /\ Clean(u)
  BY DEF Cuts, Ready
<1>4. Has(u, Root) = Has(t, Root) /\ RootIs(u)
  BY <1>1, <1>2, AlikeHas DEF RootIs, Alike, Shape
<1>5. \A p \in Where : p # f => FitsAt(u, p)
  BY <1>2, AlikeFits DEF Shape
<1>6. FitsAt(u, f)
  BY DEF FitsAt, Cuts
<1>7. ASSUME NEW p \in InBlocks, p # f
      PROVE  Nameless(u, p) /\ (p # g => Full(u, p))
  <2>1. Alike(t, u, p)
    BY <1>1, <1>2, <1>7
  <2>2. Nameless(u, p) /\ (Whole(t, p) => Whole(u, p))
    BY <2>1, AlikeFits DEF Shape
  <2> QED BY <1>4, <2>1, <2>2 DEF Shape, Full, Alike
<1> QED BY <1>3, <1>4, <1>5, <1>6, <1>7 DEF Shape

LEMMA CutAlters ==
  ASSUME NEW t, Sound(t), NEW f \in InBlocks, NEW I, NEW u, Cuts(t, u, f, I), Called(t, f)
  PROVE  Alters(t, u, f)
<1>1. Typed(t) /\ Typed(u) /\ f \in Where
  BY SoundIs DEF Cuts, Ready, Where
<1>2. Called(u, f)
  BY DEF Cuts, SameName, Called
<1>3. \A i \in Slots : Slot(t, f, i) \in Blocks \cup {0}
  BY <1>1, SlotIs
<1>4. t.free \subseteq u.free
  BY <1>1 DEF Cuts, Typed
<1>5. ASSUME NEW i \in Slots, Slot(t, f, i) # 0
      PROVE  (Slot(u, f, i) = Slot(t, f, i) /\ Called(u, f)) \/ Slot(t, f, i) \in u.free
  BY <1>2, <1>3, <1>5 DEF Cuts
<1> QED BY <1>1, <1>4, <1>5 DEF Alters, Cuts

-----------------------------------------------------------------------------
(* The Files under a path, by the tree.                                     *)
LEMMA MembersAre ==
  ASSUME NEW s, Typed(s), NEW d \in Where
  PROVE  Members(Memory(s), FileAt(s, d)) = {p \in InBlocks : Called(s, p) /\ In(s, d, p)}
<1> DEFINE x == FileAt(s, d)
           all == {Pos(b, j) : b \in BlocksOf(Memory(s), x), j \in 0..(FILE2BLK - 1)}
<1>1. \A i \in Indices : Slot(s, d, i) = PtrOf(Memory(s), x, i)
  BY Numbers, SlotIs
<1>2. BlocksOf(Memory(s), x) = Has(s, d)
  BY <1>1 DEF BlocksOf, Has, Indices
<1>3. Has(s, d) \subseteq Blocks
  BY HasIs
<1>4. all = {p \in InBlocks : p.blk \in Has(s, d)}
  <2>1. ASSUME NEW p \in InBlocks, p.blk \in Has(s, d) PROVE p \in all
    <3>1. PICK b \in Blocks, j \in Js : p = Pos(b, j)
      BY DEF InBlocks
    <3> QED BY <1>2, <2>1, <3>1, Places DEF Js
  <2>2. ASSUME NEW p \in all PROVE p \in InBlocks /\ p.blk \in Has(s, d)
    <3>1. PICK b \in Has(s, d), j \in Js : p = Pos(b, j)
      BY <1>2 DEF Js
    <3> QED BY <1>3, <3>1, Places
  <2> QED BY <2>1, <2>2
<1>5. ASSUME NEW p \in InBlocks
      PROVE  Called(s, p) <=> Entries(Memory(s)[p.blk])[p.idx].name # NoName
  BY <1>5, FileTypes, Places DEF Called, Name, Where
<1>6. Members(Memory(s), x) =
        IF x.type # "DIR" THEN {} ELSE {p \in all : Entries(Memory(s)[p.blk])[p.idx].name # NoName}
  BY DEF Members
<1> HIDE DEF all
<1>7. CASE x.type # "DIR"
  BY <1>6, <1>7 DEF In, Type
<1>8. CASE x.type = "DIR"
  BY <1>4, <1>5, <1>6, <1>8 DEF In, Type
<1> QED BY <1>7, <1>8

NamedIn1(s, d, p, n) == p \in InBlocks /\ Called(s, p) /\ In(s, d, p) /\ Name(s, p) = n

LEMMA NamedIs ==
  ASSUME NEW s, Typed(s), NEW path, NEW p
  PROVE  p \in Named(Memory(s), s.root, path) <=>
           IF Len(path) = 1 THEN NamedIn1(s, Root, p, path[1])
           ELSE \E d : NamedIn1(s, Root, d, path[1]) /\ NamedIn1(s, d, p, path[2])
<1> DEFINE named(D, n) == {q \in UNION {Members(Memory(s), FileAt(s, d)) : d \in D} :
                            FileAt(s, q).name = n}
<1>1. Named(Memory(s), s.root, path) =
        IF Len(path) = 1 THEN named({Root}, path[1]) ELSE named(named({Root}, path[1]), path[2])
  BY DEF Named, FileAt
<1>2. ASSUME NEW D, D \subseteq Where, NEW n, NEW q
      PROVE  q \in named(D, n) <=> \E d \in D : NamedIn1(s, d, q, n)
  BY <1>2, MembersAre DEF NamedIn1, Name
<1> HIDE DEF named
<1>3. {Root} \subseteq Where /\ named({Root}, path[1]) \subseteq Where
  BY <1>2 DEF Where, NamedIn1
<1>4. \A q : q \in named({Root}, path[1]) <=> NamedIn1(s, Root, q, path[1])
  BY <1>2, <1>3
<1>5. p \in named(named({Root}, path[1]), path[2]) <=>
        \E d \in named({Root}, path[1]) : NamedIn1(s, d, p, path[2])
  BY <1>2, <1>3
<1> QED BY <1>1, <1>4, <1>5

(* What a path leads to later, if it was there before or had been found, is *)
(* what it led to. *)
LEMMA NamedBefore ==
  ASSUME NEW s, NEW t, Rise(s, t, Nil), NEW path \in Paths, NEW r, Leads(t, path, r),
         Found(s, r) \/ r \in Top(s)
  PROVE  /\ r \in Named(Memory(s), s.root, path)
         /\ r \in Top(s) => Len(path) = 1
<1>1. /\ Sound(s) /\ Sound(t) /\ Typed(s) /\ Typed(t) /\ Grow(s, t, Nil) /\ Root \notin InBlocks
      /\ Root \in Where /\ InBlocks \subseteq Where /\ r \in InBlocks
  BY SoundIs, Places DEF Rise, Shape, Where, Leads
<1>2. Len(path) \in 1..2
  BY PathIs
<1>3. /\ Called(s, r) /\ SameName(s, t, r) /\ Name(s, r) = path[Len(path)]
  BY <1>1 DEF Grow, Found, Top, Leads, SameName
<1>4. ASSUME NEW e \in Where, NEW d \in Where, e \in Reach(s), In(s, e, r), Listed(t, d, r)
      PROVE  d = e
  <2>1. r.blk \in Has(t, e)
    BY <1>1, <1>4, Numbers DEF Grow, Has, In
  <2>2. r.blk \in Has(t, d)
    BY <1>1, <1>4, ListedIn DEF In
  <2> QED BY <1>1, <2>1, <2>2, OneOwner
<1>5. Root \in Reach(s)
  BY DEF Reach
<1>6. r \in Top(s) => Len(path) = 1
  BY <1>1, <1>4, <1>5 DEF Top, Leads
<1>7. CASE r \in Top(s)
  <2>1. Len(path) = 1 /\ In(s, Root, r)
    BY <1>6, <1>7 DEF Top
  <2> QED BY <1>1, <1>3, <1>6, <2>1, NamedIs DEF NamedIn1
<1>8. CASE r \notin Top(s)
  <2>1. PICK e \in InBlocks : Called(s, e) /\ Listed(s, Root, e) /\ Listed(s, e, r)
    BY <1>1, <1>8, ListedIn DEF Found, Top
  <2>2. e \in Top(s) /\ e \in Reach(s) /\ In(s, Root, e) /\ In(s, e, r) /\ SameName(s, t, e)
    BY <1>1, <2>1, ListedIn DEF Top, Reach, Grow
  <2>3. Len(path) # 1
    <3>1. SUFFICES ASSUME Len(path) = 1 PROVE FALSE
      OBVIOUS
    <3> QED BY <1>1, <1>4, <2>2, <3>1 DEF Leads
  <2>4. PICK d \in InBlocks : Name(t, d) = path[1] /\ Listed(t, Root, d) /\ Listed(t, d, r)
    BY <2>3 DEF Leads
  <2>5. d = e
    BY <1>1, <1>4, <2>2, <2>4
  <2>6. NamedIn1(s, Root, e, path[1])
    BY <2>1, <2>2, <2>4, <2>5 DEF NamedIn1, SameName
  <2>7. Len(path) = 2
    BY <1>2, <2>3
  <2>8. NamedIn1(s, e, r, path[2])
    BY <1>1, <1>3, <2>2, <2>7 DEF NamedIn1
  <2> QED BY <1>1, <1>6, <2>3, <2>6, <2>8, NamedIs
<1> QED BY <1>7, <1>8

(* The request touches no File that is open, and none in a directory that   *)
(* it touches.                                                              *)
LEMMA UntouchedIs ==
  ASSUME Exclusive, NEW path \in Paths, Untouched(path), NEW t, Rise(fs, t, Nil), NEW r,
         Leads(t, path, r), NEW f \in Open, Found(fs, f)
  PROVE  f # r /\ f.blk \notin Has(t, r)
<1>1. /\ Sound(fs) /\ Sound(t) /\ Typed(fs) /\ Typed(t) /\ Grow(fs, t, Nil) /\ Root \notin InBlocks
      /\ Root \in Where /\ InBlocks \subseteq Where /\ r \in InBlocks /\ f \in InBlocks
  BY SoundIs, Places DEF Rise, Shape, Where, Leads, Found
<1>2. f \notin Below(path)
  BY DEF Untouched
<1>3. f # r
  BY <1>2, NamedBefore DEF Below
<1>4. ASSUME f.blk \in Has(t, r) PROVE FALSE
  <2>1. PICK e \in Where : e \in Reach(fs) /\ In(fs, e, f) /\ e \in Upper(fs)
    <3>1. CASE Listed(fs, Root, f)
      BY <1>1, <3>1, ListedIn DEF Reach, Upper
    <3>2. CASE \E d \in InBlocks : Called(fs, d) /\ Listed(fs, Root, d) /\ Listed(fs, d, f)
      BY <1>1, <3>2, ListedIn DEF Reach, Upper, Top
    <3> QED BY <3>1, <3>2 DEF Found
  <2>2. f.blk \in Has(t, e)
    BY <1>1, <2>1, Numbers DEF Grow, Has, In
  <2>3. e = r
    BY <1>1, <1>4, <2>1, <2>2, OneOwner
  <2>4. r \in Top(fs)
    BY <1>1, <2>1, <2>3 DEF Upper
  <2>5. r \in Named(Memory(fs), fs.root, path)
    BY <2>4, NamedBefore
  <2>6. f \in Members(Memory(fs), FileAt(fs, r))
    BY <1>1, <2>1, <2>3, MembersAre DEF Found
  <2> QED BY <1>2, <2>5, <2>6 DEF Below, FileAt
<1> QED BY <1>3, <1>4

(* Programs truncate no directories. *)
LEMMA RegularIs ==
  ASSUME NEW path \in Paths, Regular(path), NEW t, Rise(fs, t, Nil), NEW r, Leads(t, path, r)
  PROVE  Lost(fs, r) = {}
<1>1. SUFFICES ASSUME r \in Top(fs), Type(fs, r) = "DIR" PROVE FALSE
  BY DEF Lost, Offspring
<1>2. r \in Named(Memory(fs), fs.root, path)
  BY <1>1, NamedBefore
<1>3. At(Memory(fs), fs.root, r).type = "DIR"
  BY <1>1 DEF Type, FileAt
<1>4. [type |-> "DIR"] \in View(Memory(fs), fs.root, path)
  BY <1>2, <1>3 DEF View
<1>5. [type |-> "DIR"].type = "REG"
  BY <1>4 DEF Regular
<1> QED BY <1>5

(* remove counts what the members of a directory use as lost.               *)
LEMMA GoneIs ==
  ASSUME NEW path \in Paths, NEW t, Rise(fs, t, Nil), NEW r, Leads(t, path, r)
  PROVE  /\ Offspring(fs, r) \subseteq Below(path) \ Named(Memory(fs), fs.root, path)
         /\ \A p \in Offspring(fs, r), i \in Slots : Slot(fs, p, i) # 0 =>
              LET x == At(Memory(fs), fs.root, p) IN
              Slot(fs, p, i) \in (BlocksOf(Memory(fs), x) \cup {x.indirect}) \ {0}
<1>1. Typed(fs) /\ InBlocks \subseteq Where
  BY SoundIs DEF Rise, Shape, Where
<1>2. ASSUME NEW p \in Offspring(fs, r)
      PROVE  p \in Below(path) /\ p \notin Named(Memory(fs), fs.root, path)
  <2>1. /\ r \in Top(fs) /\ Type(fs, r) = "DIR" /\ p \in InBlocks /\ p.blk \in Has(fs, r)
        /\ Called(fs, p) /\ p \notin Top(fs) /\ r \in Where
    BY <1>1, <1>2 DEF Offspring, Top
  <2>2. r \in Named(Memory(fs), fs.root, path) /\ Len(path) = 1
    BY <2>1, NamedBefore
  <2>3. p \in Members(Memory(fs), FileAt(fs, r))
    BY <1>1, <2>1, MembersAre DEF In
  <2>4. p \in Below(path)
    BY <2>2, <2>3 DEF Below, FileAt
  <2>5. p \notin Named(Memory(fs), fs.root, path)
    BY <1>1, <2>1, <2>2, NamedIs DEF NamedIn1, Top
  <2> QED BY <2>4, <2>5
<1>3. ASSUME NEW p \in Offspring(fs, r), NEW i \in Slots, Slot(fs, p, i) # 0
      PROVE  LET x == At(Memory(fs), fs.root, p) IN
             Slot(fs, p, i) \in (BlocksOf(Memory(fs), x) \cup {x.indirect}) \ {0}
  BY <1>1, <1>3, SlotIs DEF Offspring, FileAt, BlocksOf, Indices
<1> QED BY <1>2, <1>3

-----------------------------------------------------------------------------
(* The open files.  A path finds the File of each, and while its size is    *)
(* the one in the Filefd page the client has all its blocks mapped.         *)
Maps(s, f, pages) ==
  \A n \in Indices : pages[n] = Slot(s, f, n) /\ (Slot(s, f, n) # 0 => Reached(s, f, n))
Held(s, h) ==
  h.file # Nil =>
    /\ Found(s, h.file) /\ FilePage(s, h.file)
    /\ Type(s, h.file) = "REG" /\ Size(s, h.file) = h.size => Maps(s, h.file, h.pages)

LEMMA ReachedStays ==
  ASSUME NEW s, NEW t, NEW f, Ready(s, f), Ready(t, f), Remembers(s, t),
         Slot(t, f, NINDIRECT) = Slot(s, f, NINDIRECT), NEW n, Reached(s, f, n)
  PROVE  Reached(t, f, n)
<1>1. Get(t, f).indirect = Get(s, f).indirect /\ Get(s, f).indirect \in Blocks \cup {0}
  BY IndirectUsed
<1> QED BY <1>1 DEF Reached, Remembers

LEMMA MapsStay ==
  ASSUME NEW s, NEW t, NEW f, Ready(s, f), Ready(t, f), Remembers(s, t), Alike(s, t, f), NEW pages,
         Maps(s, f, pages)
  PROVE  Maps(t, f, pages)
<1>1. \A n \in Slots : Slot(t, f, n) = Slot(s, f, n)
  BY DEF Alike
<1> QED BY <1>1, Numbers, ReachedStays DEF Maps

LEMMA HeldGrow ==
  ASSUME NEW s, NEW t, NEW g, Shape(s, g), Shape(t, g), Grow(s, t, g), NEW h, Held(s, h),
         h.file # Nil => h.file # g
  PROVE  Held(t, h)
<1> SUFFICES ASSUME h.file # Nil PROVE Held(t, h)
  BY DEF Held
<1> DEFINE f == h.file
<1>1. Found(s, f) /\ FilePage(s, f) /\ f \in InBlocks /\ f \in Where
  BY DEF Held, Found, Where
<1>2. Found(t, f) /\ FilePage(t, f) /\ SameName(s, t, f) /\ Remembers(s, t)
  BY <1>1 DEF Grow
<1>3. Ready(s, f) /\ Ready(t, f)
  BY <1>1, <1>2 DEF Shape, Ready
<1>4. ASSUME Type(t, f) = "REG", Size(t, f) = h.size PROVE Maps(t, f, h.pages)
  <2>1. Alike(s, t, f) /\ Type(s, f) = "REG"
    BY <1>1, <1>2, <1>4 DEF Grow, SameName
  <2>2. Size(s, f) = h.size
    BY <1>4, <2>1 DEF Alike
  <2> QED BY <1>2, <1>3, <2>1, <2>2, MapsStay DEF Held
<1> QED BY <1>2, <1>4 DEF Held

LEMMA FoundAlters ==
  ASSUME NEW t, Sound(t), NEW u, NEW r \in InBlocks, Alters(t, u, r), NEW f, Found(t, f), f # r,
         f.blk \notin Has(t, r)
  PROVE  Found(u, f) /\ Alike(t, u, f)
<1>1. Root \in Where /\ InBlocks \subseteq Where /\ r # Root /\ f \in InBlocks
  BY Places DEF Where, Found
<1>2. \A p \in Where : p # r => Alike(t, u, p)
  BY DEF Alters
<1>3. \A q \in Where : q # r => \A x : Listed(t, q, x) => Listed(u, q, x)
  BY <1>2, Numbers DEF Listed, Alike
<1>4. \A q \in Where : q # r /\ Called(t, q) => Called(u, q)
  BY <1>2 DEF Called, Alike
<1>5. \A d \in InBlocks : Listed(t, d, f) => d # r
  BY <1>1, ListedIn DEF In
<1> QED BY <1>1, <1>2, <1>3, <1>4, <1>5 DEF Found

LEMMA HeldAlters ==
  ASSUME NEW t, Sound(t), Clean(t), NEW u, Sound(u), Clean(u), NEW r \in InBlocks, Alters(t, u, r),
         Pages(t, u), Remembers(t, u), NEW h, Held(t, h),
         h.file # Nil => h.file # r /\ h.file.blk \notin Has(t, r)
  PROVE  Held(u, h)
<1> SUFFICES ASSUME h.file # Nil PROVE Held(u, h)
  BY DEF Held
<1> DEFINE f == h.file
<1>1. Found(t, f) /\ FilePage(t, f) /\ f \in InBlocks /\ f \in Where
  BY DEF Held, Found, Where
<1>2. Found(u, f) /\ Alike(t, u, f)
  BY <1>1, FoundAlters
<1>3. FilePage(u, f)
  <2>1. f \in Reach(u) /\ f # Root
    BY <1>1, <1>2, FoundReach, Places
  <2>2. Backed(u, f)
    BY <2>1, ReachIs
  <2> QED BY <1>1, <2>2 DEF Pages
<1>4. Ready(t, f) /\ Ready(u, f)
  BY <1>1, <1>3 DEF Ready
<1>5. ASSUME Type(u, f) = "REG", Size(u, f) = h.size PROVE Maps(u, f, h.pages)
  <2>1. Type(t, f) = "REG" /\ Size(t, f) = h.size
    BY <1>2, <1>5 DEF Alike
  <2> QED BY <1>2, <1>4, <2>1, MapsStay DEF Held
<1> QED BY <1>2, <1>3, <1>5 DEF Held

-----------------------------------------------------------------------------
(* The pages that a client maps. *)
MapsFrom(t, f, pages, r, from, i) ==
  \A n \in Indices :
    IF from <= n /\ n < i THEN r[n] = Slot(t, f, n) /\ Slot(t, f, n) # 0 /\ Reached(t, f, n)
    ELSE r[n] = pages[n]
There(s, f, from, to) ==
  \A n \in Nat : from <= n /\ n < to => n \in Indices /\ Slot(s, f, n) # 0
RoomOf(s, f) == Room(Nblocks(Size(s, f))) \cup {k \in Nat : k \notin Slots}

LEMMA SpotsRoom ==
  ASSUME NEW s, NEW f, Nblocks(Size(s, f)) \in Nat, NEW i \in Nat, i < Nblocks(Size(s, f))
  PROVE  Spots(i) \subseteq RoomOf(s, f)
<1>1. i < NDIRECT => i \in Indices
  BY Numbers DEF Indices
<1>2. NINDIRECT \in Slots /\ Slots = Indices \cup {NINDIRECT} /\ NDIRECT \in Nat
  BY Numbers DEF Slots, Indices
<1>3. ~(i < NDIRECT) => Nblocks(Size(s, f)) > NDIRECT
  BY <1>2
<1> QED BY <1>1, <1>2, <1>3 DEF Spots, RoomOf, Room

LEMMA MapStep ==
  ASSUME NEW s, NEW f, Ready(s, f), NEW pages \in Ptrs, NEW from \in Nat, NEW i \in Nat,
         i < Nblocks(Size(s, f)), from <= i, NEW t, t.r \in Ptrs,
         Adds(s, t.fs, f, RoomOf(s, f)), MapsFrom(t.fs, f, pages, t.r, from, i),
         NEW g, g = file_get_block(t.fs, f, i), g.err \notin Stops
  PROVE  /\ Adds(s, g.fs, f, RoomOf(s, f))
         /\ g.err = "ok" => /\ i \in Indices /\ [t.r EXCEPT ![i] = g.r] \in Ptrs
                            /\ MapsFrom(g.fs, f, pages, [t.r EXCEPT ![i] = g.r], from, i + 1)
         /\ i \in Indices /\ Slot(t.fs, f, i) # 0 => g.err = "ok" /\ Still(t.fs, g.fs)
<1>1. Ready(t.fs, f) /\ Typed(s) /\ f \in Where
  BY SoundIs DEF Adds, Ready
<1>2. /\ Adds(t.fs, g.fs, f, Spots(i))
      /\ i \in Indices /\ Slot(t.fs, f, i) # 0 => g.err = "ok" /\ Still(t.fs, g.fs)
      /\ g.err = "ok" => /\ Reached(g.fs, f, i) /\ i \in Indices /\ g.r \in Blocks
                         /\ g.r = Slot(g.fs, f, i)
  BY <1>1, GetExact
<1>3. Nblocks(Size(s, f)) \in Nat
  BY <1>1, FileTypes, FileFields, NblocksNat DEF Size
<1>4. Adds(s, g.fs, f, RoomOf(s, f))
  BY <1>1, <1>2, <1>3, SpotsRoom, AddsTrans
<1>5. ASSUME g.err = "ok"
      PROVE  /\ i \in Indices /\ [t.r EXCEPT ![i] = g.r] \in Ptrs
             /\ MapsFrom(g.fs, f, pages, [t.r EXCEPT ![i] = g.r], from, i + 1)
  <2> DEFINE q == [t.r EXCEPT ![i] = g.r]
  <2>1. i \in Indices /\ g.r \in Blocks /\ g.r = Slot(g.fs, f, i) /\ Reached(g.fs, f, i) /\ g.r # 0
    BY <1>2, <1>5, Numbers
  <2>2. q \in Ptrs /\ q[i] = g.r /\ \A n \in Indices : n # i => q[n] = t.r[n]
    BY <2>1 DEF Ptrs
  <2> HIDE DEF q
  <2>3. ASSUME NEW n \in Indices
        PROVE  IF from <= n /\ n < i + 1
               THEN q[n] = Slot(g.fs, f, n) /\ Slot(g.fs, f, n) # 0 /\ Reached(g.fs, f, n)
               ELSE q[n] = pages[n]
    <3>1. CASE n = i
      BY <2>1, <2>2, <3>1
    <3>2. CASE n # i
      <4>1. (n < i + 1 <=> n < i) /\ q[n] = t.r[n]
        BY <2>2, <3>2 DEF Indices
      <4>2. CASE from <= n /\ n < i
        <5>1. t.r[n] = Slot(t.fs, f, n) /\ Slot(t.fs, f, n) # 0 /\ Reached(t.fs, f, n)
          BY <4>2 DEF MapsFrom
        <5>2. Slot(g.fs, f, n) = Slot(t.fs, f, n)
          BY <1>2, <5>1, Numbers DEF Adds
        <5>3. Reached(g.fs, f, n)
          BY <1>1, <1>2, <5>1, AddsReached
        <5> QED BY <4>1, <4>2, <5>1, <5>2, <5>3
      <4>3. CASE ~(from <= n /\ n < i)
        BY <4>1, <4>3 DEF MapsFrom
      <4> QED BY <4>2, <4>3
    <3> QED BY <3>1, <3>2
  <2> QED BY <2>1, <2>2, <2>3 DEF MapsFrom, q
<1> QED BY <1>2, <1>4, <1>5

Mapped(s, m, f, pages, from, to, i) ==
  m.err \notin Stops =>
    /\ Adds(s, m.fs, f, RoomOf(s, f)) /\ m.r \in Ptrs
    /\ m.err = "ok" => MapsFrom(m.fs, f, pages, m.r, from, i) /\ (from < i => i - 1 \in Indices)
    /\ There(s, f, from, to) => m.err = "ok" /\ Still(s, m.fs)

LEMMA MapLoopStep ==
  ASSUME NEW s, NEW f, Ready(s, f), NEW pages \in Ptrs, NEW from \in Nat, NEW to \in Nat,
         to <= Nblocks(Size(s, f)), NEW n \in 1..to, from < n, NEW t,
         Mapped(s, t, f, pages, from, to, n - 1), t.err = "ok",
         NEW g, g = file_get_block(t.fs, f, n - 1)
  PROVE  Mapped(s, IF g.err # "ok" THEN Returns(g, t.r) ELSE Ok(g.fs, [t.r EXCEPT ![n - 1] = g.r]),
                f, pages, from, to, n)
<1> DEFINE z == IF g.err # "ok" THEN Returns(g, t.r) ELSE Ok(g.fs, [t.r EXCEPT ![n - 1] = g.r])
<1>1. z.fs = g.fs /\ z.err = g.err /\ (g.err = "ok" => z.r = [t.r EXCEPT ![n - 1] = g.r])
      /\ (g.err # "ok" => z.r = t.r)
  BY DEF Returns, Ok
<1>2. Typed(s) /\ f \in Where /\ Nblocks(Size(s, f)) \in Nat
  <2>1. Typed(s) /\ f \in Where
    BY SoundIs DEF Ready
  <2> QED BY <2>1, FileTypes, FileFields, NblocksNat DEF Size
<1>3. n - 1 \in Nat /\ n - 1 < Nblocks(Size(s, f)) /\ from <= n - 1 /\ (n - 1) + 1 = n /\ n - 1 < to
  BY <1>2
<1>4. /\ Adds(s, t.fs, f, RoomOf(s, f)) /\ t.r \in Ptrs /\ MapsFrom(t.fs, f, pages, t.r, from, n - 1)
      /\ There(s, f, from, to) => Still(s, t.fs)
  BY DEF Mapped, Stops
<1> HIDE DEF z
<1> SUFFICES ASSUME g.err \notin Stops PROVE Mapped(s, z, f, pages, from, to, n)
  BY <1>1 DEF Mapped, z
<1>5. /\ Adds(s, g.fs, f, RoomOf(s, f))
      /\ g.err = "ok" => /\ n - 1 \in Indices /\ [t.r EXCEPT ![n - 1] = g.r] \in Ptrs
                         /\ MapsFrom(g.fs, f, pages, [t.r EXCEPT ![n - 1] = g.r], from, n)
      /\ n - 1 \in Indices /\ Slot(t.fs, f, n - 1) # 0 => g.err = "ok" /\ Still(t.fs, g.fs)
  <2> DEFINE i == n - 1
  <2>1. i \in Nat /\ i < Nblocks(Size(s, f)) /\ from <= i /\ i + 1 = n
    BY <1>3
  <2>2. MapsFrom(t.fs, f, pages, t.r, from, i) /\ g = file_get_block(t.fs, f, i)
    BY <1>4
  <2> HIDE DEF i
  <2>3. /\ Adds(s, g.fs, f, RoomOf(s, f))
        /\ g.err = "ok" => /\ i \in Indices /\ [t.r EXCEPT ![i] = g.r] \in Ptrs
                           /\ MapsFrom(g.fs, f, pages, [t.r EXCEPT ![i] = g.r], from, i + 1)
        /\ i \in Indices /\ Slot(t.fs, f, i) # 0 => g.err = "ok" /\ Still(t.fs, g.fs)
    BY <1>4, <2>1, <2>2, MapStep
  <2> QED BY <2>1, <2>3 DEF i
<1>6. ASSUME There(s, f, from, to) PROVE g.err = "ok" /\ Still(s, g.fs)
  <2>1. n - 1 \in Indices /\ Slot(s, f, n - 1) # 0
    BY <1>3, <1>6 DEF There
  <2>2. Slot(t.fs, f, n - 1) # 0 /\ Still(s, t.fs)
    BY <1>4, <1>6, <2>1, StillIs
  <2> QED BY <1>5, <2>1, <2>2, StillOf
<1>7. z.r \in Ptrs
  BY <1>1, <1>4, <1>5
<1> QED BY <1>1, <1>5, <1>6, <1>7 DEF Mapped

LEMMA MapLoop ==
  ASSUME NEW s, NEW f, Ready(s, f), NEW pages \in Ptrs, NEW from \in Nat, NEW to \in Nat,
         to <= Nblocks(Size(s, f))
  PROVE  Mapped(s, fsipc_map(s, f, pages, from, to), f, pages, from, to, to)
<1> DEFINE mapped(t, g, n) == IF g.err # "ok" THEN Returns(g, t.r)
                              ELSE Ok(g.fs, [t.r EXCEPT ![n] = g.r])
           step(t, n) == IF t.err # "ok" THEN t
                         ELSE mapped(t, file_get_block(t.fs, f, n - 1), n - 1)
           Loop(g, n) == g = [i \in 0..n |-> IF i <= from THEN Ok(s, pages) ELSE step(g[i - 1], i)]
           g0 == CHOOSE g : Loop(g, to)
           Fine(t, i) == Mapped(s, t, f, pages, from, to, i)
<1>1. fsipc_map(s, f, pages, from, to) = g0[to]
  BY DEF fsipc_map, Then
<1>2. ASSUME NEW n \in 1..to, from < n, NEW t, Fine(t, n - 1) PROVE Fine(step(t, n), n)
  <2>1. CASE t.err # "ok"
    BY <1>2, <2>1 DEF Mapped
  <2>2. CASE t.err = "ok"
    BY <1>2, <2>2, MapLoopStep
  <2> QED BY <2>1, <2>2
<1>3. ASSUME NEW n \in 0..to, n <= from PROVE Fine(Ok(s, pages), n)
  <2>1. Adds(s, s, f, RoomOf(s, f)) /\ Still(s, s)
    BY StillOf, AddsStill, SoundIs DEF Ready
  <2>2. MapsFrom(s, f, pages, pages, from, n)
    BY <1>3 DEF MapsFrom, Indices
  <2>3. ~(from < n)
    BY <1>3
  <2> QED BY <2>1, <2>2, <2>3, Results DEF Mapped
<1> HIDE DEF step, Fine
<1>4. \E g : Loop(g, to)
  <2> DEFINE S == {k \in Nat : \E g : Loop(g, k)}
  <2>1. 0 \in S
    <3>1. Loop([i \in {0} |-> Ok(s, pages)], 0)
      OBVIOUS
    <3> QED BY <3>1
  <2>2. ASSUME NEW k \in 1..to, k - 1 \in S PROVE k \in S
    <3>1. PICK g : Loop(g, k - 1)
      BY <2>2
    <3> DEFINE h == [i \in 0..k |-> IF i # k THEN g[i] ELSE IF k <= from THEN Ok(s, pages) ELSE step(g[k - 1], k)]
    <3>2. ASSUME NEW i \in 0..k
          PROVE  h[i] = IF i <= from THEN Ok(s, pages) ELSE step(h[i - 1], i)
      BY <3>1
    <3>3. Loop(h, k)
      BY <3>2
    <3> HIDE DEF h
    <3> QED BY <3>3
  <2> HIDE DEF S
  <2>3. to \in S
    BY <2>1, <2>2, Upto
  <2> QED BY <2>3 DEF S
<1>5. Loop(g0, to)
  BY <1>4
<1> HIDE DEF g0
<1>6. \A i \in 0..to : g0[i] = IF i <= from THEN Ok(s, pages) ELSE step(g0[i - 1], i)
  BY <1>5
<1> DEFINE S == {i \in 0..to : Fine(g0[i], i)}
<1>7. 0 \in S
  BY <1>6, <1>3
<1>8. ASSUME NEW i \in 1..to, i - 1 \in S PROVE i \in S
  <2>1. Fine(g0[i - 1], i - 1) /\ i \in 0..to
    BY <1>8
  <2>2. CASE i <= from
    BY <1>3, <1>6, <2>1, <2>2
  <2>3. CASE ~(i <= from)
    BY <1>2, <1>6, <2>1, <2>3
  <2> QED BY <2>2, <2>3
<1> HIDE DEF S
<1>9. to \in S
  BY <1>7, <1>8, Upto
<1> QED BY <1>1, <1>9 DEF S, Fine

-----------------------------------------------------------------------------
(* The invariant. *)
TreeAt(s, h, l) ==
  /\ Shape(s, Nil) /\ Leak(s, l)
  /\ \A i \in Opens : Held(s, h[i])
  /\ \A i, k \in Opens : h[i].file # Nil /\ h[i].file = h[k].file => i = k

TreeInv == FilesInv /\ (halted = "no" => TreeAt(fs, fd, lost))

LEMMA TreeNext ==
  ASSUME FilesInv', halted' = "no" => TreeAt(fs', fd', lost')
  PROVE  TreeInv'
BY DEF TreeInv

LEMMA TreeDone ==
  ASSUME TreeInv, Next, NEW t, Done(t), t.err \notin Stops => TreeAt(t.fs, fd', lost')
  PROVE  TreeInv'
<1>1. FilesInv'
  BY StepInvariant DEF TreeInv
<1>2. halted' = "no" => t.err \notin Stops
  BY DEF Done, Stops
<1>3. fs' = t.fs
  BY DEF Done
<1> QED BY <1>1, <1>2, <1>3, TreeNext

LEMMA TreeRise ==
  ASSUME NEW s, NEW h, NEW l, TreeAt(s, h, l), NEW t, Rise(s, t, Nil)
  PROVE  TreeAt(t, h, l)
<1>1. Shape(s, Nil) /\ Shape(t, Nil) /\ Grow(s, t, Nil) /\ Fills(s, t, Upper(t))
  BY DEF Rise
<1>2. Fills(s, t, Reach(t))
  BY <1>1 DEF Fills, Upper, Reach
<1>3. Leak(t, l)
  BY <1>1, <1>2, GrowLeak DEF TreeAt
<1>4. ASSUME NEW i \in Opens PROVE Held(t, h[i])
  BY <1>1, HeldGrow DEF TreeAt
<1> QED BY <1>1, <1>3, <1>4 DEF TreeAt

LEMMA TreeStill ==
  ASSUME NEW s, NEW h, NEW l, TreeAt(s, h, l), NEW t, Still(s, t), Sound(t)
  PROVE  TreeAt(t, h, l)
BY StillShape, TreeRise DEF TreeAt

LEMMA TreeSync ==
  ASSUME TreeInv, sync
  PROVE  TreeInv'
<1>1. halted = "no" /\ Done(Ok(fs_sync(fs), 0)) /\ UNCHANGED <<fd, lost>>
  BY DEF sync, Serving
<1>2. Sound(fs) /\ Typed(fs) /\ Clean(fs) /\ TreeAt(fs, fd, lost)
  BY <1>1, SoundIs DEF TreeInv, TreeAt, Shape
<1>3. Still(fs, fs_sync(fs)) /\ Sound(fs_sync(fs))
  <2>1. Same(fs, fs_sync(fs)) /\ Still(fs, fs_sync(fs))
    BY <1>2, WriteBlocks, WriteStill DEF fs_sync
  <2> QED BY <1>2, <2>1, SameSound
<1>4. TreeAt(Ok(fs_sync(fs), 0).fs, fd', lost')
  BY <1>1, <1>2, <1>3, TreeStill, Results
<1> QED BY <1>1, <1>4, TreeDone DEF Next

LEMMA TreeClose ==
  ASSUME TreeInv, NEW i \in Opens, close(i)
  PROVE  TreeInv'
<1> DEFINE f == fd[i].file
           last == Nblocks(fd[i].size)
           d == dirty_blocks(fs, f, last)
           c == Then(d, LAMBDA t : Ok(file_close(t.fs, f), 0))
<1>1. /\ halted = "no" /\ f # Nil /\ Done(c) /\ lost' = lost
      /\ fd' = [fd EXCEPT ![i] = Closed]
  BY DEF close, Serving
<1>2. TreeAt(fs, fd, lost) /\ last \in Nat
  BY <1>1, NblocksNat DEF TreeInv, FilesInv, Holders
<1>3. f \in InBlocks /\ f \in Where /\ Ready(fs, f)
  BY <1>1, <1>2 DEF TreeAt, Held, Found, Where, Shape, Ready
<1>4. d.err \notin Stops => Still(fs, d.fs) /\ Ready(d.fs, f)
  BY <1>2, <1>3, MarkStill
<1>5. c = IF d.err # "ok" THEN d ELSE Ok(file_close(d.fs, f), 0)
  BY DEF Then
<1> HIDE DEF c, d
<1>6. ASSUME c.err \notin Stops PROVE Still(fs, c.fs) /\ Sound(c.fs)
  <2>1. CASE d.err # "ok"
    BY <1>4, <1>5, <1>6, <2>1 DEF Ready
  <2>2. CASE d.err = "ok"
    <3>1. Still(fs, d.fs) /\ Sound(d.fs) /\ Clean(d.fs)
      BY <1>4, <2>2 DEF Ready, Stops
    <3>2. Still(d.fs, file_close(d.fs, f)) /\ Sound(file_close(d.fs, f))
      BY <1>3, <3>1, CloseStill, FileClose
    <3>3. c.fs = file_close(d.fs, f)
      BY <1>5, <2>2, Results
    <3> QED BY <3>1, <3>2, <3>3, StillOf
  <2> QED BY <2>1, <2>2
<1>7. TreeAt(fs, fd', lost')
  <2>1. Closed.file = Nil
    BY DEF Closed
  <2>2. \A k \in Opens : fd'[k] = fd[k] \/ fd'[k].file = Nil
    BY <1>1, <2>1 DEF TreeInv, FilesInv, Holders
  <2>3. \A k \in Opens : fd'[k] # fd[k] => fd'[k].file = Nil
    BY <2>2
  <2>4. \A k \in Opens : Held(fs, fd'[k])
    BY <1>2, <2>2 DEF TreeAt, Held
  <2>5. \A k, n \in Opens : fd'[k].file # Nil /\ fd'[k].file = fd'[n].file => k = n
    <3> SUFFICES ASSUME NEW k \in Opens, NEW n \in Opens, fd'[k].file # Nil, fd'[k].file = fd'[n].file
                 PROVE  k = n
      OBVIOUS
    <3>1. fd'[k] = fd[k] /\ fd'[n] = fd[n]
      BY <2>2
    <3> QED BY <1>2, <3>1 DEF TreeAt
  <2> QED BY <1>1, <1>2, <2>4, <2>5 DEF TreeAt
<1>8. c.err \notin Stops => TreeAt(c.fs, fd', lost')
  BY <1>6, <1>7, TreeStill
<1>9. Next
  BY DEF Next
<1> QED BY <1>1, <1>8, <1>9, TreeDone

LEMMA TreeMkdir ==
  ASSUME TreeInv, NEW path \in Paths, NEW type \in {"REG", "DIR"}, mkdir(path, type)
  PROVE  TreeInv'
<1> DEFINE c == Then(file_create(fs, path), LAMBDA x :
                       Ok(Put(x.fs, x.r, [Get(x.fs, x.r) EXCEPT !.type = type]), 0))
<1>1. halted = "no" /\ Done(c) /\ UNCHANGED <<fd, lost>>
  BY DEF mkdir, ByPath, Serving
<1>2. TreeAt(fs, fd, lost)
  BY <1>1 DEF TreeInv
<1>3. c.err \notin Stops => Rise(fs, c.fs, Nil)
  BY <1>2, MadeExact DEF TreeAt
<1> HIDE DEF c
<1>4. c.err \notin Stops => TreeAt(c.fs, fd', lost')
  BY <1>1, <1>2, <1>3, TreeRise
<1>5. Next
  BY DEF Next
<1> QED BY <1>1, <1>4, <1>5, TreeDone

-----------------------------------------------------------------------------
(* A request that truncates or removes the File it finds.                   *)
Trims(s, t, u, r, path) ==
  /\ Rise(s, t, Nil) /\ Leads(t, path, r) /\ Alters(t, u, r) /\ Pages(t, u) /\ Remembers(t, u)
  /\ Shape(u, Nil)

LEMMA BackedStill ==
  ASSUME NEW u, NEW v, Still(u, v), NEW p
  PROVE  Backed(v, p) <=> Backed(u, p)
BY StillIs DEF Backed, Has

LEMMA TrimStill ==
  ASSUME NEW s, NEW t, NEW u, NEW r, NEW path, Trims(s, t, u, r, path), NEW v, Still(u, v), Sound(v)
  PROVE  Trims(s, t, v, r, path)
<1>1. Typed(u) /\ Typed(v) /\ v.free = u.free /\ Remembers(u, v)
  BY SoundIs DEF Trims, Shape, Still
<1>2. Shape(v, Nil)
  BY StillShape DEF Trims, Rise
<1>3. /\ \A p : Alike(u, v, p)
      /\ \A p, i : Slot(v, p, i) = Slot(u, p, i)
  BY StillIs
<1>4. \A p : Alike(t, u, p) => Alike(t, v, p)
  BY <1>3 DEF Alike
<1>5. Alters(t, v, r)
  BY <1>1, <1>3, <1>4 DEF Trims, Alters, Called, Alike
<1>6. Pages(t, v)
  <2> SUFFICES ASSUME NEW p \in InBlocks, FilePage(t, p), Backed(v, p) PROVE FilePage(v, p)
    BY DEF Pages
  <2>1. FilePage(u, p)
    BY BackedStill DEF Trims, Pages
  <2> QED BY <1>1, <2>1, StillReady DEF Where
<1>7. Remembers(t, v)
  BY <1>1 DEF Trims, Remembers
<1> QED BY <1>2, <1>5, <1>6, <1>7 DEF Trims

LEMMA NoRoom == Nblocks(0) = 0 /\ Room(0) = {} /\ Slots \ Room(0) = Slots
BY NblocksMono, Numbers DEF Room, Indices

LEMMA EmptyFits ==
  ASSUME NEW s, NEW f, Size(s, f) = 0
  PROVE  Whole(s, f) /\ Full(s, f) /\ Nameless(s, f)
<1>1. Nblocks(Size(s, f)) = 0
  BY NblocksMono
<1>2. 0 <= NINDIRECT /\ \A i \in Indices : ~(i < 0)
  BY Numbers DEF Indices
<1> QED BY <1>1, <1>2 DEF Whole, Full, Nameless

(* What truncation to size 0 leaves. *)
LEMMA TrimCuts ==
  ASSUME NEW s, NEW t, Rise(s, t, Nil), NEW path \in Paths, NEW r, Leads(t, path, r), NEW u,
         Cuts(t, u, r, Slots \ Room(Nblocks(0))), Size(u, r) = 0
  PROVE  /\ Trims(s, t, u, r, path) /\ Ready(u, r) /\ \A i \in Slots : Slot(u, r, i) = 0
         /\ \A i \in Slots : Slot(t, r, i) = 0 \/ Slot(t, r, i) \in u.free
<1>1. Shape(t, Nil) /\ Sound(t) /\ Typed(t) /\ r \in InBlocks /\ Called(t, r) /\ r \in Where
  BY LeadsFound, SoundIs DEF Rise, Shape, Found, Where
<1>2. Cuts(t, u, r, Slots)
  BY NoRoom
<1>3. Full(u, r) /\ Nameless(u, r)
  BY EmptyFits
<1>4. Shape(u, Nil)
  BY <1>1, <1>3, CutShape
<1>5. Alters(t, u, r)
  BY <1>1, <1>2, CutAlters
<1>6. \A i \in Slots : Slot(t, r, i) = 0 \/ Slot(t, r, i) \in u.free
  BY <1>1, <1>2, SlotIs DEF Cuts
<1> QED BY <1>2, <1>4, <1>5, <1>6 DEF Trims, Cuts

(* It loses its name as well. *)
LEMMA TrimMark ==
  ASSUME NEW s, NEW t, NEW u, NEW r, NEW path \in Paths, Trims(s, t, u, r, path),
         \A i \in Slots : Slot(t, r, i) = 0 \/ Slot(t, r, i) \in u.free,
         NEW v, Marks(u, v, r), Size(v, r) = 0, \A i \in Slots : Slot(u, r, i) = 0
  PROVE  Trims(s, t, v, r, path)
<1>1. /\ Sound(u) /\ Typed(u) /\ Shape(u, Nil) /\ r \in InBlocks /\ r # Root /\ r # Nil
      /\ Root \in Where /\ InBlocks \subseteq Where
  BY SoundIs, Places, LeadsFound DEF Trims, Shape, Where
<1>2. /\ \A p \in Where : Has(v, p) = Has(u, p)
      /\ \A p \in InBlocks : Backed(v, p) <=> Backed(u, p)
      /\ \A p \in InBlocks : FilePage(u, p) => FilePage(v, p)
      /\ \A p \in Where, i \in Slots : Slot(v, p, i) = Slot(u, p, i)
      /\ Sound(v) /\ Typed(v) /\ v.free = u.free /\ Remembers(u, v)
      /\ \A p \in Where : p # r => Alike(u, v, p)
  BY <1>1, MarksIs DEF Marks, Edits
<1>3. Full(v, r) /\ Nameless(v, r)
  BY EmptyFits
<1>4. FitsAt(v, r)
  BY <1>1, <1>2 DEF FitsAt
<1>5. Shape(v, Nil)
  BY <1>1, <1>3, <1>4, MarkShape
<1>6. \A p \in Where : p # r => Alike(t, v, p)
  BY <1>2 DEF Trims, Alters, Alike
<1>7. Alters(t, v, r)
  BY <1>2, <1>6 DEF Trims, Alters
<1>8. Pages(t, v) /\ Remembers(t, v)
  BY <1>2 DEF Trims, Pages, Remembers
<1> QED BY <1>5, <1>7, <1>8 DEF Trims

LEMMA RemoveExact ==
  ASSUME NEW s, Shape(s, Nil), NEW path \in Paths
  PROVE  LET c == file_remove(s, path) IN
         c.err \notin Stops =>
           IF c.err # "ok" THEN Rise(s, c.fs, Nil) ELSE \E t, r : Trims(s, t, c.fs, r, path)
<1> DEFINE c == file_remove(s, path)
           w == walk_path(s, path)
           r == w.r
           t == file_truncate(w.fs, r, 0)
           x == [Get(t.fs, r) EXCEPT !.name = NoName]
           u == Put(t.fs, r, x)
           v == file_flush(u, r)
           d == Get(u, r).dir
<1>1. Walks(s, w, path)
  BY WalkPathExact
<1>2. c = IF w.err # "ok" THEN w ELSE IF t.err # "ok" THEN t ELSE Ok(flush_dir(v, d), r)
  BY DEF file_remove, Then
<1> HIDE DEF c, w
<1> SUFFICES ASSUME c.err \notin Stops
             PROVE  IF c.err # "ok" THEN Rise(s, c.fs, Nil) ELSE \E y, z : Trims(s, y, c.fs, z, path)
  BY DEF c
<1>3. CASE w.err # "ok"
  BY <1>1, <1>2, <1>3 DEF Walks
<1>4. CASE w.err = "ok"
  <2>1. Rise(s, w.fs, Nil) /\ Leads(w.fs, path, r) /\ Shape(w.fs, Nil)
    BY <1>1, <1>4 DEF Walks, Stops, Rise
  <2>2. Ready(w.fs, r) /\ FitsAt(w.fs, r) /\ r \in Where /\ r \in InBlocks
    BY <2>1, LeadsFound DEF Shape, Ready, Where
  <2>3. 0 \in Nat /\ Nblocks(0) <= Nblocks(Size(w.fs, r))
    <3>1. Size(w.fs, r) \in Nat
      BY <2>2, FileTypes, FileFields, SoundIs DEF Size, Ready
    <3> QED BY <3>1, NblocksMono, NblocksNat
  <2>4. /\ t.err = "ok" => Cuts(w.fs, t.fs, r, Slots \ Room(Nblocks(0))) /\ Size(t.fs, r) = 0
        /\ t.err # "ok" => t.err \in Stops
    BY <2>2, <2>3, TruncateExact
  <2> HIDE DEF t, r
  <2>5. t.err = "ok" /\ c = Ok(flush_dir(v, d), r)
    BY <1>2, <1>4, <2>4
  <2>6. /\ Trims(s, w.fs, t.fs, r, path) /\ Ready(t.fs, r) /\ \A i \in Slots : Slot(t.fs, r, i) = 0
        /\ \A i \in Slots : Slot(w.fs, r, i) = 0 \/ Slot(w.fs, r, i) \in t.fs.free
    BY <2>1, <2>4, <2>5, TrimCuts
  <2>7. Get(t.fs, r) \in File /\ Get(t.fs, r).size = 0 /\ Typed(t.fs) /\ Sound(t.fs)
    BY <2>4, <2>5, <2>6, ReadyGet DEF Size, Ready
  <2>8. Sound(u) /\ Typed(u)
    BY <2>2, <2>7, Renamed, QuietSound, SoundIs
  <2>9. x \in File /\ x.direct = Get(t.fs, r).direct /\ x.indirect = Get(t.fs, r).indirect /\ x.size = 0
    BY <2>7 DEF File
  <2> HIDE DEF x
  <2>10. Marks(t.fs, u, r) /\ FileAt(u, r) = x /\ Ready(u, r)
    BY <2>6, <2>8, <2>9, MarksOf
  <2>11. Trims(s, w.fs, u, r, path)
    BY <2>6, <2>9, <2>10, TrimMark DEF Size
  <2> HIDE DEF u
  <2>12. Clean(u) /\ d \in Positions
    BY <2>2, <2>8, <2>10, GetIs, FileFields DEF Ready
  <2>13. Still(u, v) /\ Sound(v) /\ Typed(v) /\ Clean(v)
    <3>1. Same(u, v) /\ Still(u, v)
      BY <2>2, <2>8, <2>12, FileFlush, FlushStill
    <3>2. Sound(v) /\ Typed(v)
      BY <2>8, <3>1, SameSound, SoundIs
    <3> QED BY <2>12, <3>1, <3>2 DEF Still
  <2> HIDE DEF v, d
  <2>14. Still(v, flush_dir(v, d)) /\ Sound(flush_dir(v, d))
    BY <2>12, <2>13, FlushDir, FlushDirStill, SameSound
  <2>15. Still(u, flush_dir(v, d))
    BY <2>13, <2>14, StillOf
  <2>16. Trims(s, w.fs, flush_dir(v, d), r, path)
    BY <2>11, <2>14, <2>15, TrimStill
  <2>17. c.fs = flush_dir(v, d) /\ c.err = "ok"
    BY <2>5, Results
  <2> QED BY <2>16, <2>17
<1> QED BY <1>3, <1>4

LEMMA TrimTree ==
  ASSUME Exclusive, NEW path \in Paths, Untouched(path), NEW l, TreeAt(fs, fd, l),
         NEW t, NEW u, NEW r, Trims(fs, t, u, r, path)
  PROVE  TreeAt(u, fd, l \cup Lost(fs, r))
<1>1. Rise(fs, t, Nil) /\ Leads(t, path, r) /\ r \in InBlocks /\ Shape(u, Nil) /\ Alters(t, u, r)
  BY LeadsFound DEF Trims
<1>2. Leak(u, l \cup Lost(fs, r))
  BY <1>1, CutLeak DEF TreeAt
<1>3. Sound(t) /\ Clean(t) /\ Sound(u) /\ Clean(u)
  BY <1>1 DEF Rise, Shape
<1>4. ASSUME NEW i \in Opens PROVE Held(u, fd[i])
  <2>1. Held(fs, fd[i]) /\ Held(t, fd[i])
    BY <1>1, TreeRise DEF TreeAt
  <2>2. ASSUME fd[i].file # Nil PROVE fd[i].file # r /\ fd[i].file.blk \notin Has(t, r)
    <3>1. fd[i].file \in Open /\ Found(fs, fd[i].file)
      BY <2>1, <2>2 DEF Open, Held
    <3> QED BY <1>1, <3>1, UntouchedIs
  <2> QED BY <1>1, <1>3, <2>1, <2>2, HeldAlters DEF Trims
<1> QED BY <1>1, <1>2, <1>4 DEF TreeAt

LEMMA TreeRemove ==
  ASSUME Exclusive, TreeInv, NEW path \in Paths, remove(path)
  PROVE  TreeInv'
<1> DEFINE store == Memory(fs)
           gone == UNION {LET x == At(store, fs.root, p) IN (BlocksOf(store, x) \cup {x.indirect}) \ {0} :
                            p \in Below(path) \ Named(store, fs.root, path)}
           c == file_remove(fs, path)
<1>1. /\ halted = "no" /\ Done(c) /\ fd' = fd /\ Untouched(path)
      /\ lost' = IF c.err = "ok" THEN lost \cup gone ELSE lost
  BY DEF remove, ByPath, Serving
<1>2. TreeAt(fs, fd, lost) /\ Shape(fs, Nil)
  BY <1>1 DEF TreeInv, TreeAt
<1>3. c.err \notin Stops =>
        IF c.err # "ok" THEN Rise(fs, c.fs, Nil) ELSE \E t, r : Trims(fs, t, c.fs, r, path)
  BY <1>2, RemoveExact
<1> HIDE DEF c
<1>4. ASSUME NEW t, NEW r, Trims(fs, t, c.fs, r, path) PROVE Lost(fs, r) \subseteq gone
  <2>1. /\ Offspring(fs, r) \subseteq Below(path) \ Named(store, fs.root, path)
        /\ \A p \in Offspring(fs, r), i \in Slots : Slot(fs, p, i) # 0 =>
             LET x == At(store, fs.root, p) IN
             Slot(fs, p, i) \in (BlocksOf(store, x) \cup {x.indirect}) \ {0}
    BY <1>4, GoneIs DEF Trims
  <2>2. 0 \notin Blocks
    BY Numbers
  <2> HIDE DEF store
  <2> QED BY <2>1, <2>2 DEF Lost
<1> HIDE DEF gone
<1>5. ASSUME c.err \notin Stops PROVE TreeAt(c.fs, fd', lost')
  <2>1. CASE c.err # "ok"
    BY <1>1, <1>2, <1>3, <1>5, <2>1, TreeRise
  <2>2. CASE c.err = "ok"
    <3>1. PICK t, r : Trims(fs, t, c.fs, r, path)
      BY <1>3, <1>5, <2>2
    <3>2. TreeAt(c.fs, fd, lost \cup Lost(fs, r))
      BY <1>1, <1>2, <3>1, TrimTree
    <3>3. Lost(fs, r) \subseteq gone
      BY <1>4, <3>1
    <3>4. Leak(c.fs, lost \cup gone)
      BY <3>2, <3>3 DEF TreeAt, Leak
    <3> QED BY <1>1, <2>2, <3>2, <3>4 DEF TreeAt
  <2> QED BY <2>1, <2>2
<1>6. Next
  BY DEF Next
<1> QED BY <1>1, <1>5, <1>6, TreeDone

-----------------------------------------------------------------------------
(* open *)
LEMMA FoundSelf ==
  ASSUME NEW t, Sound(t), NEW u, NEW r, Alters(t, u, r), Found(t, r), Called(u, r)
  PROVE  Found(u, r)
<1>1. Root \in Where /\ InBlocks \subseteq Where /\ r # Root /\ r \in InBlocks /\ r \in Reach(t)
  BY FoundReach, Places DEF Where, Found
<1>2. \A p \in Where : p # r => Alike(t, u, p)
  BY DEF Alters
<1>3. \A q \in Where : q # r => \A x : Listed(t, q, x) => Listed(u, q, x)
  BY <1>2, Numbers DEF Listed, Alike
<1>4. \A q \in Where : q # r /\ Called(t, q) => Called(u, q)
  BY <1>2 DEF Called, Alike
<1>5. ~Listed(t, r, r)
  BY <1>1, ReachIs, Numbers DEF Listed
<1> QED BY <1>1, <1>3, <1>4, <1>5 DEF Found

Opened(o, path) ==
  /\ TreeAt(o.fs, fd, lost)
  /\ o.err = "ok" => /\ Found(o.fs, o.r) /\ FilePage(o.fs, o.r)
                     /\ \E t : Rise(fs, t, Nil) /\ Leads(t, path, o.r)

LEMMA OpenExact ==
  ASSUME Exclusive, TreeAt(fs, fd, lost), NEW path \in Paths, Untouched(path),
         NEW creat \in BOOLEAN, NEW trunc \in BOOLEAN, trunc => Regular(path)
  PROVE  LET o == serve_open(path, creat, trunc) IN o.err \notin Stops => Opened(o, path)
<1> DEFINE o == serve_open(path, creat, trunc)
           c == IF creat THEN file_create(fs, path) ELSE Ok(fs, Nil)
           w == walk_path(c.fs, path)
           r == w.r
           t == file_set_size(w.fs, r, 0)
<1>1. Shape(fs, Nil)
  BY DEF TreeAt
<1>2. c.err \notin Stops => Rise(fs, c.fs, Nil)
  <2>1. CASE creat
    BY <1>1, <2>1, CreateExact DEF Makes
  <2>2. CASE ~creat
    BY <1>1, <2>2, RiseSelf, Results
  <2> QED BY <2>1, <2>2
<1>3. o = IF c.err \notin {"ok", "E_FILE_EXISTS"} THEN c
          ELSE IF w.err # "ok" THEN w
          ELSE IF ~trunc THEN Ok(w.fs, r)
          ELSE IF t.err # "ok" THEN t ELSE Ok(t.fs, r)
  BY DEF serve_open, Then
<1> HIDE DEF o, c
<1> SUFFICES ASSUME o.err \notin Stops PROVE Opened(o, path)
  BY DEF o
<1>4. CASE c.err \notin {"ok", "E_FILE_EXISTS"}
  <2>1. o = c /\ c.err # "ok"
    BY <1>3, <1>4
  <2> QED BY <1>2, <2>1, TreeRise DEF Opened
<1>5. CASE c.err \in {"ok", "E_FILE_EXISTS"}
  <2>1. Rise(fs, c.fs, Nil) /\ Shape(c.fs, Nil)
    BY <1>2, <1>5 DEF Stops, Rise
  <2>2. Walks(c.fs, w, path)
    BY <2>1, WalkPathExact
  <2> HIDE DEF w
  <2>3. CASE w.err # "ok"
    <3>1. o = w
      BY <1>3, <1>5, <2>3
    <3>2. Rise(fs, w.fs, Nil)
      BY <2>1, <2>2, <3>1, RiseTrans DEF Walks
    <3> QED BY <2>3, <3>1, <3>2, TreeRise DEF Opened
  <2>4. CASE w.err = "ok"
    <3>1. Rise(fs, w.fs, Nil) /\ Leads(w.fs, path, r) /\ Shape(w.fs, Nil)
      BY <2>1, <2>2, <2>4, RiseTrans DEF Walks, Stops, Rise
    <3>2. Ready(w.fs, r) /\ FitsAt(w.fs, r) /\ r \in Where /\ Found(w.fs, r) /\ FilePage(w.fs, r)
      BY <3>1, LeadsFound DEF Shape, Ready, Where
    <3>3. /\ t.err = "ok" => Cuts(w.fs, t.fs, r, Slots \ Room(Nblocks(0))) /\ Size(t.fs, r) = 0
          /\ t.err # "ok" => t.err \in Stops
      BY <3>2, SetSizeExact
    <3> HIDE DEF t, r
    <3>4. CASE ~trunc
      <4>1. o.fs = w.fs /\ o.r = r
        BY <1>3, <1>5, <2>4, <3>4, Results
      <4> QED BY <3>1, <3>2, <4>1, TreeRise DEF Opened
    <3>5. CASE trunc
      <4>1. t.err = "ok"
        BY <1>3, <1>5, <2>4, <3>3, <3>5
      <4>2. o.fs = t.fs /\ o.r = r
        BY <1>3, <1>5, <2>4, <3>5, <4>1, Results
      <4>3. Trims(fs, w.fs, t.fs, r, path) /\ Ready(t.fs, r)
        BY <3>1, <3>3, <4>1, TrimCuts
      <4>4. Lost(fs, r) = {}
        BY <3>1, <3>5, RegularIs
      <4>5. TreeAt(t.fs, fd, lost)
        <5>1. TreeAt(t.fs, fd, lost \cup Lost(fs, r))
          BY <4>3, TrimTree
        <5>2. lost \cup Lost(fs, r) = lost
          BY <4>4
        <5> QED BY <5>1, <5>2
      <4>6. Found(t.fs, r) /\ FilePage(t.fs, r)
        <5>1. Called(t.fs, r)
          BY <3>2, <3>3, <4>1 DEF Cuts, SameName, Called, Found
        <5> QED BY <3>1, <3>2, <4>3, <5>1, FoundSelf DEF Trims, Shape, Ready
      <4> QED BY <3>1, <4>2, <4>5, <4>6 DEF Opened
    <3> QED BY <3>4, <3>5
  <2> QED BY <2>3, <2>4
<1> QED BY <1>4, <1>5

LEMMA TreeGrow ==
  ASSUME NEW s, NEW h, NEW l, TreeAt(s, h, l), NEW t, Shape(t, Nil), Grow(s, t, Nil),
         Fills(s, t, Reach(t))
  PROVE  TreeAt(t, h, l)
<1>1. Leak(t, l)
  BY GrowLeak DEF TreeAt
<1>2. ASSUME NEW i \in Opens PROVE Held(t, h[i])
  BY HeldGrow DEF TreeAt
<1> QED BY <1>1, <1>2 DEF TreeAt

(* A regular file has all its blocks, a directory may get some.             *)
LEMMA MapOpened ==
  ASSUME NEW s, NEW h, NEW l, TreeAt(s, h, l), NEW r, Found(s, r), FilePage(s, r),
         NEW m, m = fsipc_map(s, r, NoPages, 0, Nblocks(Size(s, r))), m.err \notin Stops,
         NEW e, e.file = r, e.size = Size(s, r), e.pages = m.r
  PROVE  TreeAt(m.fs, h, l) /\ Held(m.fs, e)
<1> DEFINE to == Nblocks(Size(s, r))
<1>1. Shape(s, Nil) /\ Ready(s, r) /\ r \in Where /\ r \in InBlocks /\ r # Nil
  BY Places DEF TreeAt, Shape, Ready, Found, Where
<1>2. Sound(s) /\ Typed(s) /\ FitsAt(s, r) /\ Full(s, r)
  BY <1>1, SoundIs DEF Shape
<1>3. to \in Nat /\ NoPages \in Ptrs /\ 0 \in Nat /\ \A n \in Indices : NoPages[n] = 0
  <2>1. Size(s, r) \in Nat
    BY <1>1, <1>2, FileTypes, FileFields DEF Size
  <2> QED BY <2>1, NblocksNat DEF NoPages, Ptrs, Indices
<1> HIDE DEF to
<1>4. Mapped(s, m, r, NoPages, 0, to, to)
  BY <1>1, <1>3, MapLoop DEF to
<1>5. Adds(s, m.fs, r, RoomOf(s, r)) /\ Ready(m.fs, r) /\ SameName(s, m.fs, r)
  BY <1>4 DEF Mapped, Adds
<1>6. CASE Type(s, r) = "REG"
  <2>1. Whole(s, r)
    BY <1>2, <1>6 DEF Full
  <2>2. There(s, r, 0, to)
    <3> SUFFICES ASSUME NEW n \in Nat, n < to PROVE n \in Indices /\ Slot(s, r, n) # 0
      BY DEF There
    <3>1. to <= NINDIRECT
      BY <2>1 DEF Whole, to
    <3>2. n \in Indices
      BY <1>3, <3>1, Numbers DEF Indices
    <3> QED BY <2>1, <3>2 DEF Whole, to
  <2>3. m.err = "ok" /\ Still(s, m.fs) /\ MapsFrom(m.fs, r, NoPages, m.r, 0, to)
    BY <1>4, <2>2 DEF Mapped
  <2>4. TreeAt(m.fs, h, l)
    BY <1>5, <2>3, TreeStill DEF Ready
  <2>5. Shape(m.fs, Nil) /\ Rise(s, m.fs, Nil)
    BY <1>1, <1>5, <2>3, StillShape DEF Ready, Rise
  <2>6. Found(m.fs, r) /\ FilePage(m.fs, r)
    BY <1>1, <2>5 DEF Rise, Grow
  <2>7. Maps(m.fs, r, m.r)
    <3> SUFFICES ASSUME NEW n \in Indices
                 PROVE  m.r[n] = Slot(m.fs, r, n) /\ (Slot(m.fs, r, n) # 0 => Reached(m.fs, r, n))
      BY DEF Maps
    <3>1. n \in Nat /\ n # NINDIRECT /\ n \in Slots
      BY Numbers DEF Indices
    <3>2. CASE n < to
      BY <2>3, <3>1, <3>2 DEF MapsFrom
    <3>3. CASE ~(n < to)
      <4>1. m.r[n] = 0
        BY <1>3, <2>3, <3>3 DEF MapsFrom
      <4>2. Slot(s, r, n) = 0
        BY <1>2, <3>1, <3>3 DEF FitsAt, Room, to
      <4>3. Slot(m.fs, r, n) = 0
        BY <2>3, <4>2, StillIs
      <4> QED BY <4>1, <4>3
    <3> QED BY <3>2, <3>3
  <2> QED BY <2>4, <2>6, <2>7 DEF Held
<1>7. CASE Type(s, r) # "REG"
  <2>1. Type(s, r) = "DIR"
    <3>1. FileAt(s, r) \in File
      BY <1>1, <1>2, FileTypes
    <3> QED BY <1>7, <3>1 DEF Type, File
  <2>2. RoomOf(s, r) \cap Slots \subseteq Room(Nblocks(Size(s, r)))
    BY DEF RoomOf
  <2>3. Shape(m.fs, Nil) /\ Grow(s, m.fs, Nil) /\ Fills(s, m.fs, {r})
    BY <1>1, <1>5, <2>1, <2>2, AddsShape
  <2>4. Found(m.fs, r) /\ FilePage(m.fs, r)
    BY <1>1, <2>3 DEF Grow
  <2>5. r \in Reach(m.fs)
    BY <2>4, FoundReach
  <2>6. Fills(s, m.fs, Reach(m.fs))
    BY <2>3, <2>5 DEF Fills
  <2>7. TreeAt(m.fs, h, l)
    BY <2>3, <2>6, TreeGrow
  <2>8. Type(m.fs, r) # "REG"
    BY <1>5, <1>7 DEF SameName
  <2> QED BY <2>4, <2>7, <2>8 DEF Held
<1> QED BY <1>6, <1>7

LEMMA TreeOpen ==
  ASSUME Exclusive, TreeInv, NEW path \in Paths, NEW creat \in BOOLEAN, NEW trunc \in BOOLEAN,
         open(path, creat, trunc)
  PROVE  TreeInv'
<1> DEFINE i == Min({k \in Opens : fd[k].file = Nil})
           o == serve_open(path, creat, trunc)
           size == Get(o.fs, o.r).size
           m == fsipc_map(o.fs, o.r, NoPages, 0, Nblocks(size))
           e == [file |-> o.r, size |-> size, pages |-> m.r]
<1>1. /\ \E k \in Opens : fd[k].file = Nil
      /\ halted = "no" /\ lost' = lost /\ Untouched(path) /\ (trunc => Regular(path))
      /\ IF o.err # "ok" THEN Done(o) /\ fd' = fd
         ELSE Done(m) /\ fd' = [fd EXCEPT ![i] = e]
  BY DEF open, ByPath, Serving
<1>2. TreeAt(fs, fd, lost)
  BY <1>1 DEF TreeInv
<1>3. o.err \notin Stops => Opened(o, path)
  BY <1>1, <1>2, OpenExact
<1> HIDE DEF o
<1>4. Next
  BY DEF Next
<1>5. CASE o.err # "ok"
  <2>1. o.err \notin Stops => TreeAt(o.fs, fd', lost')
    BY <1>1, <1>3, <1>5 DEF Opened
  <2> QED BY <1>1, <1>4, <1>5, <2>1, TreeDone
<1>6. CASE o.err = "ok"
  <2>1. /\ TreeAt(o.fs, fd, lost) /\ Found(o.fs, o.r) /\ FilePage(o.fs, o.r)
        /\ \E t : Rise(fs, t, Nil) /\ Leads(t, path, o.r)
    BY <1>3, <1>6 DEF Opened, Stops
  <2>2. Ready(o.fs, o.r) /\ size = Size(o.fs, o.r)
    <3>1. Ready(o.fs, o.r)
      BY <2>1 DEF TreeAt, Shape, Ready, Found, Where
    <3> QED BY <3>1, ReadyGet DEF Size
  <2>3. e.file = o.r /\ e.size = Size(o.fs, o.r) /\ e.pages = m.r
    BY <2>2
  <2>4. m = fsipc_map(o.fs, o.r, NoPages, 0, Nblocks(Size(o.fs, o.r)))
    BY <2>2
  <2> HIDE DEF m, size, e, i
  <2>5. ASSUME m.err \notin Stops PROVE TreeAt(m.fs, fd', lost')
    <3>1. TreeAt(m.fs, fd, lost) /\ Held(m.fs, e)
      BY <2>1, <2>3, <2>4, <2>5, MapOpened
    <3>2. \A k \in Opens : fd'[k] = IF k = i THEN e ELSE fd[k]
      BY <1>1, <1>6 DEF TreeInv, FilesInv, Holders
    <3>3. \A k \in Opens : Held(m.fs, fd'[k])
      BY <3>1, <3>2 DEF TreeAt
    <3>4. ASSUME NEW k \in Opens, fd[k].file # Nil PROVE fd[k].file # o.r
      <4>1. fd[k].file \in Open /\ Found(fs, fd[k].file)
        BY <1>2, <3>4 DEF Open, TreeAt, Held
      <4> QED BY <1>1, <2>1, <4>1, UntouchedIs
    <3>5. ASSUME NEW k \in Opens, NEW n \in Opens, fd'[k].file # Nil, fd'[k].file = fd'[n].file
          PROVE  k = n
      BY <1>2, <2>3, <3>2, <3>4, <3>5 DEF TreeAt
    <3> QED BY <1>1, <3>1, <3>3, <3>5 DEF TreeAt
  <2> QED BY <1>1, <1>4, <1>6, <2>5, TreeDone
<1> QED BY <1>5, <1>6

-----------------------------------------------------------------------------
(* A store.  Files that the page looked to hold are gone; no path found     *)
(* them. *)
Overwrites(s, t, b) ==
  /\ Clean(t) /\ Remembers(s, t) /\ t.free = s.free
  /\ \A p \in Where : p = Root \/ p.blk # b => Alike(s, t, p)
  /\ \A p \in InBlocks : p.blk = b => Void(t, p)
  /\ \A c \in Blocks : c # b => t.cache[c] = s.cache[c]

LEMMA StoreExact ==
  ASSUME NEW s, Sound(s), Clean(s), NEW f \in Where, NEW n \in Indices, NEW b \in Blocks,
         b = Slot(s, f, n), NEW v, NEW t, t = [s EXCEPT !.cache[b] = DataBlock(v)], Sound(t)
  PROVE  Overwrites(s, t, b)
<1> DEFINE c == DataBlock(v)
<1>1. c.kind = "data" /\ Unmapped.kind = "unmapped"
  BY DEF DataBlock, Unmapped
<1>2. Page(c) /\ Plain(c) /\ c.kind # "unmapped" /\ c # Unmapped
  BY <1>1, PlainPage DEF Plain
<1>3. t = [s EXCEPT !.cache[b] = c]
  OBVIOUS
<1> HIDE DEF c
<1>4. Typed(s) /\ Typed(t) /\ Unique(s)
  BY SoundIs
<1>5. /\ t.free = s.free /\ t.root = s.root /\ Memory(t)[b] = c
      /\ InMemory(s, t)
      /\ \A k \in Blocks : k # b => Memory(t)[k] = Memory(s)[k]
  BY <1>2, <1>3, <1>4, CacheSet
<1>6. \A k \in Blocks : t.cache[k] = IF k = b THEN c ELSE s.cache[k]
  BY <1>3, <1>4 DEF Typed
<1>7. \A p \in Where : Slot(s, p, NINDIRECT) # b
  BY <1>4, Numbers DEF Unique
<1>8. ASSUME NEW p \in Where, p = Root \/ p.blk # b PROVE Alike(s, t, p)
  <2>1. FileAt(t, p) = FileAt(s, p)
    <3>1. p # Root => p \in InBlocks /\ p.blk \in Blocks
      BY Places DEF Where
    <3> QED BY <1>5, <1>8, <3>1 DEF FileAt, At
  <2>2. FileAt(s, p).indirect # b /\ FileAt(s, p).indirect \in Blocks \cup {0}
    BY <1>4, <1>7, FileTypes, FileFields DEF Slot
  <2> QED BY <1>4, <1>5, <2>1, <2>2, AlikeOf
<1>9. ASSUME NEW p \in InBlocks, p.blk = b PROVE Void(t, p)
  <2>1. FileAt(t, p) = NoFile
    <3>1. p # Root /\ p.idx \in Js
      BY Places
    <3>2. FileAt(t, p) = Entries(c)[p.idx]
      BY <1>5, <1>9, <3>1 DEF FileAt, At
    <3> QED BY <1>2, <3>1, <3>2 DEF Plain
  <2> QED BY <1>4, <2>1, VoidOf DEF Where
<1>10. Remembers(s, t)
  BY <1>2, <1>6 DEF Remembers
<1>11. Clean(t)
  <2>1. ASSUME NEW p \in Where, Slot(t, p, NINDIRECT) # 0
        PROVE  Kind(t, Slot(t, p, NINDIRECT)) \in {"zero", "ptrs"}
    <3>1. p = Root \/ p.blk # b
      BY <1>9, <2>1, Numbers DEF Void, Where
    <3>2. Slot(t, p, NINDIRECT) = Slot(s, p, NINDIRECT)
      BY <1>8, <3>1, Numbers DEF Alike
    <3>3. Slot(s, p, NINDIRECT) \in Blocks
      BY <1>4, <2>1, <3>2, SlotIs, Numbers
    <3> QED BY <1>5, <1>7, <2>1, <3>2, <3>3 DEF Clean, Kind
  <2>2. \A k \in t.dirty : t.cache[k] # Unmapped
    BY <1>2, <1>4, <1>5, <1>6 DEF Clean, InMemory, Typed
  <2> QED BY <1>5, <2>1, <2>2 DEF Clean, InMemory
<1> QED BY <1>5, <1>6, <1>8, <1>9, <1>10, <1>11, <1>2 DEF Overwrites

LEMMA OverwritesShape ==
  ASSUME NEW s, Shape(s, Nil), NEW t, NEW b, Overwrites(s, t, b), Sound(t),
         \A p \in Reach(s) : p = Root \/ p.blk # b
  PROVE  Shape(t, Nil)
<1>1. Root \in Where /\ Root \in Reach(s) /\ InBlocks \subseteq Where /\ Root \notin InBlocks
  BY Places DEF Where, Reach
<1>2. Alike(s, t, Root) /\ Has(t, Root) = Has(s, Root)
  BY <1>1, AlikeHas DEF Overwrites
<1>3. \A p \in InBlocks : Alike(s, t, p) \/ Void(t, p)
  BY <1>1 DEF Overwrites
<1>4. RootIs(t)
  BY <1>2 DEF Shape, RootIs, Alike
<1>5. FitsAt(t, Root)
  BY <1>1, <1>2, AlikeFits DEF Shape
<1>6. \A p \in InBlocks : FitsAt(t, p) /\ Nameless(t, p)
  BY <1>1, <1>3, AlikeFits, VoidFits DEF Shape
<1>7. ASSUME NEW p \in InBlocks PROVE Full(t, p)
  <2>1. CASE Void(t, p)
    BY <2>1, VoidFits DEF Full
  <2>2. CASE Alike(s, t, p)
    <3>1. Full(s, p) /\ Type(t, p) = Type(s, p)
      BY <2>2, Places DEF Shape, Alike, Where, Positions
    <3> QED BY <1>2, <2>2, <3>1, AlikeFits DEF Full
  <2> QED BY <1>3, <2>1, <2>2
<1>8. \A p \in Where : p = Root \/ p \in InBlocks
  BY DEF Where
<1>9. Clean(t)
  BY DEF Overwrites
<1> QED BY <1>4, <1>5, <1>6, <1>7, <1>8, <1>9 DEF Shape

LEMMA OverwritesFound ==
  ASSUME NEW s, Sound(s), NEW t, Sound(t), NEW b, Overwrites(s, t, b),
         \A p \in Reach(s) : p = Root \/ p.blk # b
  PROVE  /\ Reach(s) \subseteq Reach(t) /\ \A p \in Reach(s) : Alike(s, t, p)
         /\ \A p : Found(s, p) => Found(t, p)
<1>1. \A p \in Reach(s) : p \in Where /\ Alike(s, t, p) /\ Has(t, p) = Has(s, p)
  BY ReachIs, AlikeHas DEF Overwrites
<1>2. Root \in Reach(s) /\ Top(s) \subseteq Reach(s)
  BY DEF Reach
<1>3. \A p \in Reach(s) : (Called(s, p) => Called(t, p))
  BY <1>1 DEF Called, Alike
<1>4. \A d \in Reach(s) : \A p :
          (In(s, d, p) => In(t, d, p)) /\ (Listed(s, d, p) => Listed(t, d, p))
  BY <1>1, Numbers DEF In, Listed, Alike
<1>5. Top(s) \subseteq Top(t)
  BY <1>2, <1>3, <1>4 DEF Top
<1>6. Reach(s) \subseteq Reach(t)
  <2> SUFFICES ASSUME NEW p \in Reach(s) PROVE p \in Reach(t)
    OBVIOUS
  <2>1. p = Root \/ p \in Top(s) => p \in Reach(t)
    BY <1>5 DEF Reach
  <2>2. ASSUME NEW d \in Top(s), p \in InBlocks, Called(s, p), In(s, d, p) PROVE p \in Reach(t)
    BY <1>2, <1>3, <1>4, <1>5, <2>2 DEF Reach
  <2> QED BY <2>1, <2>2 DEF Reach
<1>7. ASSUME NEW p, Found(s, p) PROVE Found(t, p)
  <2>1. p \in Reach(s) /\ p \in InBlocks /\ Called(t, p)
    BY <1>3, <1>7, FoundReach
  <2>2. Listed(s, Root, p) => Found(t, p)
    BY <1>2, <1>4, <2>1 DEF Found
  <2>3. ASSUME NEW d \in InBlocks, Called(s, d), Listed(s, Root, d), Listed(s, d, p)
        PROVE  Found(t, p)
    <3>1. d \in Reach(s)
      BY <2>3, FoundReach DEF Found
    <3> QED BY <1>2, <1>3, <1>4, <2>1, <2>3, <3>1 DEF Found
  <2> QED BY <1>7, <2>2, <2>3 DEF Found
<1> QED BY <1>1, <1>6, <1>7

LEMMA OverwritesTree ==
  ASSUME NEW s, NEW h, NEW l, TreeAt(s, h, l), NEW t, NEW b, Overwrites(s, t, b), Sound(t),
         \A p \in Reach(s) : p = Root \/ p.blk # b
  PROVE  TreeAt(t, h, l)
<1>1. Shape(s, Nil) /\ Shape(t, Nil) /\ Sound(s)
  BY OverwritesShape DEF TreeAt, Shape
<1>2. /\ Reach(s) \subseteq Reach(t) /\ \A p \in Reach(s) : Alike(s, t, p)
      /\ \A p : Found(s, p) => Found(t, p)
  BY <1>1, OverwritesFound
<1>3. Leak(t, l)
  BY <1>2 DEF TreeAt, Leak, Overwrites, Alike
<1>4. ASSUME NEW i \in Opens PROVE Held(t, h[i])
  <2> SUFFICES ASSUME h[i].file # Nil PROVE Held(t, h[i])
    BY DEF Held
  <2> DEFINE g == h[i].file
  <2>1. Found(s, g) /\ FilePage(s, g) /\ Found(t, g) /\ g \in InBlocks /\ g \in Where /\ g # Root
    BY <1>2, Places DEF TreeAt, Held, Found, Where
  <2>2. g \in Reach(s) /\ g \in Reach(t) /\ Alike(s, t, g) /\ g.blk # b /\ g.blk \in Blocks
    BY <1>2, <2>1, FoundReach, Places
  <2>3. FilePage(t, g)
    <3>1. Backed(t, g)
      BY <1>1, <2>1, <2>2, ReachIs DEF Shape
    <3> QED BY <2>1, <2>2, <3>1 DEF FilePage, Overwrites
  <2>4. Ready(s, g) /\ Ready(t, g) /\ Remembers(s, t)
    BY <1>1, <2>1, <2>3 DEF Shape, Ready, Overwrites
  <2>5. Type(t, g) = Type(s, g) /\ Size(t, g) = Size(s, g)
    BY <2>2 DEF Alike
  <2>6. Type(s, g) = "REG" /\ Size(s, g) = h[i].size => Maps(t, g, h[i].pages)
    BY <2>2, <2>4, MapsStay DEF TreeAt, Held
  <2> QED BY <2>1, <2>3, <2>5, <2>6 DEF Held
<1> QED BY <1>1, <1>3, <1>4 DEF TreeAt

(* What a client may store to is the data of a file.                        *)
LEMMA WritableIs ==
  ASSUME TreeAt(fs, fd, lost), NEW i \in Opens, Writable(i)
  PROVE  LET f == fd[i].file IN
         /\ f # Nil /\ Ready(fs, f) /\ Found(fs, f) /\ f \in InBlocks
         /\ Type(fs, f) = "REG" /\ Size(fs, f) = fd[i].size /\ Maps(fs, f, fd[i].pages)
         /\ \A n \in Indices : Slot(fs, f, n) # 0 =>
              \A p \in Reach(fs) : p = Root \/ p.blk # Slot(fs, f, n)
<1> DEFINE f == fd[i].file
<1>1. f # Nil /\ Get(fs, f).size = fd[i].size /\ Get(fs, f).type = "REG"
  BY DEF Writable, Agrees
<1>2. Held(fs, fd[i]) /\ Found(fs, f) /\ FilePage(fs, f) /\ f \in InBlocks /\ f \in Where
  BY <1>1 DEF TreeAt, Held, Found, Where
<1>3. Ready(fs, f) /\ Sound(fs)
  BY <1>2 DEF TreeAt, Shape, Ready
<1>4. Type(fs, f) = "REG" /\ Size(fs, f) = fd[i].size
  BY <1>1, <1>3, ReadyGet DEF Type, Size
<1>5. Maps(fs, f, fd[i].pages)
  BY <1>1, <1>2, <1>4 DEF Held
<1>6. ASSUME NEW n \in Indices, Slot(fs, f, n) # 0, NEW p \in Reach(fs), p # Root,
             p.blk = Slot(fs, f, n)
      PROVE  FALSE
  <2>1. p.blk \in Has(fs, f)
    BY <1>6 DEF Has
  <2>2. PICK d \in Where : In(fs, d, p)
    BY <1>6, Places DEF Reach, Top, Where
  <2>3. d = f
    BY <1>2, <1>3, <2>1, <2>2, OneOwner DEF In
  <2> QED BY <1>4, <2>2, <2>3 DEF In
<1>7. f # Nil
  BY <1>1
<1> QED BY <1>2, <1>3, <1>4, <1>5, <1>6, <1>7

LEMMA TreeStore ==
  ASSUME TreeInv, NEW i \in Opens, NEW n \in Indices, NEW v \in Data, Store(i, n, v)
  PROVE  TreeInv'
<1> DEFINE f == fd[i].file
           b == fd[i].pages[n]
           t == [fs EXCEPT !.cache[b] = DataBlock(v)]
<1>1. /\ halted = "no" /\ Writable(i) /\ b # 0 /\ fs' = t /\ UNCHANGED <<fd, lost, halted>>
  BY DEF Store, Serving
<1>2. TreeAt(fs, fd, lost)
  BY <1>1 DEF TreeInv
<1>3. /\ Ready(fs, f) /\ b = Slot(fs, f, n)
      /\ \A p \in Reach(fs) : p = Root \/ p.blk # b
  BY <1>1, <1>2, WritableIs DEF Maps
<1>4. Sound(fs) /\ Clean(fs) /\ f \in Where /\ b \in Blocks
  BY <1>1, <1>3, SoundIs, SlotIs, Numbers DEF Ready
<1>5. FilesInv'
  <2>1. Next
    BY DEF Next, Indices
  <2> QED BY <2>1, StepInvariant DEF TreeInv
<1>6. Sound(fs')
  BY <1>1, <1>5 DEF FilesInv
<1>7. PICK u : u = t
  OBVIOUS
<1>8. Overwrites(fs, u, b) /\ Sound(u) /\ fs' = u
  BY <1>1, <1>3, <1>4, <1>6, <1>7, StoreExact
<1> HIDE DEF b, t, f
<1>9. TreeAt(u, fd, lost)
  BY <1>2, <1>3, <1>8, OverwritesTree
<1> QED BY <1>1, <1>5, <1>8, <1>9, TreeNext

-----------------------------------------------------------------------------
(* ftruncate.  The tree while the size of the file f changes: all is as it  *)
(* should be, but f may lack blocks that its size counts.                   *)
TreeBut(s, h, l, f) ==
  /\ Shape(s, f) /\ Leak(s, l) /\ Found(s, f) /\ Ready(s, f) /\ Type(s, f) = "REG"
  /\ \A i \in Opens : h[i].file # f => Held(s, h[i])

LEMMA ButIs ==
  ASSUME NEW s, NEW h, NEW l, NEW f, TreeBut(s, h, l, f)
  PROVE  /\ f \in InBlocks /\ f \in Where /\ Called(s, f) /\ f \in Reach(s)
         /\ Sound(s) /\ Clean(s) /\ FitsAt(s, f)
         /\ \A p, n : Found(s, p) /\ p # f => p.blk \notin Has(s, f)
<1>1. f \in InBlocks /\ f \in Where /\ Called(s, f) /\ f \in Reach(s) /\ Root \in Where
  BY FoundReach, Places DEF TreeBut, Where
<1>2. Sound(s) /\ Clean(s) /\ FitsAt(s, f)
  BY <1>1 DEF TreeBut, Shape
<1>3. ASSUME NEW p, Found(s, p), p.blk \in Has(s, f) PROVE FALSE
  <2>1. PICK d \in Where : In(s, d, p)
    BY <1>1, <1>3, ListedIn DEF Found, Where
  <2>2. d = f
    BY <1>1, <1>2, <1>3, <2>1, OneOwner DEF In
  <2> QED BY <2>1, <2>2 DEF In, TreeBut
<1> QED BY <1>1, <1>2, <1>3

LEMMA ButTree ==
  ASSUME NEW s, NEW h, NEW l, NEW f, TreeBut(s, h, l, f), Whole(s, f),
         NEW e, \A i \in Opens : e[i].file = h[i].file,
         \A i \in Opens : IF h[i].file = f THEN Held(s, e[i]) ELSE e[i] = h[i],
         \A i, k \in Opens : h[i].file # Nil /\ h[i].file = h[k].file => i = k
  PROVE  TreeAt(s, e, l)
<1>1. Shape(s, Nil)
  BY DEF TreeBut, Shape, Full
<1>2. \A i \in Opens : Held(s, e[i])
  BY DEF TreeBut
<1> QED BY <1>1, <1>2 DEF TreeBut, TreeAt

(* A new size, blocks past it given back. *)
LEMMA CutTree ==
  ASSUME NEW s, NEW h, NEW l, NEW f, TreeBut(s, h, l, f), NEW n \in Nat, NEW u,
         Cuts(s, u, f, Slots \ Room(Nblocks(n))), Size(u, f) = n
  PROVE  TreeBut(u, h, l, f)
<1>1. f \in InBlocks /\ f \in Where /\ Called(s, f) /\ Sound(s) /\ Clean(s) /\ Shape(s, f)
  BY ButIs DEF TreeBut
<1>2. Ready(u, f) /\ Remembers(s, u) /\ SameName(s, u, f) /\ Pages(s, u) /\ Sound(u) /\ Clean(u)
  BY DEF Cuts, Ready
<1>3. Called(u, f) /\ Type(u, f) = "REG"
  BY <1>1, <1>2 DEF Called, SameName, TreeBut
<1>4. Shape(u, f)
  BY <1>1, <1>3, CutShape DEF Nameless, Called
<1>5. Alters(s, u, f)
  BY <1>1, CutAlters
<1>6. Leak(u, l)
  <2>1. Lost(s, f) = {}
    BY DEF Lost, Offspring, TreeBut
  <2>2. Rise(s, s, f)
    BY <1>1, RiseSelf
  <2>3. Leak(u, l \cup Lost(s, f))
    BY <1>1, <1>5, <2>2, CutLeak DEF TreeBut
  <2> QED BY <2>1, <2>3
<1>7. Found(u, f)
  BY <1>1, <1>3, <1>5, FoundSelf DEF TreeBut
<1>8. ASSUME NEW i \in Opens, h[i].file # f PROVE Held(u, h[i])
  <2>1. Held(s, h[i])
    BY <1>8 DEF TreeBut
  <2>2. h[i].file # Nil => h[i].file # f /\ h[i].file.blk \notin Has(s, f)
    BY <1>8, <2>1, ButIs DEF Held
  <2> QED BY <1>1, <1>2, <1>5, <2>1, <2>2, HeldAlters
<1> QED BY <1>2, <1>3, <1>4, <1>6, <1>7, <1>8 DEF TreeBut

(* Blocks that it gets. *)
LEMMA AddTree ==
  ASSUME NEW s, NEW h, NEW l, NEW f, TreeBut(s, h, l, f), NEW t, Adds(s, t, f, RoomOf(s, f))
  PROVE  TreeBut(t, h, l, f)
<1>1. f \in InBlocks /\ f \in Where /\ Shape(s, f)
  BY ButIs DEF TreeBut
<1>2. RoomOf(s, f) \cap Slots \subseteq Room(Nblocks(Size(s, f)))
  BY DEF RoomOf
<1>3. Shape(t, f) /\ Grow(s, t, f) /\ Fills(s, t, {f})
  BY <1>1, <1>2, AddsShape
<1>4. Found(t, f) /\ Ready(t, f) /\ Type(t, f) = "REG"
  BY <1>3 DEF Grow, Adds, SameName, TreeBut
<1>5. Fills(s, t, Reach(t))
  BY <1>3, <1>4, FoundReach DEF Fills
<1>6. Leak(t, l)
  BY <1>3, <1>5, GrowLeak DEF TreeBut
<1>7. ASSUME NEW i \in Opens, h[i].file # f PROVE Held(t, h[i])
  BY <1>1, <1>3, <1>7, HeldGrow DEF TreeBut
<1> QED BY <1>3, <1>4, <1>6, <1>7 DEF TreeBut

(* What the file has when its size is n: the blocks below old that it had,  *)
(* and those that it got. *)
Regrown(s, t, u, f, old, n) ==
  /\ Ready(s, f) /\ Ready(t, f) /\ Ready(u, f) /\ Whole(s, f) /\ Nblocks(Size(s, f)) = old
  /\ Nblocks(Size(t, f)) = n /\ Cuts(s, t, f, Slots \ Room(n)) /\ Adds(t, u, f, RoomOf(t, f))
  /\ old \in Nat /\ n \in Nat

LEMMA SlotsKept ==
  ASSUME NEW s, NEW t, NEW u, NEW f, NEW old, NEW n, Regrown(s, t, u, f, old, n),
         NEW k \in Indices, k < old, k < n
  PROVE  /\ Slot(u, f, k) = Slot(s, f, k) /\ Slot(t, f, k) = Slot(s, f, k) /\ Slot(s, f, k) # 0
         /\ Reached(s, f, k) => Reached(u, f, k)
<1>1. k \in Slots /\ NINDIRECT \in Slots /\ Slot(s, f, k) # 0
  BY Numbers DEF Regrown, Whole
<1>2. k \in Room(n) /\ (~(k < NDIRECT) => NINDIRECT \in Room(n))
  <2>1. ~(k < NDIRECT) => n > NDIRECT
    BY Numbers DEF Indices, Regrown
  <2> QED BY <2>1 DEF Room
<1>3. Slot(t, f, k) = Slot(s, f, k) /\ Slot(u, f, k) = Slot(t, f, k)
  BY <1>1, <1>2 DEF Regrown, Cuts, Adds
<1>4. ASSUME Reached(s, f, k) PROVE Reached(u, f, k)
  <2>1. Reached(t, f, k)
    <3>1. CASE k < NDIRECT
      BY <3>1 DEF Reached
    <3>2. CASE ~(k < NDIRECT)
      <4>1. Slot(t, f, NINDIRECT) = Slot(s, f, NINDIRECT)
        BY <1>1, <1>2, <3>2 DEF Regrown, Cuts
      <4> QED BY <1>4, <4>1, ReachedStays DEF Regrown, Cuts
    <3> QED BY <3>1, <3>2
  <2> QED BY <2>1, AddsReached DEF Regrown
<1> QED BY <1>1, <1>3, <1>4

(* When all blocks could be had, the client has mapped what the file has.   *)
LEMMA Remapped ==
  ASSUME NEW s, NEW t, NEW u, NEW f, NEW old, NEW n, Regrown(s, t, u, f, old, n), FitsAt(u, f),
         NEW pages, Maps(s, f, pages), NEW r,
         \/ old < n /\ n - 1 \in Indices /\ MapsFrom(u, f, pages, r, old, n)
         \/ n <= old /\ r = pages,
         NEW q, \A k \in Indices : q[k] = IF k >= n THEN 0 ELSE r[k]
  PROVE  Whole(u, f) /\ Maps(u, f, q)
<1>1. Nblocks(Size(u, f)) = n /\ old \in Nat /\ n \in Nat
  BY DEF Regrown, Adds
<1>2. n <= NINDIRECT
  <2>1. old <= NINDIRECT
    BY DEF Regrown, Whole
  <2> QED BY <1>1, <2>1, Numbers DEF Indices
<1>3. ASSUME NEW k \in Indices, k < n
      PROVE  Slot(u, f, k) # 0 /\ Reached(u, f, k) /\ r[k] = Slot(u, f, k)
  <2>1. k \in Nat
    BY Numbers DEF Indices
  <2>2. CASE k < old
    <3>1. /\ Slot(u, f, k) = Slot(s, f, k) /\ Slot(s, f, k) # 0
          /\ Reached(s, f, k) => Reached(u, f, k)
      BY <1>3, <2>2, SlotsKept
    <3>2. r[k] = pages[k]
      BY <1>1, <2>1, <2>2 DEF MapsFrom
    <3> QED BY <3>1, <3>2 DEF Maps
  <2>3. CASE ~(k < old)
    BY <1>1, <1>3, <2>1, <2>3 DEF MapsFrom
  <2> QED BY <2>2, <2>3
<1>4. Whole(u, f)
  BY <1>1, <1>2, <1>3 DEF Whole
<1>5. ASSUME NEW k \in Indices
      PROVE  q[k] = Slot(u, f, k) /\ (Slot(u, f, k) # 0 => Reached(u, f, k))
  <2>1. k \in Nat /\ k # NINDIRECT /\ k \in Slots
    BY Numbers DEF Indices
  <2>2. CASE k < n
    BY <1>1, <1>3, <2>1, <2>2
  <2>3. CASE ~(k < n)
    <3>1. Slot(u, f, k) = 0
      BY <1>1, <2>1, <2>3 DEF FitsAt, Room
    <3> QED BY <1>1, <2>1, <2>3, <3>1
  <2> QED BY <2>2, <2>3
<1> QED BY <1>4, <1>5 DEF Maps

(* ftruncate sets the size, maps the new pages, and sets the old size again *)
(* when there is no block for one.                                          *)
LEMMA ResizeExact ==
  ASSUME TreeAt(fs, fd, lost), fd = [i \in Opens |-> fd[i]],
         NEW i \in Opens, Writable(i), DOMAIN fd[i] = {"file", "size", "pages"}, fd[i].pages \in Ptrs, fd[i].size \in Nat, NEW n \in Nat,
         NEW c, c = resize(fd[i].file, fd[i].size, n, fd[i].pages), c.err \notin Stops,
         NEW q, \A k \in Indices : q[k] = IF k >= Nblocks(n) THEN 0 ELSE c.r[k],
         NEW e, e = [fd EXCEPT ![i].size = n, ![i].pages = q]
  PROVE  TreeAt(c.fs, e, lost)
<1> DEFINE f == fd[i].file
           size == fd[i].size
           pages == fd[i].pages
           old == Nblocks(size)
           new == Nblocks(n)
           t == file_set_size(fs, f, n)
           m == fsipc_map(t.fs, f, pages, old, new)
           b == file_set_size(m.fs, f, size)
<1>1. /\ f # Nil /\ Ready(fs, f) /\ Found(fs, f) /\ f \in InBlocks /\ f \in Where
      /\ Type(fs, f) = "REG" /\ Size(fs, f) = size /\ Maps(fs, f, pages)
  BY WritableIs DEF Where
<1>2. c = IF t.err # "ok" THEN Returns(t, pages)
          ELSE IF m.err \in Stops \cup {"ok"} THEN m ELSE Returns(b, m.r)
  BY DEF resize
<1>3. old \in Nat /\ new \in Nat /\ size \in Nat /\ pages \in Ptrs
  BY NblocksNat
<1>4. /\ \A k \in Opens : e[k].file = fd[k].file /\ (k # i => e[k] = fd[k])
      /\ e[i].file = f /\ e[i].size = n /\ e[i].pages = q
  <2>1. ASSUME NEW k \in Opens, k # i PROVE e[k] = fd[k]
    BY <2>1
  <2>2. e[i] = [[fd[i] EXCEPT !.size = n] EXCEPT !.pages = q]
    OBVIOUS
  <2>3. e[i].file = fd[i].file /\ e[i].size = n /\ e[i].pages = q
    BY <2>2
  <2> QED BY <2>1, <2>3
<1>5. TreeBut(fs, fd, lost, f) /\ Whole(fs, f)
  <2>1. Nil \notin InBlocks
    BY Places DEF Where
  <2>2. Shape(fs, Nil)
    BY DEF TreeAt
  <2>3. Shape(fs, f) /\ Full(fs, f)
    BY <1>1, <2>1, <2>2 DEF Shape
  <2> QED BY <1>1, <2>3 DEF TreeAt, TreeBut, Full
<1> HIDE DEF f, size, pages
<1>6. /\ t.err = "ok" => Cuts(fs, t.fs, f, Slots \ Room(Nblocks(n))) /\ Size(t.fs, f) = n
      /\ t.err # "ok" => t.err \in Stops
  BY <1>1, <1>5, ButIs, SetSizeExact
<1> HIDE DEF t
<1>7. t.err = "ok"
  <2> SUFFICES ASSUME t.err # "ok" PROVE FALSE
    OBVIOUS
  <2>1. c = Returns(t, pages)
    BY <1>2
  <2>2. c.err = t.err
    BY <2>1 DEF Returns
  <2> QED BY <1>6, <2>2
<1>8. /\ TreeBut(t.fs, fd, lost, f) /\ Size(t.fs, f) = n
      /\ Cuts(fs, t.fs, f, Slots \ Room(new))
  BY <1>5, <1>6, <1>7, CutTree
<1>9. Ready(t.fs, f) /\ Sound(t.fs)
  BY <1>8, ButIs DEF TreeBut
<1>10. Mapped(t.fs, m, f, pages, old, new, new)
  BY <1>3, <1>8, <1>9, MapLoop
<1>11. new <= old => m = Ok(t.fs, pages)
  BY <1>1, <1>3, <1>9, FsipcMap
<1> HIDE DEF m
<1>12. m.err \notin Stops
  BY <1>2, <1>7
<1>13. Adds(t.fs, m.fs, f, RoomOf(t.fs, f))
  BY <1>10, <1>12 DEF Mapped
<1>14. TreeBut(m.fs, fd, lost, f)
  BY <1>8, <1>13, AddTree
<1>15. Ready(m.fs, f) /\ FitsAt(m.fs, f)
  BY <1>14, ButIs DEF TreeBut
<1>16. Regrown(fs, t.fs, m.fs, f, old, new)
  BY <1>1, <1>3, <1>5, <1>8, <1>9, <1>13, <1>15 DEF Regrown, old, new
<1>17. \A k, j \in Opens : fd[k].file # Nil /\ fd[k].file = fd[j].file => k = j
  BY DEF TreeAt
<1>18. \A k \in Opens : fd[k].file = f => k = i
  BY <1>1, <1>17 DEF f
<1> HIDE DEF old, new
<1>19. CASE m.err = "ok"
  <2>1. c = m
    BY <1>2, <1>7, <1>19
  <2>2. \/ old < new /\ new - 1 \in Indices /\ MapsFrom(m.fs, f, pages, m.r, old, new)
        \/ new <= old /\ m.r = pages
    <3>1. new <= old => m.r = pages
      BY <1>11, Results
    <3>2. ~(new <= old) => old < new
      BY <1>3
    <3>3. MapsFrom(m.fs, f, pages, m.r, old, new) /\ (old < new => new - 1 \in Indices)
      BY <1>10, <1>12, <1>19 DEF Mapped
    <3> QED BY <3>1, <3>2, <3>3
  <2>3. \A k \in Indices : q[k] = IF k >= new THEN 0 ELSE m.r[k]
    BY <2>1 DEF new
  <2>4. Whole(m.fs, f) /\ Maps(m.fs, f, q)
    BY <1>1, <1>15, <1>16, <2>2, <2>3, Remapped
  <2>5. Held(m.fs, e[i])
    BY <1>4, <1>14, <1>15, <2>4 DEF Held, TreeBut, Ready, FilePage
  <2>6. \A k \in Opens : IF fd[k].file = f THEN Held(m.fs, e[k]) ELSE e[k] = fd[k]
    BY <1>4, <1>18, <2>5
  <2> QED BY <1>4, <1>14, <1>17, <2>1, <2>4, <2>6, ButTree
<1>20. CASE m.err # "ok"
  <2>1. c = Returns(b, m.r)
    BY <1>2, <1>7, <1>12, <1>20
  <2>2. /\ b.err = "ok" => Cuts(m.fs, b.fs, f, Slots \ Room(Nblocks(size))) /\ Size(b.fs, f) = size
        /\ b.err # "ok" => b.err \in Stops
    BY <1>3, <1>15, SetSizeExact
  <2> HIDE DEF b
  <2>3. c.fs = b.fs /\ c.err = b.err
    BY <2>1 DEF Returns
  <2>4. b.err = "ok"
    BY <2>2, <2>3
  <2>5. /\ TreeBut(b.fs, fd, lost, f) /\ Size(b.fs, f) = size
        /\ Cuts(m.fs, b.fs, f, Slots \ Room(old))
    BY <1>3, <1>14, <2>2, <2>4, CutTree DEF old
  <2>6. old < new
    <3>1. Ok(t.fs, pages).err = "ok"
      BY Results
    <3> QED BY <1>3, <1>11, <1>20, <3>1
  <2>7. Whole(b.fs, f)
    <3>1. old <= NINDIRECT
      BY <1>16 DEF Regrown, Whole
    <3>2. ASSUME NEW k \in Indices, k < old PROVE Slot(b.fs, f, k) # 0
      <4>1. k < new /\ k \in Slots
        BY <1>3, <2>6, <3>2, Numbers DEF Indices
      <4>2. Slot(m.fs, f, k) # 0
        BY <1>16, <3>2, <4>1, SlotsKept
      <4>3. k \in Room(old)
        BY <3>2 DEF Room
      <4> QED BY <2>5, <4>1, <4>2, <4>3 DEF Cuts
    <3> QED BY <2>5, <3>1, <3>2 DEF Whole, old
  <2>8. size # n
    BY <1>3, <2>6 DEF old, new
  <2>9. Held(b.fs, e[i])
    BY <1>4, <2>5, <2>8 DEF Held, TreeBut, Ready
  <2>10. \A k \in Opens : IF fd[k].file = f THEN Held(b.fs, e[k]) ELSE e[k] = fd[k]
    BY <1>4, <1>18, <2>9
  <2> QED BY <1>4, <1>17, <2>3, <2>5, <2>7, <2>10, ButTree
<1> QED BY <1>19, <1>20

LEMMA TreeTruncate ==
  ASSUME TreeInv, NEW i \in Opens, NEW n \in Sizes, ftruncate(i, n)
  PROVE  TreeInv'
<1> DEFINE c == resize(fd[i].file, fd[i].size, n, fd[i].pages)
           q == [k \in DOMAIN fd[i].pages |-> IF k >= Nblocks(n) THEN 0 ELSE c.r[k]]
<1>1. /\ halted = "no" /\ Writable(i) /\ Done(c) /\ lost' = lost
      /\ fd' = [fd EXCEPT ![i].size = n, ![i].pages = q]
  BY DEF ftruncate, Serving
<1>2. n \in Nat
  BY SizesAssumption
<1>3. TreeAt(fs, fd, lost)
  BY <1>1 DEF TreeInv
<1>4. fd = [k \in Opens |-> fd[k]] /\ DOMAIN fd[i] = {"file", "size", "pages"}
      /\ fd[i].pages \in Ptrs /\ fd[i].size \in Nat
  BY DEF TreeInv, FilesInv, Holders
<1>5. \A k \in Indices : q[k] = IF k >= Nblocks(n) THEN 0 ELSE c.r[k]
  BY <1>4 DEF Ptrs
<1>6. Next
  BY DEF Next
<1>7. PICK x : x = c
  OBVIOUS
<1>8. PICK y : y = q
  OBVIOUS
<1>9. \A k \in Indices : y[k] = IF k >= Nblocks(n) THEN 0 ELSE x.r[k]
  BY <1>5, <1>7, <1>8
<1>10. PICK e : e = fd'
  OBVIOUS
<1>11. e = [fd EXCEPT ![i].size = n, ![i].pages = y]
  BY <1>1, <1>8, <1>10
<1>12. x = resize(fd[i].file, fd[i].size, n, fd[i].pages)
  BY <1>7
<1> HIDE DEF c, q
<1>13. x.err \notin Stops => TreeAt(x.fs, e, lost)
  BY <1>1, <1>2, <1>3, <1>4, <1>9, <1>11, <1>12, ResizeExact
<1> QED BY <1>1, <1>6, <1>7, <1>10, <1>13, TreeDone

-----------------------------------------------------------------------------
(* The tree that fsformat made: a directory in Root, and a file in it.      *)
LEMMA FirstSizes ==
  /\ Nblocks(BLOCK_SIZE) = 1 /\ Nblocks(1) = 1 /\ BLOCK_SIZE % BLOCK_SIZE = 0
  /\ 0 \in Room(1) /\ 0 \in Indices /\ 0 \in Slots /\ NINDIRECT # 0 /\ 1 <= NINDIRECT
<1> DEFINE k == BLOCK_SIZE
<1>1. k \in Nat /\ k # 0 /\ k \in Nat \ {0} /\ 1 \in Nat
  BY Numbers
<1>2. 0 \in Room(1) /\ 0 \in Indices /\ 0 \in Slots /\ NINDIRECT # 0 /\ 1 <= NINDIRECT
  BY Numbers DEF Room, Indices, Slots
<1> HIDE DEF k
<1>3. k = k * 1 + 0 /\ 0 \in 0..(k - 1)
  BY <1>1
<1>4. k \div k = 1 /\ k % k = 0
  BY <1>1, <1>3, Quotient
<1>5. Nblocks(BLOCK_SIZE) = 1 /\ BLOCK_SIZE % BLOCK_SIZE = 0
  BY <1>1, <1>4, NblocksEven DEF k
<1>6. Nblocks(1) = 1
  <2>1. 1 + k - 1 = k /\ 1 * k = k
    BY <1>1
  <2>2. ROUND(1) = k
    BY <1>4, <2>1 DEF ROUND, k
  <2> QED BY <1>4, <2>2 DEF Nblocks, k
<1> QED BY <1>2, <1>5, <1>6

LEMMA FirstNames ==
  /\ FirstRoot.type = "DIR" /\ FirstRoot.size = BLOCK_SIZE
  /\ FirstDir.name # NoName /\ FirstDir.type = "DIR" /\ FirstDir.size = BLOCK_SIZE
  /\ FirstFile.name # NoName /\ FirstFile.type = "REG" /\ FirstFile.size = 1
  /\ NoFile.name = NoName /\ NoFile.type = "REG" /\ NoFile.size = 0
<1>1. FirstPath \in Paths /\ Len(FirstPath) = 2
  BY SizesAssumption DEF FirstPath
<1>2. FirstPath[1] \in Names /\ FirstPath[2] \in Names
  BY <1>1, PathIs
<1>3. FirstPath[1] # NoName /\ FirstPath[2] # NoName
  BY <1>2, SizesAssumption
<1> QED BY <1>3 DEF FirstRoot, FirstDir, FirstFile, NoFile

LEMMA FirstPlaces ==
  ASSUME Init
  PROVE  /\ FileAt(fs, Root) = FirstRoot
         /\ Pos(3, 0) \in InBlocks /\ FileAt(fs, Pos(3, 0)) = FirstDir /\ Pos(3, 0).blk = 3
         /\ Pos(4, 0) \in InBlocks /\ FileAt(fs, Pos(4, 0)) = FirstFile /\ Pos(4, 0).blk = 4
         /\ \A p \in InBlocks : p # Pos(3, 0) /\ p # Pos(4, 0) => FileAt(fs, p) = NoFile
         /\ Root # Pos(3, 0) /\ Root # Pos(4, 0) /\ Pos(3, 0) # Pos(4, 0)
<1>1. Typed(fs) /\ Memory(fs) = Formatted /\ fs.root = FirstRoot
  BY InitTyped
<1>2. /\ Pos(3, 0) \in InBlocks /\ Pos(4, 0) \in InBlocks
      /\ Pos(3, 0).blk = 3 /\ Pos(4, 0).blk = 4 /\ Pos(3, 0).idx = 0 /\ Pos(4, 0).idx = 0
  BY Places, FirstFiles, Numbers
<1>3. \A p \in InBlocks : /\ FileAt(fs, p) = Entries(Formatted[p.blk])[p.idx]
                          /\ p.blk \in Blocks /\ p.idx \in Js
  BY <1>1, FileTypes, Places DEF Where
<1>4. FileAt(fs, Root) = FirstRoot
  BY <1>1 DEF FileAt, At
<1>5. FileAt(fs, Pos(3, 0)) = FirstDir /\ FileAt(fs, Pos(4, 0)) = FirstFile
  BY <1>2, <1>3, FirstPages
<1>6. ASSUME NEW p \in InBlocks, p # Pos(3, 0), p # Pos(4, 0) PROVE FileAt(fs, p) = NoFile
  <2>1. ~(p.blk = 3 /\ p.idx = 0) /\ ~(p.blk = 4 /\ p.idx = 0)
    BY <1>2, <1>6, Places
  <2> QED BY <1>3, <2>1, FirstPages
<1>7. Root # Pos(3, 0) /\ Root # Pos(4, 0) /\ Pos(3, 0) # Pos(4, 0)
  BY <1>2, Places
<1> QED BY <1>2, <1>4, <1>5, <1>6, <1>7

LEMMA FirstShape ==
  ASSUME Init
  PROVE  Shape(fs, Nil)
<1>1. Sound(fs) /\ Typed(fs)
  BY InitTyped, InitSound DEF Sound
<1>2. /\ fs.dirty = {} /\ fs.disk = Formatted
  BY DEF Init
<1>3. Clean(fs)
  <2>1. \A p \in Where : Slot(fs, p, NINDIRECT) = 0
    BY FirstSizes, InitSlots, Numbers
  <2>2. ASSUME NEW b \in Blocks PROVE Formatted[b] # Unmapped
    <3>1. Formatted[b].kind \in {"dir", "data", "zero"}
      BY DEF Formatted, OnlyFile, DirBlock, DataBlock, Zero
    <3> QED BY <3>1 DEF Unmapped
  <2> QED BY <1>2, <2>1, <2>2 DEF Clean
<1>4. RootIs(fs)
  BY FirstPlaces, FirstNames, FirstSizes DEF RootIs, Type, Size
<1>5. \A p \in Where, i \in Slots : i # 0 => Slot(fs, p, i) = 0
  BY InitSlots
<1>6. \A p \in {Root, Pos(3, 0), Pos(4, 0)} : p \in Where /\ Nblocks(Size(fs, p)) = 1 /\ Slot(fs, p, 0) # 0
  BY FirstPlaces, FirstNames, FirstSizes, InitSlots DEF Size, Where
<1>7. \A p \in InBlocks : p # Pos(3, 0) /\ p # Pos(4, 0) => Size(fs, p) = 0 /\ Slot(fs, p, 0) = 0
  BY FirstPlaces, FirstNames, FirstSizes, InitSlots, Places DEF Size, Where
<1>8. ASSUME NEW p \in Where PROVE FitsAt(fs, p)
  <2>1. p \in {Root, Pos(3, 0), Pos(4, 0)} => FitsAt(fs, p)
    BY <1>5, <1>6, FirstSizes DEF FitsAt
  <2>2. p \notin {Root, Pos(3, 0), Pos(4, 0)} => p \in InBlocks
    BY DEF Where
  <2>3. p \notin {Root, Pos(3, 0), Pos(4, 0)} => FitsAt(fs, p)
    BY <1>5, <1>7, <2>2 DEF FitsAt
  <2> QED BY <2>1, <2>3
<1>9. ASSUME NEW p \in InBlocks PROVE Nameless(fs, p) /\ Full(fs, p)
  <2>1. CASE p \in {Pos(3, 0), Pos(4, 0)}
    <3>1. Name(fs, p) # NoName
      BY <2>1, FirstPlaces, FirstNames DEF Name
    <3>2. Whole(fs, p)
      <4>1. \A i \in Indices : i < 1 => i = 0
        BY DEF Indices
      <4> QED BY <1>6, <2>1, <4>1, FirstSizes DEF Whole
    <3> QED BY <3>1, <3>2 DEF Nameless, Full
  <2>2. CASE p \notin {Pos(3, 0), Pos(4, 0)}
    BY <1>7, <2>2, EmptyFits
  <2> QED BY <2>1, <2>2
<1> QED BY <1>1, <1>3, <1>4, <1>8, <1>9 DEF Shape

LEMMA FirstTree == Init => TreeInv
<1> SUFFICES ASSUME Init PROVE TreeAt(fs, fd, lost)
  BY InitInvariant DEF TreeInv
<1>1. Closed.file = Nil /\ \A i \in Opens : fd[i] = Closed
  BY DEF Init, Closed
<1>2. Leak(fs, lost)
  <2>1. \A b \in Blocks \ fs.free : b \in {3, 4, 5}
    BY InitTyped
  <2>2. /\ Slot(fs, Root, 0) = 3 /\ Slot(fs, Pos(3, 0), 0) = 4 /\ Slot(fs, Pos(4, 0), 0) = 5
    BY FirstPlaces, FirstSizes, InitSlots DEF Where
  <2>3. 3 \in Has(fs, Root) /\ 4 \in Has(fs, Pos(3, 0))
    BY <2>2, FirstSizes DEF Has
  <2>4. Pos(3, 0) \in Top(fs)
    BY <2>3, FirstPlaces, FirstNames DEF Top, Called, In, Name, Type
  <2>5. Pos(4, 0) \in Reach(fs)
    BY <2>3, <2>4, FirstPlaces, FirstNames DEF Reach, Called, In, Name, Type
  <2>6. Root \in Reach(fs) /\ Pos(3, 0) \in Reach(fs)
    BY <2>4 DEF Reach
  <2> QED BY <2>1, <2>2, <2>5, <2>6, FirstSizes DEF Leak
<1>3. \A i \in Opens : Held(fs, fd[i])
  BY <1>1 DEF Held
<1>4. \A i, k \in Opens : fd[i].file # Nil /\ fd[i].file = fd[k].file => i = k
  BY <1>1
<1> QED BY <1>2, <1>3, <1>4, FirstShape DEF TreeAt

LEMMA TreeStep ==
  ASSUME Exclusive, TreeInv, [Next]_vars
  PROVE  TreeInv'
<1>1. CASE UNCHANGED vars
  <2>1. fs' = fs /\ fd' = fd /\ lost' = lost /\ halted' = halted
    BY <1>1 DEF vars
  <2>2. FilesInv'
    BY StepInvariant DEF TreeInv
  <2> QED BY <2>1, <2>2, TreeNext DEF TreeInv
<1>2. CASE Next
  BY <1>2, TreeOpen, TreeStore, TreeTruncate, TreeClose, TreeRemove, TreeSync, TreeMkdir
  DEF Next, Indices
<1> QED BY <1>1, <1>2

(* What the server keeps of the tree, as long as no request names a File    *)
(* that is open: sizes, names and blocks agree, every open file is found    *)
(* from Root, and no block is out of reach (fs.c).                          *)
THEOREM TreeInvariant ==
  ASSUME Exclusive
  PROVE  Spec => []TreeInv
<1>1. TreeInv /\ [Next]_vars => TreeInv'
  BY TreeStep
<1> QED BY <1>1, FirstTree, PTL DEF Spec

(* The Files of the tree are those that can be found from Root.             *)
LEMMA ReachFiles ==
  ASSUME NEW s, Typed(s)
  PROVE  AllFiles(Memory(s), s.root) = Reach(s)
<1>1. FileAt(s, Root) = s.root /\ Root \in Where /\ InBlocks \subseteq Where
  BY DEF FileAt, At, Where
<1>2. Members(Memory(s), s.root) = Top(s)
  BY <1>1, MembersAre DEF Top
<1>3. ASSUME NEW d \in Top(s)
      PROVE  Members(Memory(s), At(Memory(s), s.root, d)) = {p \in InBlocks : Called(s, p) /\ In(s, d, p)}
  BY <1>1, MembersAre DEF FileAt, Top
<1>4. UNION {Members(Memory(s), At(Memory(s), s.root, d)) : d \in Top(s)} =
        {p \in InBlocks : Called(s, p) /\ \E d \in Top(s) : In(s, d, p)}
  BY <1>3
<1> QED BY <1>2, <1>4 DEF AllFiles, Reach

(* Every block that is not free is used by a File of the tree, or was used  *)
(* by a member of a directory that has been removed: what a request takes   *)
(* is pointed to when it ends, and what a File loses with its size or its   *)
(* name is given back (fs.c's file_truncate and file_remove), also when a   *)
(* request fails on the way and when ftruncate takes its growth back.       *)
THEOREM NoBlockLeaks ==
  ASSUME Exclusive
  PROVE  Spec => []NothingLeaks
<1>1. TreeInv => NothingLeaks
  <2> SUFFICES ASSUME TreeInv, halted = "no", NEW b \in Blocks \ fs.free, b \notin lost
               PROVE  b \in Used(Memory(fs), fs.root)
    BY DEF NothingLeaks
  <2>1. Typed(fs) /\ Leak(fs, lost)
    BY DEF TreeInv, FilesInv, TreeAt
  <2>2. PICK p \in Reach(fs), i \in Slots : Slot(fs, p, i) = b
    BY <2>1 DEF Leak
  <2>3. p \in AllFiles(Memory(fs), fs.root) /\ b # 0
    BY <2>1, <2>2, ReachFiles, Numbers
  <2>4. <<<<p, i>>, b>> \in Uses(Memory(fs), fs.root)
    BY <2>2, <2>3 DEF Uses, Slots, Slot, FileAt
  <2>5. <<<<p, i>>, b>>[2] = b
    OBVIOUS
  <2> QED BY <2>4, <2>5 DEF Used
<1> QED BY <1>1, TreeInvariant, PTL

(* The page that a client has mapped for a block of its file is the page of *)
(* the block that the file has there, as long as no request names a File    *)
(* that is open and the client has not lost its size to an ftruncate that   *)
(* failed: what it stores goes to its own file, whatever else is opened,    *)
(* resized, made and removed meanwhile, and none of the file's blocks is    *)
(* left unmapped (file.c's open and ftruncate, serv.c's serve_map).         *)
THEOREM PagesMapped ==
  ASSUME Exclusive
  PROVE  Spec => []PagesAreTheFiles
<1>1. TreeInv => PagesAreTheFiles
  <2> SUFFICES ASSUME TreeInv, halted = "no", NEW i \in Opens, NEW n \in Indices, Writable(i)
               PROVE  PtrOf(fs.cache, Get(fs, fd[i].file), n) = fd[i].pages[n]
    BY DEF PagesAreTheFiles, Indices
  <2> DEFINE f == fd[i].file
  <2>1. Ready(fs, f) /\ Maps(fs, f, fd[i].pages) /\ f \in Where
    BY WritableIs DEF TreeInv, Ready
  <2>2. CASE Slot(fs, f, n) # 0
    BY <2>1, <2>2, PtrIs DEF Maps
  <2>3. CASE Slot(fs, f, n) = 0
    <3>1. PtrOf(fs.cache, Get(fs, f), n) \in {0, Slot(fs, f, n)}
      BY <2>1, ReadyGet, GetPtr
    <3> QED BY <2>1, <2>3, <3>1 DEF Maps
  <2> QED BY <2>2, <2>3
<1> QED BY <1>1, TreeInvariant, PTL
=============================================================================
