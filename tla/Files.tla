------------------------------- MODULE Files -------------------------------
(***************************************************************************)
(* fs/fs.c: the file system of the server.  One server env handles one     *)
(* request at a time, so a request is one action; what is hard is what     *)
(* requests leave behind: a free-block bitmap that is written to the disk  *)
(* on allocation only, a block cache that is never dropped, and dirty bits *)
(* that are set by serve_dirty and file_close alone.                       *)
(*                                                                         *)
(* The C functions are operators on the record fs.  They return a record   *)
(* with the new fs, a value r and an error err, "ok" for success.          *)
(***************************************************************************)
EXTENDS Integers, Sequences, FiniteSets, FiniteSetsExt

CONSTANTS
  NBlocks,     \* super->s_nblocks
  NDIRECT,     \* direct pointers of a File
  NINDIRECT,   \* blocks of a file at most
  FILE2BLK,    \* File structures in a block
  BLOCK_SIZE,  \* bytes in a block
  Names,       \* the file names programs use
  Paths,       \* the paths programs use: sequences of one or two names
  Sizes,       \* the sizes files are given
  Data,        \* what programs store in a block
  NoName,      \* f_name[0] = '\0'
  NOpen,       \* entries of opentab that are in use at most
  Exclusive,   \* TRUE: a file that is open is not opened again or removed
  MaxCalls     \* bound: requests that name a path

ASSUME SizesAssumption ==
  /\ {NBlocks, NDIRECT, NINDIRECT, FILE2BLK, BLOCK_SIZE} \subseteq Nat \ {0}
  /\ NDIRECT < NINDIRECT /\ NBlocks > 5
  /\ Sizes \subseteq 0..(NINDIRECT * BLOCK_SIZE)
  /\ NoName \notin Names
  /\ Paths \subseteq {<<n>> : n \in Names} \cup {<<n, m>> : n, m \in Names}
  /\ \E p \in Paths : Len(p) = 2

VARIABLES
  fs,      \* the server's memory and the disk
  fd,      \* the open files: opentab[i].o_file, Nil when the entry is free, the
           \* f_size in the client's Filefd page and the cache pages it has mapped
  lost,    \* history: used blocks that no File refers to any more
  freed,   \* history: a block has been freed since the disk was formatted
  halted,  \* "no", or why the server cannot go on
  calls    \* requests by path so far

vars == <<fs, fd, lost, freed, halted, calls>>

Blocks == 3..(NBlocks - 1)   \* 0 boot, 1 super, 2 bitmap
Opens == 1..NOpen

Pos(b, j) == [blk |-> b, idx |-> j]   \* a struct File *
Nil == Pos(0, 0)
Root == Pos(1, 0)                     \* &super->s_root
Positions == {Nil, Root} \cup {Pos(b, j) : b \in Blocks, j \in 0..(FILE2BLK - 1)}

File == [name : Names \cup {NoName}, type : {"REG", "DIR"}, size : Nat,
         direct : [0..(NDIRECT - 1) -> Blocks \cup {0}], indirect : Blocks \cup {0},
         dir : Positions]

NoFile == [name |-> NoName, type |-> "REG", size |-> 0,
           direct |-> [i \in 0..(NDIRECT - 1) |-> 0], indirect |-> 0, dir |-> Nil]

(* What a page holds: zeros, a program's data, an indirect block's          *)
(* pointers or a directory's File structures.                               *)
Zero == [kind |-> "zero"]
Unmapped == [kind |-> "unmapped"]
DataBlock(v) == [kind |-> "data", v |-> v]
PtrBlock(p) == IF \A i \in DOMAIN p : p[i] = 0 THEN Zero ELSE [kind |-> "ptrs", p |-> p]
DirBlock(e) == [kind |-> "dir", e |-> e]

Pointers(c) == IF c.kind = "ptrs" THEN c.p ELSE [i \in 0..(NINDIRECT - 1) |-> 0]
Entries(c) == IF c.kind = "dir" THEN c.e ELSE [j \in 0..(FILE2BLK - 1) |-> NoFile]

ROUND(n) == ((n + BLOCK_SIZE - 1) \div BLOCK_SIZE) * BLOCK_SIZE
Nblocks(n) == ROUND(n) \div BLOCK_SIZE

Ok(s, x) == [fs |-> s, r |-> x, err |-> "ok"]
Fail(s, e) == [fs |-> s, r |-> Nil, err |-> e]
Returns(t, x) == [fs |-> t.fs, r |-> x, err |-> t.err]
Stops == {"panic", "garbled"}

(* The statements that follow a call: none of them after an error.          *)
Then(t, Rest(_)) == IF t.err # "ok" THEN t ELSE Rest(t)

-----------------------------------------------------------------------------
(* Blocks.                                                                  *)

read_block(s, b) ==
  IF b >= NBlocks \/ b \in s.free THEN Fail(s, "panic")
  ELSE IF s.cache[b] = Unmapped THEN Ok([s EXCEPT !.cache[b] = s.disk[b]], b)
  ELSE Ok(s, b)

map_block(s, b) == IF s.cache[b] = Unmapped THEN [s EXCEPT !.cache[b] = Zero] ELSE s

free_block(s, b) == IF b = 0 \/ b >= NBlocks THEN s ELSE [s EXCEPT !.free = @ \cup {b}]

alloc_block_num_late(s) ==   \* faulty: leaves the bitmap to the next sync
  IF s.free = {} THEN Fail(s, "E_NO_DISK")
  ELSE Ok([s EXCEPT !.free = @ \ {Min(s.free)}], Min(s.free))

(* The bitmap block goes to the disk with every allocation. *)
alloc_block_num(s) ==
  IF s.free = {} THEN Fail(s, "E_NO_DISK")
  ELSE LET b == Min(s.free) IN
       Ok([s EXCEPT !.free = @ \ {b}, !.disk_free = s.free \ {b}], b)

alloc_block(s) == Then(alloc_block_num(s), LAMBDA a : Ok(map_block(a.fs, a.r), a.r))

dirty_block(s, b) == IF s.cache[b] = Unmapped THEN s ELSE [s EXCEPT !.dirty = @ \cup {b}]

write_blocks(s, B) == [s EXCEPT !.disk = [b \in Blocks |-> IF b \in B THEN s.cache[b] ELSE @[b]]]

fs_sync(s) == write_blocks(s, s.dirty)

-----------------------------------------------------------------------------
(* Files.  f is the position of a File in the super block or in a cached    *)
(* directory block.                                                         *)

Get(s, f) == IF f = Root THEN s.root ELSE Entries(s.cache[f.blk])[f.idx]

Put(s, f, x) ==
  IF f = Root THEN [s EXCEPT !.root = x]
  ELSE [s EXCEPT !.cache[f.blk] = DirBlock([Entries(s.cache[f.blk]) EXCEPT ![f.idx] = x])]

(* The pointer that file_block_walk finds and the assignment through it. *)
PtrOf(store, x, i) ==
  IF i < NDIRECT THEN x.direct[i]
  ELSE IF x.indirect = 0 THEN 0 ELSE Pointers(store[x.indirect])[i]

SetPtr(s, f, i, b) ==
  IF i < NDIRECT THEN Put(s, f, [Get(s, f) EXCEPT !.direct[i] = b])
  ELSE LET n == Get(s, f).indirect IN
       [s EXCEPT !.cache[n] = PtrBlock([Pointers(s.cache[n]) EXCEPT ![i] = b])]

(* A page keeps what it held when its block was freed: a block that is      *)
(* allocated for pointers or Files is garbled when it holds something else; *)
(* Files of a directory that was removed are found again. *)
file_block_walk(s, f, i, alloc) ==
  LET n == Get(s, f).indirect
      found(t, b) == IF t.cache[b] # Zero THEN Fail(t, "garbled") ELSE read_block(t, b)
  IN IF i < NDIRECT THEN Ok(s, 0)
     ELSE IF i >= NINDIRECT THEN Fail(s, "E_INVAL")
     ELSE IF n # 0 THEN read_block(s, n)
     ELSE IF ~alloc THEN Fail(s, "E_NOT_FOUND")
     ELSE Then(alloc_block(s), LAMBDA a :
                 found(Put(a.fs, f, [Get(a.fs, f) EXCEPT !.indirect = a.r]), a.r))

file_map_block(s, f, i, alloc) ==
  LET mapped(w, b) ==
        IF b # 0 THEN Ok(w.fs, b)
        ELSE IF ~alloc THEN Fail(w.fs, "E_NOT_FOUND")
        ELSE Then(alloc_block(w.fs), LAMBDA a : Ok(SetPtr(a.fs, f, i, a.r), a.r))
  IN Then(file_block_walk(s, f, i, alloc), LAMBDA w :
            mapped(w, PtrOf(w.fs.cache, Get(w.fs, f), i)))

file_clear_block_keeps(s, f, i) ==   \* faulty: the pointer stays
  Then(file_block_walk(s, f, i, FALSE), LAMBDA w :
         Ok(free_block(w.fs, PtrOf(w.fs.cache, Get(w.fs, f), i)), 0))

file_clear_block(s, f, i) ==
  LET cleared(t, b) == IF b = 0 THEN t ELSE SetPtr(free_block(t, b), f, i, 0)
  IN Then(file_block_walk(s, f, i, FALSE), LAMBDA w :
            Ok(cleared(w.fs, PtrOf(w.fs.cache, Get(w.fs, f), i)), 0))

file_get_block(s, f, i) ==
  Then(file_map_block(s, f, i, TRUE), LAMBDA m : read_block(m.fs, m.r))

(* The same for the block of a directory, which must hold Files. *)
dir_block(s, d, i) ==
  LET checked(g, c) == IF c.kind \in {"zero", "dir"} THEN g ELSE Fail(g.fs, "garbled")
  IN Then(file_get_block(s, d, i), LAMBDA g : checked(g, g.fs.cache[g.r]))

file_dirty(s, f, i) ==
  Then(file_map_block(s, f, i, FALSE), LAMBDA m : Ok(dirty_block(m.fs, m.r), 0))

(* file_truncate's loop: the blocks from..(to - 1) are cleared.             *)
clear_blocks(s, f, from, to) ==
  LET panicked(c) == IF c.err # "ok" THEN Fail(c.fs, "panic") ELSE c
      clear[i \in 0..to] ==
        IF i <= from THEN Ok(s, 0)
        ELSE Then(clear[i - 1], LAMBDA t : panicked(file_clear_block(t.fs, f, i - 1)))
  IN clear[to]

file_truncate_direct(s, f, newsize) ==   \* faulty: the indirect block is not freed
  LET new == Nblocks(newsize)
      sized(x) == [x EXCEPT !.size = newsize, !.indirect = IF new <= NDIRECT THEN 0 ELSE @]
  IN Then(clear_blocks(s, f, new, Nblocks(Get(s, f).size)), LAMBDA t :
            Ok(Put(t.fs, f, sized(Get(t.fs, f))), 0))

file_truncate(s, f, newsize) ==
  LET new == Nblocks(newsize)
      sized(t, x) ==
        IF new <= NDIRECT /\ x.indirect # 0
        THEN Put(free_block(t, x.indirect), f, [x EXCEPT !.indirect = 0, !.size = newsize])
        ELSE Put(t, f, [x EXCEPT !.size = newsize])
  IN Then(clear_blocks(s, f, new, Nblocks(Get(s, f).size)), LAMBDA t :
            Ok(sized(t.fs, Get(t.fs, f)), 0))

(* file_block_walk without alloc, for a loop over n blocks of File x.       *)
walked(s, x, n) == IF n > NDIRECT /\ x.indirect # 0 THEN read_block(s, x.indirect).fs ELSE s

file_flush(s, f) ==
  LET flushed(t, x) ==
        write_blocks(t, t.dirty \cap {PtrOf(t.cache, x, i) :
                                       i \in 0..(Min({Nblocks(x.size), NINDIRECT}) - 1)})
  IN flushed(walked(s, Get(s, f), Nblocks(Get(s, f).size)), Get(s, f))

flush_dir(s, d) == IF d = Nil THEN s ELSE file_flush(s, d)

file_set_size(s, f, newsize) ==
  Then(IF Get(s, f).size > newsize THEN file_truncate(s, f, newsize) ELSE Ok(s, 0), LAMBDA t :
         Ok(flush_dir(Put(t.fs, f, [Get(t.fs, f) EXCEPT !.size = newsize]), Get(t.fs, f).dir), 0))

file_close_data(s, f) ==   \* faulty: the directory's block is not marked dirty
  flush_dir(file_flush(s, f), Get(s, f).dir)

(* The block of the File itself is found among those of its directory, as   *)
(* far as they are there.                                                   *)
file_close(s, f) ==
  LET d == Get(s, f).dir
      own(t, x, n) == \E i \in 0..(n - 1) : /\ PtrOf(t.cache, x, i) = f.blk
                                            /\ \A j \in 0..(i - 1) : PtrOf(t.cache, x, j) # 0
      marked(t, x, n) == IF own(t, x, n) THEN dirty_block(t, f.blk) ELSE t
      found(t, x, n) == file_flush(marked(walked(t, x, n), x, n), d)
      closed(t) == found(t, Get(t, d), Min({Get(t, d).size \div BLOCK_SIZE, NINDIRECT}))
  IN IF d = Nil THEN file_flush(s, f) ELSE closed(file_flush(s, f))

-----------------------------------------------------------------------------
(* Directories.                                                             *)

(* Found sets f_dir in the File.  A block the directory's size counts and   *)
(* that it does not have is allocated on the way. *)
dir_lookup(s, d, name) ==
  LET n == Get(s, d).size \div BLOCK_SIZE
      hits(g) == {j \in 0..(FILE2BLK - 1) : Entries(g.fs.cache[g.r])[j].name = name}
      found(t, f) == Ok(Put(t, f, [Get(t, f) EXCEPT !.dir = d]), f)
      search(g) == IF g.err # "ok" THEN g
                   ELSE IF hits(g) = {} THEN Fail(g.fs, "E_NOT_FOUND")
                   ELSE found(g.fs, Pos(g.r, Min(hits(g))))
      next(t, i) == IF t.err # "E_NOT_FOUND" THEN t ELSE search(dir_block(t.fs, d, i))
      seen[i \in 0..n] ==   \* blocks 0..(i - 1) have been searched
        IF i = 0 THEN Fail(s, "E_NOT_FOUND") ELSE next(seen[i - 1], i - 1)
  IN seen[n]

dir_alloc_file_first(s, d) ==   \* faulty: does not look for an entry that is free
  Then(dir_block(s, d, 0), LAMBDA g : Ok(g.fs, Pos(g.r, 0)))

dir_alloc_file(s, d) ==
  LET n == Get(s, d).size \div BLOCK_SIZE
      empty(g) == {j \in 0..(FILE2BLK - 1) : Entries(g.fs.cache[g.r])[j].name = NoName}
      search(g) == IF g.err # "ok" THEN g
                   ELSE IF empty(g) = {} THEN Fail(g.fs, "none")
                   ELSE Ok(g.fs, Pos(g.r, Min(empty(g))))
      next(t, i) == IF t.err # "none" THEN t ELSE search(dir_block(t.fs, d, i))
      seen[i \in 0..n] == IF i = 0 THEN Fail(s, "none") ELSE next(seen[i - 1], i - 1)
      grown(t) == Put(t, d, [Get(t, d) EXCEPT !.size = @ + BLOCK_SIZE])
      last(t) == IF t.err # "none" THEN t
                 ELSE Then(dir_block(grown(t.fs), d, n), LAMBDA g : Ok(g.fs, Pos(g.r, 0)))
  IN last(seen[n])

(* dir is the directory of the last name, when only that is missing. *)
walk_path(s, path) ==
  LET at(t, f, e, d) == [fs |-> t, r |-> f, err |-> e, dir |-> d]
      found(l, d, i) ==
        at(l.fs, l.r, l.err,
           IF l.err = "ok" \/ (l.err = "E_NOT_FOUND" /\ i = Len(path)) THEN d ELSE Nil)
      step(w, i) == IF Get(w.fs, w.r).type # "DIR" THEN at(w.fs, Nil, "E_NOT_FOUND", Nil)
                    ELSE found(dir_lookup(w.fs, w.r, path[i]), w.r, i)
      walk[i \in 0..Len(path)] ==
        IF i = 0 THEN at(s, Root, "ok", Nil) ELSE Then(walk[i - 1], LAMBDA w : step(w, i))
  IN walk[Len(path)]

file_create(s, path) ==
  LET named(t, f) == Ok(Put(t, f, [Get(t, f) EXCEPT !.name = path[Len(path)]]), f)
      made(d, err) == IF d.err \in Stops THEN d
                      ELSE IF d.err # "ok" THEN Fail(d.fs, err) ELSE named(d.fs, d.r)
      walk(w) == IF w.err = "ok" THEN Fail(w.fs, "E_FILE_EXISTS")
                 ELSE IF w.err # "E_NOT_FOUND" \/ w.dir = Nil THEN Fail(w.fs, w.err)
                 ELSE made(dir_alloc_file(w.fs, w.dir), w.err)
  IN walk(walk_path(s, path))

file_remove(s, path) ==
  LET flushed(t, f) == flush_dir(file_flush(t, f), Get(t, f).dir)
      cleared(t, f) == Ok(flushed(Put(t, f, [Get(t, f) EXCEPT !.name = NoName]), f), f)
  IN Then(walk_path(s, path), LAMBDA w :
       Then(file_truncate(w.fs, w.r, 0), LAMBDA t : cleared(t.fs, w.r)))

-----------------------------------------------------------------------------
(* What there is, read off the cache (Memory) or off the disk alone, as a   *)
(* server that starts again would find it.                                  *)

Memory(s) == [b \in Blocks |-> IF s.cache[b] = Unmapped THEN s.disk[b] ELSE s.cache[b]]

BlocksOf(store, x) == {PtrOf(store, x, i) : i \in 0..(NINDIRECT - 1)} \ {0}

(* The positions of the Files of directory x that have a name. *)
Members(store, x) ==
  LET all == {Pos(b, j) : b \in BlocksOf(store, x), j \in 0..(FILE2BLK - 1)}
  IN IF x.type # "DIR" THEN {} ELSE {p \in all : Entries(store[p.blk])[p.idx].name # NoName}

At(store, root, p) == IF p = Root THEN root ELSE Entries(store[p.blk])[p.idx]

AllFiles(store, root) ==
  LET top == Members(store, root)
  IN {Root} \cup top \cup UNION {Members(store, At(store, root, p)) : p \in top}

Named(store, root, path) ==
  LET named(D, n) == {p \in UNION {Members(store, At(store, root, d)) : d \in D} :
                     At(store, root, p).name = n}
  IN IF Len(path) = 1 THEN named({Root}, path[1])
     ELSE named(named({Root}, path[1]), path[2])

(* Every use of a block: the File, the slot of its pointer, the block. *)
Uses(store, root) ==
  UNION {LET x == At(store, root, p)
             slot(i) == IF i = NINDIRECT THEN x.indirect ELSE PtrOf(store, x, i)
         IN {<<<<p, i>>, slot(i)>> : i \in {k \in 0..NINDIRECT : slot(k) # 0}} :
         p \in AllFiles(store, root)}

Used(store, root) == {u[2] : u \in Uses(store, root)}

(* The contents a program sees under a path: {} or {type, size and blocks}. *)
View(store, root, path) ==
  {LET x == At(store, root, p) IN
   IF x.type = "DIR" THEN [type |-> "DIR"]
   ELSE [type |-> "REG", size |-> x.size,
         blocks |-> [i \in 0..(Nblocks(x.size) - 1) |->
                       IF PtrOf(store, x, i) = 0 THEN Zero ELSE store[PtrOf(store, x, i)]]] :
   p \in Named(store, root, path)}

-----------------------------------------------------------------------------
(* fs_init on a disk that fsformat made with one directory and one file in  *)
(* it. *)

FirstPath == CHOOSE p \in Paths : Len(p) = 2
FirstFile == [NoFile EXCEPT !.name = FirstPath[2], !.size = 1, !.direct[0] = 5]
FirstDir == [NoFile EXCEPT !.name = FirstPath[1], !.type = "DIR", !.size = BLOCK_SIZE,
                           !.direct[0] = 4]
FirstRoot == [NoFile EXCEPT !.type = "DIR", !.size = BLOCK_SIZE, !.direct[0] = 3]

OnlyFile(x) == DirBlock([j \in 0..(FILE2BLK - 1) |-> IF j = 0 THEN x ELSE NoFile])

Formatted ==
  [b \in Blocks |-> CASE b = 3 -> OnlyFile(FirstDir)
                      [] b = 4 -> OnlyFile(FirstFile)
                      [] b = 5 -> DataBlock(CHOOSE v \in Data : TRUE)
                      [] OTHER -> Zero]

NoPages == [n \in 0..(NINDIRECT - 1) |-> 0]
Closed == [file |-> Nil, size |-> 0, pages |-> NoPages]

Init ==
  /\ fs = [free |-> Blocks \ {3, 4, 5}, disk_free |-> Blocks \ {3, 4, 5},
           cache |-> [b \in Blocks |-> Unmapped], disk |-> Formatted,
           dirty |-> {}, root |-> FirstRoot]
  /\ fd = [i \in Opens |-> Closed]
  /\ lost = {}
  /\ freed = FALSE
  /\ halted = "no"
  /\ calls = 0

Done_strict(t) ==   \* faulty: the server panics on every error
  /\ fs' = t.fs
  /\ halted' = IF t.err = "ok" THEN "no" ELSE t.err
  /\ freed' = (freed \/ ~(t.fs.free \subseteq fs.free))

(* The call ends with t; the histories follow it. *)
Done(t) ==
  /\ fs' = t.fs
  /\ halted' = IF t.err \in Stops THEN t.err ELSE "no"
  /\ freed' = (freed \/ ~(t.fs.free \subseteq fs.free))

Serving == halted = "no"
ByPath == Serving /\ calls < MaxCalls /\ calls' = calls + 1

(* The Files that a request by path reaches, and those that are open.       *)
Below(path) ==
  LET P == Named(Memory(fs), fs.root, path)
  IN P \cup UNION {Members(Memory(fs), At(Memory(fs), fs.root, p)) : p \in P}
Open == {fd[i].file : i \in Opens} \ {Nil}
Untouched(path) == Exclusive => Below(path) \cap Open = {}

(* Programs write to regular files only, and give up a descriptor whose     *)
(* ftruncate failed: its Filefd then has another size than the File.        *)
Regular(path) == \A v \in View(Memory(fs), fs.root, path) : v.type = "REG"
Agrees(i) == fd[i].file # Nil /\ Get(fs, fd[i].file).size = fd[i].size
Writable(i) == Agrees(i) /\ Get(fs, fd[i].file).type = "REG"

-----------------------------------------------------------------------------
(* The calls of user/lib/file.c, each with the requests it makes.           *)

serve_open(path, creat, trunc) ==
  LET opened(w) == IF trunc THEN Then(file_set_size(w.fs, w.r, 0), LAMBDA t : Ok(t.fs, w.r))
                   ELSE Ok(w.fs, w.r)
      walk(c) == IF c.err \notin {"ok", "E_FILE_EXISTS"} THEN c
                 ELSE Then(walk_path(c.fs, path), LAMBDA w : opened(w))
  IN walk(IF creat THEN file_create(fs, path) ELSE Ok(fs, Nil))

(* serve_map of the pages from..(to - 1) of File f, as far as it succeeds.  *)
fsipc_map(s, f, pages, from, to) ==
  LET mapped(t, g, n) == IF g.err # "ok" THEN Returns(g, t.r)
                         ELSE Ok(g.fs, [t.r EXCEPT ![n] = g.r])
      upto[n \in 0..to] ==
        IF n <= from THEN Ok(s, pages)
        ELSE Then(upto[n - 1], LAMBDA t : mapped(t, file_get_block(t.fs, f, n - 1), n - 1))
  IN upto[to]

(* The File is what serve_open returned, whether its pages are mapped or not. *)
open(path, creat, trunc) ==
  LET i == Min({k \in Opens : fd[k].file = Nil})   \* open_alloc
      size(o) == Get(o.fs, o.r).size
      pages(o) == fsipc_map(o.fs, o.r, NoPages, 0, Nblocks(size(o)))
  IN /\ \E k \in Opens : fd[k].file = Nil
     /\ ByPath /\ Untouched(path) /\ (trunc => Regular(path))
     /\ \E o \in {serve_open(path, creat, trunc)} :
          IF o.err # "ok" THEN Done(o) /\ UNCHANGED fd
          ELSE \E m \in {pages(o)} :
                 /\ Done(m)
                 /\ fd' = [fd EXCEPT ![i] = [file |-> o.r, size |-> size(o), pages |-> m.r]]
     /\ UNCHANGED lost

(* The pages are the server's cache pages: a store needs no request.        *)
Store(i, n, v) ==
  /\ Serving /\ Writable(i) /\ fd[i].pages[n] # 0
  /\ fs' = [fs EXCEPT !.cache[fd[i].pages[n]] = DataBlock(v)]
  /\ UNCHANGED <<fd, lost, freed, halted, calls>>

(* ftruncate maps the new pages, and sets the old size again when there is  *)
(* no block for one. r are the pages that are mapped then.                  *)
resize(f, old, n, pages) ==
  LET grown(m) == IF m.err \in Stops \cup {"ok"} THEN m
                  ELSE Returns(file_set_size(m.fs, f, old), m.r)
      sized(t) == IF t.err # "ok" THEN Returns(t, pages)
                  ELSE grown(fsipc_map(t.fs, f, pages, Nblocks(old), Nblocks(n)))
  IN sized(file_set_size(fs, f, n))

ftruncate_keeps(i, n) ==   \* faulty: the pages past the new size stay mapped
  /\ Serving /\ Writable(i)
  /\ \E t \in {resize(fd[i].file, fd[i].size, n, fd[i].pages)} :
       /\ Done(t)
       /\ fd' = [fd EXCEPT ![i].size = n, ![i].pages = t.r]
  /\ UNCHANGED <<lost, calls>>

(* The size in the Filefd page is not restored with that of the File.       *)
ftruncate(i, n) ==
  /\ Serving /\ Writable(i)
  /\ \E t \in {resize(fd[i].file, fd[i].size, n, fd[i].pages)} :
       /\ Done(t)
       /\ fd' = [fd EXCEPT ![i].size = n,
                           ![i].pages = [k \in DOMAIN @ |-> IF k >= Nblocks(n) THEN 0 ELSE t.r[k]]]
  /\ UNCHANGED <<lost, calls>>

(* file_close marks the pages dirty and gives up at the first that is not   *)
(* there; close then unmaps the fd page in any case. *)
dirty_blocks(s, f, last) ==
  LET dirty[n \in 0..last] == IF n = 0 THEN Ok(s, 0)
                              ELSE Then(dirty[n - 1], LAMBDA t : file_dirty(t.fs, f, n - 1))
  IN dirty[last]

close(i) ==
  LET f == fd[i].file IN
  /\ Serving /\ f # Nil
  /\ Done(Then(dirty_blocks(fs, f, Nblocks(fd[i].size)), LAMBDA t : Ok(file_close(t.fs, f), 0)))
  /\ fd' = [fd EXCEPT ![i] = Closed]
  /\ UNCHANGED <<lost, calls>>

(* A directory goes without its members: what they use is lost.             *)
remove(path) ==
  LET store == Memory(fs)
      gone == UNION {LET x == At(store, fs.root, p) IN (BlocksOf(store, x) \cup {x.indirect}) \ {0} :
                       p \in Below(path) \ Named(store, fs.root, path)}
  IN /\ ByPath /\ Untouched(path)
     /\ \E t \in {file_remove(fs, path)} :
          /\ Done(t)
          /\ lost' = IF t.err = "ok" THEN lost \cup gone ELSE lost
     /\ UNCHANGED fd

sync == Serving /\ Done(Ok(fs_sync(fs), 0)) /\ UNCHANGED <<fd, lost, calls>>

(* mkdir and touch *)
mkdir(path, type) ==
  LET typed(t, f) == Ok(Put(t, f, [Get(t, f) EXCEPT !.type = type]), 0) IN
  /\ ByPath
  /\ Done(Then(file_create(fs, path), LAMBDA c : typed(c.fs, c.r)))
  /\ UNCHANGED <<fd, lost>>

Next ==
  \/ \E p \in Paths, creat, trunc \in BOOLEAN : open(p, creat, trunc)
  \/ \E i \in Opens, n \in 0..(NINDIRECT - 1), v \in Data : Store(i, n, v)
  \/ \E i \in Opens, n \in Sizes : ftruncate(i, n)
  \/ \E i \in Opens : close(i)
  \/ \E p \in Paths : remove(p)
  \/ sync
  \/ \E p \in Paths, type \in {"REG", "DIR"} : mkdir(p, type)

Spec == Init /\ [][Next]_vars

-----------------------------------------------------------------------------
TypeOK ==
  /\ DOMAIN fs = {"free", "disk_free", "cache", "disk", "dirty", "root"}
  /\ fs.free \subseteq Blocks /\ fs.disk_free \subseteq Blocks /\ fs.dirty \subseteq Blocks
  /\ fs.root \in File
  /\ \A b \in Blocks, j \in 0..(FILE2BLK - 1) :
       Entries(fs.cache[b])[j] \in File /\ Entries(fs.disk[b])[j] \in File
  /\ \A i \in Opens : fd[i].file \in Positions /\ fd[i].size \in Nat
  /\ lost \subseteq Blocks /\ freed \in BOOLEAN /\ halted \in Stops \cup {"no"}

(* No block is used twice, by one File or by two, and none that is used is  *)
(* free. *)
EachBlockOnce ==
  halted = "no" =>
    LET U == Uses(Memory(fs), fs.root) IN
    /\ \A u, v \in U : u[2] = v[2] => u = v
    /\ Used(Memory(fs), fs.root) \cap fs.free = {}

(* A block that is not free is used, or a member of a directory that was    *)
(* removed has used it. *)
NothingLeaks ==
  halted = "no" => Blocks \ fs.free \subseteq Used(Memory(fs), fs.root) \cup lost

(* A crash never makes a block free that the server has given away, and as  *)
(* long as nothing has been freed the disk alone is a sound file system.    *)
CrashSafe ==
  LET U == Uses(fs.disk, FirstRoot) IN
  /\ fs.disk_free \subseteq fs.free
  /\ ~freed => /\ \A u, v \in U : u[2] = v[2] => u = v
               /\ Used(fs.disk, FirstRoot) \cap fs.disk_free = {}

(* A page that a client has mapped and may store to is the block of the     *)
(* file it has open, or the file of that page is gone from the directory.   *)
PagesAreTheFiles ==
  halted = "no" =>
    \A i \in Opens, n \in 0..(NINDIRECT - 1) :
      Writable(i) => PtrOf(fs.cache, Get(fs, fd[i].file), n) = fd[i].pages[n]

(* A call changes no path but the one it names and, if that is a directory  *)
(* that comes or goes, what is below.  (A block that a directory gets may   *)
(* bring back Files of one that was removed: then other paths change in a   *)
(* directory on the way.) *)
Seen(p) == View(Memory(fs), fs.root, p)
Changed == {p \in Paths : Seen(p) # Seen(p)'}
DirBlocks(d) ==
  UNION {BlocksOf(Memory(fs), At(Memory(fs), fs.root, x)) :
           x \in IF d = <<>> THEN {Root} ELSE Named(Memory(fs), fs.root, d)}
Prefix(p, k) == SubSeq(p, 1, k)
Shared(p, q) == {Prefix(p, k) : k \in 0..Len(p)} \cap {Prefix(q, k) : k \in 0..Len(q)}
OthersUntouched ==
  [][halted' = "no" =>
       \E p \in Paths : \A q \in Changed \ {p} :
         \E d \in Shared(p, q) :
           \/ d = p /\ p \in Changed
           \/ d # p /\ DirBlocks(d) # DirBlocks(d)']_vars

(* What has been closed is on the disk: a server that starts again finds    *)
(* it, if it needs no indirect block and the directory is found.            *)
DiskView(p) == View(fs.disk, FirstRoot, p)
Small(f) == f.size <= NDIRECT * BLOCK_SIZE
DirKnown(p) ==
  LET dirs(store, root) == {At(store, root, d) : d \in IF Len(p) = 1 THEN {Root}
                                                      ELSE Named(store, root, Prefix(p, 1))}
      mine == dirs(Memory(fs), fs.root)
  IN /\ \A x \in mine \cup {fs.root} : Small(x)
     /\ {x.direct : x \in mine} = {x.direct : x \in dirs(fs.disk, FirstRoot)}
ClosedIsDurable ==
  [][\A i \in Opens, p \in Paths :
       /\ Named(Memory(fs), fs.root, p) = {fd[i].file} /\ fd'[i] = Closed
       /\ Writable(i) /\ Small(Get(fs, fd[i].file)) /\ DirKnown(p)
       => DiskView(p)' = Seen(p)']_vars
=============================================================================
