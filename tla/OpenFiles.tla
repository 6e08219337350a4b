------------------------------ MODULE OpenFiles ------------------------------
(***************************************************************************)
(* Open files between programs and the file server: opentab and the        *)
(* handlers of fs/serv.c, the descriptors of user/lib/fd.c and the calls   *)
(* of user/lib/file.c with their requests (fsipc.c).                       *)
(*                                                                         *)
(* An open file is a Filefd page that the server maps once and every       *)
(* descriptor for it once more; there is no other count.  The page holds   *)
(* the size, and fork, spawn and dup share it, with the pages of the       *)
(* file's blocks that are mapped at that moment.  (The position it holds   *)
(* is not modelled: a read or a write may be at any.)                      *)
(*                                                                         *)
(* The server handles one request at a time, so a request with its answer  *)
(* is a step of the client.  The blocks themselves are in module Files.    *)
(***************************************************************************)
EXTENDS Integers, FiniteSets, FiniteSetsExt

CONSTANTS
  Envs, First,  \* the clients; First runs at the start
  Files,
  MAXOPEN,      \* entries of opentab
  MAXFD,        \* descriptors of an env
  MaxSize,      \* pages of a file at most; a page holds one byte
  Exclusive,    \* TRUE: programs write as the shell's do, see Alone
  None

ASSUME OpenFilesAssumption ==
  /\ First \in Envs /\ IsFiniteSet(Envs)
  /\ {MAXOPEN, MAXFD, MaxSize} \subseteq Nat \ {0}
  /\ Exclusive \in BOOLEAN
  /\ None \notin 0..(MAXOPEN - 1) \cup Files
  /\ None \notin {"file", "zero"}

VARIABLES
  opentab,  \* per entry: o_file, o_mode, whether the server maps its Filefd
            \* page, and the page's f_size
  f_size,   \* of the server's struct File
  fd,       \* [envs -> [descriptors -> the entry whose page is mapped, or None]]
  data,     \* the pages of a descriptor that are mapped: "file" for the file's
            \* own, "zero" for one the kernel has supplied on a page fault
  call,     \* the library call each env is in
  opened    \* history: the file each descriptor was opened for

vars == <<opentab, f_size, fd, data, call, opened>>

Entries == 0..(MAXOPEN - 1)
Fds == 0..(MAXFD - 1)
Pages == 0..(MaxSize - 1)
Modes == {"O_RDONLY", "O_RDWR", "O_TRUNC"}
NoPages == [b \in Pages |-> None]

Idle == [at |-> "idle"]
Unborn == [at |-> "unborn"]
Gone == [at |-> "gone"]

Init ==
  /\ opentab = [e \in Entries |-> [file |-> None, mode |-> None, mapped |-> FALSE, size |-> 0]]
  /\ f_size \in [Files -> {0, 1}]
  /\ fd = [c \in Envs |-> [n \in Fds |-> None]]
  /\ data = [c \in Envs |-> [n \in Fds |-> NoPages]]
  /\ call = [c \in Envs |-> IF c = First THEN Idle ELSE Unborn]
  /\ opened = [c \in Envs |-> [n \in Fds |-> None]]

Holders(e) == {h \in Envs \X Fds : fd[h[1]][h[2]] = e}
pageref(e) == Cardinality(Holders(e)) + IF opentab[e].mapped THEN 1 ELSE 0
At(c, where) == call[c].at = where
Goto(c, x) == call' = [call EXCEPT ![c] = x]

-----------------------------------------------------------------------------
(* The server.                                                              *)

Free_2 == {e \in Entries : pageref(e) \in {0, 1, 2}} \* faulty
Free == {e \in Entries : pageref(e) \in {0, 1}}

serve_open_early(e, file, mode) ==   \* faulty: the page is filled in before O_TRUNC
  /\ e = Min(Free)
  /\ opentab' = [opentab EXCEPT ![e] =
       [file |-> file, mode |-> mode, mapped |-> TRUE, size |-> f_size[file]]]
  /\ f_size' = [f_size EXCEPT ![file] = IF mode = "O_TRUNC" THEN 0 ELSE @]

(* open_alloc takes the first entry that nobody else maps and clears its    *)
(* page; serve_open fills it in and answers with the page. *)
serve_open(e, file, mode) ==
  LET size == IF mode = "O_TRUNC" THEN 0 ELSE f_size[file] IN
  /\ e = Min(Free)
  /\ opentab' = [opentab EXCEPT ![e] =
       [file |-> file, mode |-> mode, mapped |-> TRUE, size |-> size]]
  /\ f_size' = [f_size EXCEPT ![file] = size]

(* open_lookup, for any env that knows the number. *)
open_lookup(e) == pageref(e) > 1

serve_set_size(e, size) ==
  open_lookup(e) /\ f_size' = [f_size EXCEPT ![opentab[e].file] = size]

(* serve_map: its answer is the page of block b. *)
serve_map(c, n, b) ==
  open_lookup(fd[c][n]) /\ data' = [data EXCEPT ![c][n][b] = "file"]

-----------------------------------------------------------------------------
(* How the programs of the system use open files (Exclusive): what is open  *)
(* for writing is open once, and a size is changed through a descriptor     *)
(* that no one else has.                                                    *)

InUse(file) == {e \in Entries : opentab[e].file = file /\ Holders(e) # {}}
Alone(c, n) == Exclusive => Holders(fd[c][n]) = {<<c, n>>}
MayOpen(file, mode) ==
  Exclusive => \A e \in InUse(file) : opentab[e].mode = "O_RDONLY" /\ mode = "O_RDONLY"

(* fd_alloc never hands out the last descriptor. *)
FreeFds(c) == {n \in 0..(MAXFD - 2) : fd[c][n] = None}

open(c, file, mode) ==
  /\ At(c, "idle") /\ MayOpen(file, mode)
  /\ FreeFds(c) # {} /\ Free # {}
  /\ LET n == Min(FreeFds(c)) IN \E e \in Free :
     /\ serve_open(e, file, mode)
     /\ fd' = [fd EXCEPT ![c][n] = e]
     /\ opened' = [opened EXCEPT ![c][n] = file]
     /\ Goto(c, [at |-> "map", n |-> n, i |-> 0, end |-> opentab'[e].size, then |-> Idle])
  /\ UNCHANGED data

(* The loop of fsipc_map in open and ftruncate. *)
fsipc_map(c) ==
  /\ At(c, "map")
  /\ LET x == call[c] IN
     IF x.i < x.end
     THEN serve_map(c, x.n, x.i) /\ Goto(c, [x EXCEPT !.i = @ + 1])
     ELSE Goto(c, x.then) /\ UNCHANGED data
  /\ UNCHANGED <<opentab, f_size, fd, opened>>

-----------------------------------------------------------------------------
(* ftruncate: the size in the Filefd page first, then the file's, then the  *)
(* pages.                                                                   *)

Truncate(c, n, size, then) ==
  /\ opentab' = [opentab EXCEPT ![fd[c][n]].size = size]
  /\ Goto(c, [at |-> "set_size", n |-> n, old |-> opentab[fd[c][n]].size, size |-> size,
              then |-> then])

Writable(c, n) == fd[c][n] # None /\ opentab[fd[c][n]].mode # "O_RDONLY"

ftruncate(c, n, size) ==
  /\ At(c, "idle") /\ Writable(c, n) /\ Alone(c, n)
  /\ Truncate(c, n, size, Idle)
  /\ UNCHANGED <<f_size, fd, data, opened>>

fsipc_set_size(c) ==
  /\ At(c, "set_size")
  /\ LET x == call[c] IN
     /\ serve_set_size(fd[c][x.n], x.size)
     /\ IF x.size >= x.old
        THEN /\ Goto(c, [at |-> "map", n |-> x.n, i |-> x.old, end |-> x.size, then |-> x.then])
             /\ UNCHANGED data
        ELSE /\ data' = [data EXCEPT ![c][x.n] =
                  [b \in Pages |-> IF b \in x.size..(x.old - 1) THEN None ELSE @[b]]]
             /\ Goto(c, x.then)
  /\ UNCHANGED <<opentab, fd, opened>>

-----------------------------------------------------------------------------
(* read and write of one byte; a page that is not mapped is supplied by the *)
(* kernel (passive_alloc).                                                  *)

Touched(c, n, b) ==
  data' = [data EXCEPT ![c][n][b] = IF @ = None THEN "zero" ELSE @]

read(c, n, offset) ==
  /\ At(c, "idle") /\ fd[c][n] # None
  /\ offset < opentab[fd[c][n]].size
  /\ Touched(c, n, offset)
  /\ UNCHANGED <<opentab, f_size, fd, call, opened>>

(* file_write makes room first when the file is too short. *)
write(c, n, offset) ==
  /\ At(c, "idle") /\ Writable(c, n)
  /\ LET x == [at |-> "write", n |-> n, offset |-> offset]
     IN IF offset + 1 > opentab[fd[c][n]].size
        THEN Alone(c, n) /\ Truncate(c, n, offset + 1, x)
        ELSE Goto(c, x) /\ UNCHANGED opentab
  /\ UNCHANGED <<f_size, fd, data, opened>>

write_data(c) ==
  /\ At(c, "write")
  /\ Touched(c, call[c].n, call[c].offset)
  /\ Goto(c, Idle)
  /\ UNCHANGED <<opentab, f_size, fd, opened>>

-----------------------------------------------------------------------------
(* close: file_close's requests, of which the size read first tells how     *)
(* many; then the pages, then the descriptor.                               *)

Close(c, n, then) == Goto(c, [at |-> "close", n |-> n, size |-> opentab[fd[c][n]].size, then |-> then])

close(c, n) ==
  /\ At(c, "idle") /\ fd[c][n] # None
  /\ Close(c, n, Idle)
  /\ UNCHANGED <<opentab, f_size, fd, data, opened>>

Unmapped(c, n, size) == [data EXCEPT ![c][n] = [b \in Pages |-> IF b < size THEN None ELSE @[b]]]

fd_close(c) ==
  /\ At(c, "close")
  /\ LET x == call[c] IN
     /\ open_lookup(fd[c][x.n])
     /\ data' = Unmapped(c, x.n, x.size)
     /\ fd' = [fd EXCEPT ![c][x.n] = None]
     /\ opened' = [opened EXCEPT ![c][x.n] = None]
     /\ Goto(c, x.then)
  /\ UNCHANGED <<opentab, f_size>>

(* dup: close of the new descriptor, then the pages and the descriptor.     *)
dup(c, old, new) ==
  /\ At(c, "idle") /\ fd[c][old] # None /\ old # new
  /\ LET x == [at |-> "dup", old |-> old, new |-> new] IN
     IF fd[c][new] # None THEN Close(c, new, x) ELSE Goto(c, x)
  /\ UNCHANGED <<opentab, f_size, fd, data, opened>>

dup_map_fd(c) ==   \* faulty: the pages of the file are not mapped
  /\ At(c, "dup")
  /\ LET o == call[c].old  n == call[c].new IN
     /\ fd' = [fd EXCEPT ![c][n] = fd[c][o]]
     /\ opened' = [opened EXCEPT ![c][n] = opened[c][o]]
  /\ Goto(c, Idle)
  /\ UNCHANGED <<opentab, f_size, data>>

dup_map(c) ==
  /\ At(c, "dup")
  /\ LET o == call[c].old  n == call[c].new IN
     /\ data' = [data EXCEPT ![c][n] =
          [b \in Pages |-> IF data[c][o][b] # None THEN data[c][o][b] ELSE @[b]]]
     /\ fd' = [fd EXCEPT ![c][n] = fd[c][o]]
     /\ opened' = [opened EXCEPT ![c][n] = opened[c][o]]
  /\ Goto(c, Idle)
  /\ UNCHANGED <<opentab, f_size>>

(* fork and spawn: what is mapped with PTE_LIBRARY is mapped in the child.  *)
fork(c, child) ==
  /\ At(c, "idle") /\ At(child, "unborn")
  /\ fd' = [fd EXCEPT ![child] = fd[c]]
  /\ opened' = [opened EXCEPT ![child] = opened[c]]
  /\ data' = [data EXCEPT ![child] = data[c]]
  /\ Goto(child, Idle)
  /\ UNCHANGED <<opentab, f_size>>

(* exit: close_all. *)
exit(c) ==
  /\ At(c, "idle")
  /\ Goto(c, [at |-> "exit"])
  /\ UNCHANGED <<opentab, f_size, fd, data, opened>>

close_all(c) ==
  /\ At(c, "exit")
  /\ LET open_fds == {n \in Fds : fd[c][n] # None} IN
     IF open_fds # {} THEN Close(c, Min(open_fds), call[c]) ELSE Goto(c, Gone)
  /\ UNCHANGED <<opentab, f_size, fd, data, opened>>

Step(c) ==
  \/ \E file \in Files, mode \in Modes : open(c, file, mode)
  \/ \E n \in Fds :
       \/ close(c, n)
       \/ \E size \in 0..MaxSize : ftruncate(c, n, size)
       \/ \E b \in Pages : read(c, n, b) \/ write(c, n, b)
       \/ \E new \in Fds : dup(c, n, new)
  \/ fsipc_map(c) \/ fsipc_set_size(c) \/ write_data(c) \/ fd_close(c) \/ dup_map(c)
  \/ exit(c) \/ close_all(c)
  \/ \E child \in Envs : fork(c, child)

Next == \E c \in Envs : Step(c)

Spec == Init /\ [][Next]_vars

-----------------------------------------------------------------------------
TypeOK ==
  /\ opentab \in [Entries -> [file : Files \cup {None}, mode : Modes \cup {None},
                              mapped : BOOLEAN, size : 0..MaxSize]]
  /\ f_size \in [Files -> 0..MaxSize]
  /\ fd \in [Envs -> [Fds -> Entries \cup {None}]]
  /\ data \in [Envs -> [Fds -> [Pages -> {None, "file", "zero"}]]]
  /\ opened \in [Envs -> [Fds -> Files \cup {None}]]
  /\ \A e \in Entries : opentab[e].file = None => Holders(e) = {}

(* A descriptor stays with its file: while an env maps an open file's page, *)
(* whatever others open, close and inherit, the entry is not given to       *)
(* another file, and the env's requests find the file it has opened.        *)
OwnFile ==
  \A c \in Envs, n \in Fds :
    fd[c][n] # None => opentab[fd[c][n]].file = opened[c][n] /\ open_lookup(fd[c][n])

Truncating(e) == \E c \in Envs : At(c, "set_size") /\ fd[c][call[c].n] = e

(* Outside ftruncate the size in the Filefd page, which every read, write   *)
(* and close goes by, is the file's. *)
SizesAgree ==
  \A e \in Entries : Holders(e) # {} /\ ~Truncating(e) => opentab[e].size = f_size[opentab[e].file]

(* An env that is in no call has the file's own page behind every byte it   *)
(* can reach through a descriptor: nothing it reads was never in the file,  *)
(* and nothing it writes is lost. *)
PagesBacked ==
  \A c \in Envs : At(c, "idle") =>
    \A n \in Fds : fd[c][n] # None =>
      \A b \in 0..(opentab[fd[c][n]].size - 1) : data[c][n][b] = "file"
=============================================================================
