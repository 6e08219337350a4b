-------------------------------- MODULE Pipe --------------------------------
(***************************************************************************)
(* One pipe of user/lib/pipe.c and the envs that share it, with the calls  *)
(* of user/lib/fd.c and user/lib/fork.c that map and unmap its pages.      *)
(*                                                                         *)
(* A pipe is three pages shared between envs: the fd page of its read end, *)
(* the fd page of its write end, and the data page with p_rpos, p_wpos and *)
(* p_buf.  An end open as number n in env e is a mapping of its fd page    *)
(* and a mapping of the data page, made and taken away by separate system  *)
(* calls.  _pipe_is_closed compares pp_ref of the fd page with pp_ref of   *)
(* the data page: nothing but the order of those calls makes that right.   *)
(*                                                                         *)
(* A step is a system call or an access to the shared data page.  Envs are *)
(* preempted between any two; env_runs of an env changes exactly when      *)
(* another env ran in between, so the comparison of env_runs is modelled   *)
(* by "fresh".  spawn maps PTE_LIBRARY pages in the same order as fork.    *)
(* Copying is modelled by numbering the bytes.  dup of a number to itself  *)
(* and system calls that fail for lack of memory are left out.             *)
(***************************************************************************)
EXTENDS Integers, Sequences, FiniteSets

CONSTANTS Envs,       \* the env that made the pipe and those fork makes
          Root,       \* the former
          NFD,        \* fd numbers an env has: MAXFD
          Size,       \* PIPE_SIZE
          Word,       \* number of values of p_rpos and p_wpos: 2^32
          MaxBytes,   \* bound: bytes written in a behaviour
          ForkShared, \* an env may fork while another has the same end open
          None

ASSUME PipeAssumption ==
  /\ Root \in Envs /\ None \notin Envs
  /\ IsFiniteSet(Envs)
  /\ NFD \in Nat /\ NFD >= 2
  /\ Size \in Nat \ {0} /\ Word \in Nat /\ Word % Size = 0 /\ Word > Size
  /\ MaxBytes \in Nat /\ ForkShared \in BOOLEAN

Fds == 0..NFD - 1

VARIABLES
  rd, wr, data,   \* where the three pages are mapped: pairs <<env, fd number>>
  p_rpos, p_wpos, p_buf,
  state,          \* of an env: "unused", "embryo" (forked, not started), "running"
  pc, frame,      \* what it executes, and its local variables
  fresh,          \* the env that has run alone since it read env_runs
  sent, got       \* the number of bytes written, the bytes read

pages == <<rd, wr, data>>
bytes == <<p_rpos, p_wpos, p_buf, sent, got>>
vars  == <<pages, bytes, state, pc, frame, fresh>>

(* fd, to: the number a call is about, dup's second one. child: of fork.   *)
(* left, some: bytes still to transfer, and whether one was.  ret: the     *)
(* caller of _pipe_is_closed.  fd_ref, closed: what it has seen.           *)
Idle == [fd |-> 0, to |-> 0, child |-> None, left |-> 0, some |-> FALSE,
         byte |-> 0, ret |-> "idle", fd_ref |-> 0, closed |-> FALSE]

Init == \* pipe() in Root has returned 0 and 1
  /\ rd = {<<Root, 0>>} /\ wr = {<<Root, 1>>} /\ data = {<<Root, 0>>, <<Root, 1>>}
  /\ p_rpos = 0 /\ p_wpos = 0 /\ p_buf = [i \in 0..Size - 1 |-> 0]
  /\ state = [e \in Envs |-> IF e = Root THEN "running" ELSE "unused"]
  /\ pc = [e \in Envs |-> "idle"]
  /\ frame = [e \in Envs |-> Idle]
  /\ fresh = None
  /\ sent = 0 /\ got = <<>>

----------------------------------------------------------------------------
Open(e, n) == <<e, n>> \in rd \cup wr
End(e) == IF <<e, frame[e].fd>> \in rd THEN rd ELSE wr

(* e goes on at "label" with the locals f. *)
Goto(e, label, f) ==
  /\ pc' = [pc EXCEPT ![e] = label]
  /\ frame' = [frame EXCEPT ![e] = f]

At(e, label) == state[e] = "running" /\ pc[e] = label

(* Another env has run since e read env_runs. *)
Interrupted_Never(e) == FALSE \* faulty: the counts are not read again
Interrupted(e) == fresh # e

(* Every step of e interrupts the others. *)
Runs(e) == fresh' = IF fresh = e THEN e ELSE None

(* close: pipe_close unmaps the fd page, then the data page. *)
UnmapFd(e, n) == rd' = rd \ {<<e, n>>} /\ wr' = wr \ {<<e, n>>} /\ UNCHANGED data
UnmapData(e, n) == data' = data \ {<<e, n>>} /\ UNCHANGED <<rd, wr>>

Unmap_DataFirst(e, n, step) == IF step = 1 THEN UnmapData(e, n) ELSE UnmapFd(e, n) \* faulty
Unmap(e, n, step) == IF step = 1 THEN UnmapFd(e, n) ELSE UnmapData(e, n)

(* mem_map of what "from" maps, if it does, at "at" too. *)
Share(page, from, at) == IF from \in page THEN page \cup {at} ELSE page

(* dup maps the data page under the new number, then the fd page. *)
MapData(e, n, to) == data' = Share(data, <<e, n>>, <<e, to>>) /\ UNCHANGED <<rd, wr>>
MapFd(e, n, to) ==
  /\ rd' = Share(rd, <<e, n>>, <<e, to>>)
  /\ wr' = Share(wr, <<e, n>>, <<e, to>>)
  /\ UNCHANGED data

Map_FdFirst(e, n, to, step) == IF step = 1 THEN MapFd(e, n, to) ELSE MapData(e, n, to) \* faulty
Map(e, n, to, step) == IF step = 1 THEN MapData(e, n, to) ELSE MapFd(e, n, to)

close(e, n) ==
  /\ At(e, "idle") /\ Open(e, n)
  /\ Unmap(e, n, 1)
  /\ Goto(e, "unmap2", [Idle EXCEPT !.fd = n])
  /\ Runs(e) /\ UNCHANGED <<bytes, state>>

close_2(e) ==
  /\ At(e, "unmap2") /\ Unmap(e, frame[e].fd, 2)
  /\ Goto(e, "idle", Idle)
  /\ Runs(e) /\ UNCHANGED <<bytes, state>>

(* dup begins by closing the new number, here by a call of its own. *)
dup(e, n, to) ==
  /\ At(e, "idle") /\ Open(e, n) /\ ~Open(e, to)
  /\ Map(e, n, to, 1)
  /\ Goto(e, "map2", [Idle EXCEPT !.fd = n, !.to = to])
  /\ Runs(e) /\ UNCHANGED <<bytes, state>>

dup_2(e) ==
  /\ At(e, "map2") /\ Map(e, frame[e].fd, frame[e].to, 2)
  /\ Goto(e, "idle", Idle)
  /\ Runs(e) /\ UNCHANGED <<bytes, state>>

(* fork copies the mappings by ascending address: the fd pages lie below   *)
(* the data pages.  sh.c forks and spawns where no other env works with an *)
(* end that the caller has open.                                           *)
Alone(e) == \A end \in {rd, wr} : (\E n \in Fds : <<e, n>> \in end) => \A p \in end : p[1] = e

fork(e, c) ==
  /\ At(e, "idle") /\ state[c] = "unused"
  /\ ForkShared \/ Alone(e)
  /\ state' = [state EXCEPT ![c] = "embryo"]
  /\ Goto(e, "fork", [Idle EXCEPT !.child = c])
  /\ Runs(e) /\ UNCHANGED <<pages, bytes>>

Missing(e, set) == {n \in Fds : <<e, n>> \in set /\ <<frame[e].child, n>> \notin set}

duppage_fd(e) ==
  /\ At(e, "fork")
  /\ \E n \in Missing(e, rd \cup wr) :
       /\ \A m \in Missing(e, rd \cup wr) : n <= m
       /\ rd' = Share(rd, <<e, n>>, <<frame[e].child, n>>)
       /\ wr' = Share(wr, <<e, n>>, <<frame[e].child, n>>)
  /\ Runs(e) /\ UNCHANGED <<data, bytes, state, pc, frame>>

duppage_data(e) ==
  /\ At(e, "fork") /\ Missing(e, rd \cup wr) = {}
  /\ \E n \in Missing(e, data) :
       /\ \A m \in Missing(e, data) : n <= m
       /\ data' = data \cup {<<frame[e].child, n>>}
  /\ Runs(e) /\ UNCHANGED <<rd, wr, bytes, state, pc, frame>>

fork_2(e) ==
  /\ At(e, "fork") /\ Missing(e, rd \cup wr) = {} /\ Missing(e, data) = {}
  /\ state' = [state EXCEPT ![frame[e].child] = "running"]
  /\ Goto(e, "idle", Idle)
  /\ Runs(e) /\ UNCHANGED <<pages, bytes>>

----------------------------------------------------------------------------
(* _pipe_is_closed *)
Verdict_Never(e) == FALSE \* faulty
Verdict(e) == frame[e].fd_ref = Cardinality(data)

read_runs(e) ==
  /\ At(e, "runs") /\ Goto(e, "fd_ref", frame[e])
  /\ fresh' = e /\ UNCHANGED <<pages, bytes, state>>

read_fd_ref(e) ==
  /\ At(e, "fd_ref") /\ Goto(e, "pipe_ref", [frame[e] EXCEPT !.fd_ref = Cardinality(End(e))])
  /\ Runs(e) /\ UNCHANGED <<pages, bytes, state>>

read_pipe_ref(e) ==
  /\ At(e, "pipe_ref") /\ Goto(e, "recheck", [frame[e] EXCEPT !.closed = Verdict(e)])
  /\ Runs(e) /\ UNCHANGED <<pages, bytes, state>>

Cleared(e) == [frame[e] EXCEPT !.fd_ref = 0, !.closed = FALSE]

(* The answer: pipe_read gives up when the pipe is closed or it has read   *)
(* something, pipe_write when the pipe is closed; else they yield. *)
Answer(e) ==
  IF frame[e].ret = "idle" \/ frame[e].closed \/ (frame[e].ret = "read" /\ frame[e].some)
  THEN Goto(e, "idle", Idle)
  ELSE Goto(e, frame[e].ret, Cleared(e))

recheck(e) ==
  /\ At(e, "recheck")
  /\ IF Interrupted(e) THEN Goto(e, "runs", Cleared(e)) ELSE Answer(e)
  /\ Runs(e) /\ UNCHANGED <<pages, bytes, state>>

pipe_is_closed(e, n) ==
  /\ At(e, "idle") /\ Open(e, n)
  /\ Goto(e, "fd_ref", [Idle EXCEPT !.fd = n])
  /\ fresh' = e /\ UNCHANGED <<pages, bytes, state>>

(* A byte moved: go on, or return n. *)
Moved_OneMore(e, label) == \* faulty: i <= n
  IF frame[e].left = 0 THEN Goto(e, "idle", Idle)
  ELSE Goto(e, label, [frame[e] EXCEPT !.left = @ - 1, !.some = TRUE, !.byte = 0])

Moved(e, label) ==
  IF frame[e].left = 1 THEN Goto(e, "idle", Idle)
  ELSE Goto(e, label, [frame[e] EXCEPT !.left = @ - 1, !.some = TRUE, !.byte = 0])

(* One env at a time reads, and one writes: there is no lock.  Each of the *)
(* two positions is then written by one of them, so that a test of both    *)
(* is one access.                                                          *)
Sole(call) == \A e \in Envs : frame[e].ret # call

pipe_read(e, n, k) ==
  /\ At(e, "idle") /\ <<e, n>> \in rd /\ Sole("read")
  /\ Goto(e, "read", [Idle EXCEPT !.fd = n, !.left = k, !.ret = "read"])
  /\ Runs(e) /\ UNCHANGED <<pages, bytes, state>>

read_test(e) ==
  /\ At(e, "read")
  /\ IF p_rpos = p_wpos THEN Goto(e, "runs", frame[e])
     ELSE Goto(e, "read_inc", [frame[e] EXCEPT !.byte = p_buf[p_rpos % Size]])
  /\ Runs(e) /\ UNCHANGED <<pages, bytes, state>>

read_inc(e) ==
  /\ At(e, "read_inc") /\ Moved(e, "read")
  /\ p_rpos' = (p_rpos + 1) % Word
  /\ got' = Append(got, frame[e].byte)
  /\ Runs(e) /\ UNCHANGED <<pages, p_wpos, p_buf, sent, state>>

Full_AtCapacityPlusOne == (p_wpos - p_rpos) % Word = Size + 1 \* faulty
Full == (p_wpos - p_rpos) % Word = Size

pipe_write(e, n, k) ==
  /\ At(e, "idle") /\ <<e, n>> \in wr /\ Sole("write")
  /\ sent + k <= MaxBytes
  /\ Goto(e, "write", [Idle EXCEPT !.fd = n, !.left = k, !.ret = "write"])
  /\ Runs(e) /\ UNCHANGED <<pages, bytes, state>>

write_test(e) ==
  /\ At(e, "write")
  /\ IF Full THEN Goto(e, "runs", frame[e]) /\ UNCHANGED bytes
     ELSE /\ p_buf' = [p_buf EXCEPT ![p_wpos % Size] = sent + 1]
          /\ Goto(e, "write_inc", frame[e])
          /\ UNCHANGED <<p_rpos, p_wpos, sent, got>>
  /\ Runs(e) /\ UNCHANGED <<pages, state>>

write_inc(e) ==
  /\ At(e, "write_inc") /\ Moved(e, "write")
  /\ p_wpos' = (p_wpos + 1) % Word
  /\ sent' = sent + 1
  /\ Runs(e) /\ UNCHANGED <<pages, p_rpos, p_buf, got, state>>

----------------------------------------------------------------------------
(* What an env does of its own accord, and what it does once in a call.    *)
Call(e) ==
  \/ \E n \in Fds : close(e, n) \/ pipe_is_closed(e, n)
  \/ \E n, to \in Fds : dup(e, n, to)
  \/ \E c \in Envs : fork(e, c)
  \/ \E n \in Fds, k \in 1..MaxBytes : pipe_read(e, n, k) \/ pipe_write(e, n, k)

Work(e) ==
  \/ close_2(e) \/ dup_2(e)
  \/ duppage_fd(e) \/ duppage_data(e) \/ fork_2(e)
  \/ read_runs(e) \/ read_fd_ref(e) \/ read_pipe_ref(e) \/ recheck(e)
  \/ read_test(e) \/ read_inc(e) \/ write_test(e) \/ write_inc(e)

Next == \E e \in Envs : Call(e) \/ Work(e)

Spec == Init /\ [][Next]_vars

(* Every env gets the CPU (MosEnv, EveryRunnableRuns), and one that asks   *)
(* again and again goes through _pipe_is_closed within one slice some time: *)
(* a slice is far longer than that loop. *)
FairSpec ==
  /\ Spec
  /\ \A e \in Envs :
       /\ WF_vars(Work(e))
       /\ []<>At(e, "runs") => []<><<fresh = e /\ recheck(e)>>_vars

----------------------------------------------------------------------------
Where == SUBSET (Envs \X Fds)

TypeOK ==
  /\ rd \in Where /\ wr \in Where /\ data \in Where
  /\ p_rpos \in 0..Word - 1 /\ p_wpos \in 0..Word - 1
  /\ p_buf \in [0..Size - 1 -> 0..MaxBytes]
  /\ state \in [Envs -> {"unused", "embryo", "running"}]
  /\ pc \in [Envs -> {"idle", "unmap2", "map2", "fork", "runs", "fd_ref",
                      "pipe_ref", "recheck", "read", "read_inc", "write", "write_inc"}]
  /\ frame \in [Envs -> [fd : Fds, to : Fds, child : Envs \cup {None}, left : 0..MaxBytes,
                         some : BOOLEAN, byte : 0..MaxBytes, ret : {"idle", "read", "write"},
                         fd_ref : Nat, closed : BOOLEAN]]
  /\ fresh \in Envs \cup {None}
  /\ sent \in 0..MaxBytes /\ got \in Seq(0..MaxBytes)

(* pipe.c:87: _pipe_is_closed says 1 only when the other end is open       *)
(* nowhere, whatever dup, close and fork are in the middle of.             *)
ClosedIsTrue ==
  \A e \in Envs : At(e, "recheck") /\ ~Interrupted(e) /\ frame[e].closed =>
     rd = {} \/ wr = {}

(* The bytes in the pipe, oldest first. *)
InPipe == [k \in 1..((p_wpos - p_rpos) % Word) |-> p_buf[(p_rpos + k - 1) % Size]]

(* Through the wrapping positions and the two-step accesses, the bytes     *)
(* read are those written, in order, and no more than PIPE_SIZE wait.      *)
Chan == INSTANCE Channel WITH Capacity <- Size, given <- sent, waiting <- InPipe, taken <- got

ImplementsChannel == Chan!Spec

(* A reader whose pipe is empty and has no writer left, a writer whose     *)
(* pipe has no reader left, does not spin for ever.  (The other envs that  *)
(* have the same end open could make it: they may be in a dup or a close   *)
(* whenever it asks.) *)
OnlyOneOf(e, end) == \A p \in end : p[1] = e

ReaderSeesEof ==
  \A e \in Envs : pc[e] = "read" /\ wr = {} /\ OnlyOneOf(e, rd) ~> pc[e] = "idle"

WriterSeesClose ==
  \A e \in Envs : pc[e] = "write" /\ rd = {} /\ OnlyOneOf(e, wr) ~> pc[e] = "idle"

(* pipe.c:124: pipe_read returns 0 only when the pipe is closed and        *)
(* nothing in it is unread.                                                *)
ZeroMeansDrained ==
  [][\A e \in Envs : At(e, "recheck") /\ pc'[e] = "idle"
        /\ frame[e].ret = "read" /\ ~frame[e].some => p_rpos = p_wpos]_vars
=============================================================================
