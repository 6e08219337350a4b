------------------------------ MODULE CowFork ------------------------------
(***************************************************************************)
(* fork and copy-on-write: user/lib/fork.c with the TLB Mod exception of   *)
(* kern/tlbex.c.  They run in user mode: a step is a system call, or a     *)
(* load or store of a word, and envs are preempted between any two.        *)
(*                                                                         *)
(* An address is a virtual page number below USTACKTOP: UCOW is the lowest *)
(* that is used, Stack the highest.  The stack is one page, of which Dead  *)
(* is the part below the frame of fork's caller: what is there before a    *)
(* call is never read.  The compiler does not optimise, so every call in   *)
(* fork, duppage and the wrappers of system calls stores there.  An entry  *)
(* of a page table is what the TLB has (Pmap, TlbCoherent), a page is free *)
(* when nothing leads to it (Pmap, RefsExact); the page tables themselves, *)
(* UXSTACK, text, envs that exit, and an allocation that fails (the kernel *)
(* panics when cow_entry then copies to UCOW) are left out.                *)
(***************************************************************************)
EXTENDS Integers, FiniteSets

CONSTANTS Envs, Root,
          Top,       \* the address of the stack: VPN(USTACKTOP) - 1
          NPages,    \* physical pages
          Library,   \* pages mapped PTE_D | PTE_LIBRARY: descriptors and file data
          Vars,      \* pages mapped PTE_D | PTE_COW: localVar of sh.c
          NWords,    \* words of a page
          MaxWrites  \* bound: stores in a behaviour

UCOW  == 0
Stack == Top
Addr  == 0..Top
Pages == 1..NPages
Words == 1..NWords
Dead  == NWords

ASSUME CowAssumption ==
  /\ Root \in Envs /\ IsFiniteSet(Envs)
  /\ Top \in Nat \ {0} /\ NPages \in Nat /\ NPages >= Top /\ NWords \in Nat \ {0}
  /\ Library \cup Vars \subseteq 1..Top - 1 /\ Library \cap Vars = {}
  /\ MaxWrites \in Nat

VARIABLES
  pt,             \* for each env and address, an entry
  mem,            \* what is in each page
  state,          \* of an env: "unused", "embryo" (forked, not started), "running"
  tlb_mod_entry,  \* the envs whose TLB Mod handler is cow_entry
  pc, frame,      \* where an env is in fork, and fork's locals
  cow,            \* where it is in cow_entry, and that one's locals
  writes

vars == <<pt, mem, state, tlb_mod_entry, pc, frame, cow, writes>>

Values  == 0..MaxWrites
Blank   == [w \in Words |-> 0]
Flags   == {"D", "COW", "LIBRARY"}
Invalid == [page |-> 0, perm |-> {}]
NoFault == [pc |-> "none", va |-> 0, perm |-> {}, word |-> 1]
NoFork  == [va |-> 0, perm |-> {}, child |-> Root]

Loaded(v) == [page |-> v,
              perm |-> {"D"} \cup (IF v \in Library THEN {"LIBRARY"} ELSE {})
                             \cup (IF v \in Vars THEN {"COW"} ELSE {})]

Init ==
  /\ pt = [e \in Envs |-> [v \in Addr |->
             IF e = Root /\ v # UCOW THEN Loaded(v) ELSE Invalid]]
  /\ mem = [p \in Pages |-> Blank]
  /\ state = [e \in Envs |-> IF e = Root THEN "running" ELSE "unused"]
  /\ tlb_mod_entry = {}
  /\ pc = [e \in Envs |-> "user"]
  /\ frame = [e \in Envs |-> NoFork]
  /\ cow = [e \in Envs |-> NoFault]
  /\ writes = 0

----------------------------------------------------------------------------
Mapped(e, v) == pt[e][v].page # 0
Writable(e, v) == Mapped(e, v) /\ "D" \in pt[e][v].perm

Users(p) == {x \in Envs \X Addr : pt[x[1]][x[2]].page = p}
FreePages == {p \in Pages : Users(p) = {}}
NewPage == CHOOSE p \in FreePages : \A q \in FreePages : p <= q

(* mem_alloc and mem_map, unmap. *)
Map(e, v, p, perm) == pt' = [pt EXCEPT ![e] = [@ EXCEPT ![v] = [page |-> p, perm |-> perm]]]
Unmap(e, v) == pt' = [pt EXCEPT ![e] = [@ EXCEPT ![v] = Invalid]]

InUser(e) == state[e] = "running" /\ cow[e].pc = "none"
At(e, label) == InUser(e) /\ pc[e] = label
Handles(e, label) == state[e] = "running" /\ cow[e].pc = label

(* Where the code that e executes may store: anywhere, but in fork only in *)
(* the frames below that of fork's caller. *)
MayStore(e, v, w) == InUser(e) /\ (pc[e] = "user" \/ (v = Stack /\ w = Dead))

Store(e, v, w) ==
  /\ MayStore(e, v, w) /\ Writable(e, v)
  /\ writes < MaxWrites
  /\ writes' = writes + 1
  /\ mem' = [mem EXCEPT ![pt[e][v].page] = [@ EXCEPT ![w] = writes']]
  /\ UNCHANGED <<pt, state, tlb_mod_entry, pc, frame, cow>>

(* A store to a page without PTE_D enters cow_entry, and is repeated when  *)
(* that is done.  Without a handler the kernel panics (HandlerSet).        *)
do_tlb_mod(e, v, w) ==
  /\ MayStore(e, v, w) /\ Mapped(e, v) /\ ~Writable(e, v)
  /\ e \in tlb_mod_entry
  /\ cow' = [cow EXCEPT ![e] = [pc |-> "alloc", va |-> v, perm |-> {}, word |-> 1]]
  /\ UNCHANGED <<pt, mem, state, tlb_mod_entry, pc, frame, writes>>

----------------------------------------------------------------------------
(* cow_entry.  Only e changes its page table while it runs.  A page without *)
(* PTE_COW panics it (HandlerSet).                                         *)
Copied(perm) == (perm \ {"COW"}) \cup {"D"}

cow_alloc(e) ==
  /\ Handles(e, "alloc") /\ FreePages # {} /\ "COW" \in pt[e][cow[e].va].perm
  /\ LET perm == Copied(pt[e][cow[e].va].perm)
     IN /\ Map(e, UCOW, NewPage, perm)
        /\ mem' = [mem EXCEPT ![NewPage] = Blank]
        /\ cow' = [cow EXCEPT ![e] = [pc |-> "copy", va |-> cow[e].va, perm |-> perm, word |-> 1]]
  /\ UNCHANGED <<state, tlb_mod_entry, pc, frame, writes>>

(* The page the copy is taken from. *)
Source(e) == pt[e][cow[e].va].page

NextWord(w) == IF w = NWords THEN 1 ELSE w + 1

cow_copy(e) ==
  /\ Handles(e, "copy")
  /\ LET w == cow[e].word
     IN /\ mem' = [mem EXCEPT ![pt[e][UCOW].page] = [@ EXCEPT ![w] = mem[Source(e)][w]]]
        /\ cow' = [cow EXCEPT ![e] = [pc |-> IF w = NWords THEN "map" ELSE "copy", va |-> cow[e].va,
                                      perm |-> cow[e].perm, word |-> NextWord(w)]]
  /\ UNCHANGED <<pt, state, tlb_mod_entry, pc, frame, writes>>

cow_map(e) ==
  /\ Handles(e, "map")
  /\ Map(e, cow[e].va, pt[e][UCOW].page, cow[e].perm)
  /\ cow' = [cow EXCEPT ![e] = [pc |-> "unmap", va |-> cow[e].va, perm |-> {}, word |-> 1]]
  /\ UNCHANGED <<mem, state, tlb_mod_entry, pc, frame, writes>>

cow_unmap(e) ==
  /\ Handles(e, "unmap")
  /\ Unmap(e, UCOW)
  /\ cow' = [cow EXCEPT ![e] = NoFault]
  /\ UNCHANGED <<mem, state, tlb_mod_entry, pc, frame, writes>>

----------------------------------------------------------------------------
(* fork, one system call at a time.  Each is called from C code, which has *)
(* stored its frame: the stack page is writable, or a fault comes first.   *)
Calls(e, label) == At(e, label) /\ Writable(e, Stack)

Goto(e, label, va, perm, child) ==
  /\ pc' = [pc EXCEPT ![e] = label]
  /\ frame' = [frame EXCEPT ![e] = [va |-> va, perm |-> perm, child |-> child]]

fork(e, c) ==
  /\ Calls(e, "user") /\ state[c] = "unused"
  /\ state' = [state EXCEPT ![c] = "embryo"]
  /\ tlb_mod_entry' = (tlb_mod_entry \cup {e}) \ {c}
  /\ Goto(e, "scan", 0, {}, c)
  /\ UNCHANGED <<pt, mem, cow, writes>>

NextPage(va) == va + 1

skip(e) ==
  /\ At(e, "scan") /\ frame[e].va <= Top /\ ~Mapped(e, frame[e].va)
  /\ Goto(e, "scan", NextPage(frame[e].va), {}, frame[e].child)
  /\ UNCHANGED <<pt, mem, state, tlb_mod_entry, cow, writes>>

duppage(e) ==
  /\ Calls(e, "scan") /\ frame[e].va <= Top /\ Mapped(e, frame[e].va)
  /\ Goto(e, "map", frame[e].va, pt[e][frame[e].va].perm, frame[e].child)
  /\ UNCHANGED <<pt, mem, state, tlb_mod_entry, cow, writes>>

(* The condition of duppage, and the flags the page is given to the child. *)
Private_EvenLibrary(perm) == "D" \in perm /\ "COW" \notin perm \* faulty
Private(perm) == "D" \in perm /\ "LIBRARY" \notin perm /\ "COW" \notin perm
Given(perm) == IF Private(perm) THEN (perm \ {"D"}) \cup {"COW"} ELSE perm

(* A private page is mapped to the child, then again to the parent itself. *)
Target_ParentFirst(e, step) == IF step = 1 THEN e ELSE frame[e].child \* faulty
Target(e, step) == IF step = 1 THEN frame[e].child ELSE e

duppage_1(e) ==
  /\ Calls(e, "map")
  /\ LET f == frame[e]
     IN IF Private(f.perm)
        THEN /\ Map(Target(e, 1), f.va, pt[e][f.va].page, Given(f.perm))
             /\ Goto(e, "map2", f.va, f.perm, f.child)
        ELSE /\ Map(f.child, f.va, pt[e][f.va].page, f.perm)
             /\ Goto(e, "scan", NextPage(f.va), {}, f.child)
  /\ UNCHANGED <<mem, state, tlb_mod_entry, cow, writes>>

duppage_2(e) ==
  /\ Calls(e, "map2")
  /\ Map(Target(e, 2), frame[e].va, pt[e][frame[e].va].page, Given(frame[e].perm))
  /\ Goto(e, "scan", NextPage(frame[e].va), {}, frame[e].child)
  /\ UNCHANGED <<mem, state, tlb_mod_entry, cow, writes>>

Armed_Self(e) == tlb_mod_entry \cup {e} \* faulty: the env argument is 0
Armed(e) == tlb_mod_entry \cup {frame[e].child}

set_tlb_mod_entry(e) ==
  /\ Calls(e, "scan") /\ frame[e].va = Top + 1
  /\ tlb_mod_entry' = Armed(e)
  /\ Goto(e, "start", frame[e].va, {}, frame[e].child)
  /\ UNCHANGED <<pt, mem, state, cow, writes>>

set_env_status(e) ==
  /\ Calls(e, "start")
  /\ state' = [state EXCEPT ![frame[e].child] = "running"]
  /\ Goto(e, "user", 0, {}, Root)
  /\ UNCHANGED <<pt, mem, tlb_mod_entry, cow, writes>>

----------------------------------------------------------------------------
Next ==
  \E e \in Envs :
    \/ \E v \in Addr, w \in Words : Store(e, v, w) \/ do_tlb_mod(e, v, w)
    \/ cow_alloc(e) \/ cow_copy(e) \/ cow_map(e) \/ cow_unmap(e)
    \/ \E c \in Envs : fork(e, c)
    \/ skip(e) \/ duppage(e) \/ duppage_1(e) \/ duppage_2(e)
    \/ set_tlb_mod_entry(e) \/ set_env_status(e)

Spec == Init /\ [][Next]_vars

----------------------------------------------------------------------------
TypeOK ==
  /\ pt \in [Envs -> [Addr -> [page : Pages \cup {0}, perm : SUBSET Flags]]]
  /\ mem \in [Pages -> [Words -> Values]]
  /\ state \in [Envs -> {"unused", "embryo", "running"}]
  /\ tlb_mod_entry \subseteq Envs
  /\ pc \in [Envs -> {"user", "scan", "map", "map2", "start"}]
  /\ frame \in [Envs -> [va : 0..Top + 1, perm : SUBSET Flags, child : Envs]]
  /\ cow \in [Envs -> [pc : {"none", "alloc", "copy", "map", "unmap"}, va : Addr,
                       perm : SUBSET Flags, word : Words]]
  /\ writes \in Values

Running == {e \in Envs : state[e] = "running"}
Shared == Library \cup Vars

(* What an env can store to, no other env that runs has, at any address,   *)
(* unless both have it as the same shared page; nor does the env itself    *)
(* have it twice, but when it has just copied it from UCOW.                *)
WritableAlone ==
  \A e, f \in Running, u, v \in Addr :
    Writable(e, u) /\ pt[f][v].page = pt[e][u].page =>
      \/ u = v /\ (e = f \/ u \in Shared)
      \/ e = f /\ {u, v} = {UCOW, cow[e].va}

(* do_tlb_mod finds a handler, and cow_entry a copy-on-write page: no store *)
(* of a running env to a page it has panics the kernel or the env.         *)
HandlerSet ==
  \A e \in Running, v \in Addr :
    Mapped(e, v) /\ ~Writable(e, v) => e \in tlb_mod_entry /\ "COW" \in pt[e][v].perm

(* Seen through the page tables, the envs have memories of their own.      *)
Own ==
  [e \in Envs |-> [v \in 1..Top |->
     IF state[e] = "running" /\ Mapped(e, v) THEN mem[pt[e][v].page] ELSE Blank]]

Private_memories ==
  INSTANCE Memories WITH Addr <- 1..Top, Blank <- 0, alive <- Running, own <- Own

ImplementsMemories == Private_memories!Spec
=============================================================================
