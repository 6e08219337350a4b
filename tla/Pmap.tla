-------------------------------- MODULE Pmap --------------------------------
(***************************************************************************)
(* Physical pages, address spaces and the TLB: kern/pmap.c, kern/tlbex.c,  *)
(* and the system calls that change an address space, under any user       *)
(* program.  The kernel runs with interrupts off, so that a system call or *)
(* a TLB refill is one action.                                             *)
(*                                                                         *)
(* An address is a virtual page number.  The page tables of an env and its *)
(* page directory appear in its own address space, at UVPT: "pt" holds     *)
(* them as entries for the addresses Table(v) and Pgdir, which is what the *)
(* page directory is.  Two neighbouring pages share a TLB entry.           *)
(*                                                                         *)
(* Which env runs, and when, is left open (MosEnv).  An env stands for its *)
(* asid: the live ones have different asids (MosEnv, AsidsExact).  The     *)
(* order of page_free_list is left out, and so are the contents of pages   *)
(* (CowFork) and the addresses shared by all envs at UENVS and UPAGES.     *)
(***************************************************************************)
EXTENDS Integers, FiniteSets

CONSTANTS Envs, Pages,
          Root,     \* the env that mips_init creates
          NVA,      \* pages of user address space below UTOP
          PerTable, \* entries of a page table: 1024
          NASID,    \* address space ids
          NTLB,     \* entries of the TLB
          Perms,    \* sets of flags user programs use
          Nil

ASSUME PmapAssumption ==
  /\ Root \in Envs /\ IsFiniteSet(Envs) /\ IsFiniteSet(Pages) /\ Pages # {}
  /\ Nil \notin Envs /\ Nil \notin Pages
  /\ NVA \in Nat \ {0} /\ NVA % 2 = 0 /\ PerTable \in Nat \ {0} /\ NASID \in Nat \ {0}
  /\ NTLB \in Nat \ {0}
  /\ {} \in Perms /\ {"D"} \in Perms

User     == 0..NVA - 1
Table(v) == NVA + v \div PerTable
Tables   == {Table(v) : v \in User}
Pgdir    == -1
Addr     == User \cup Tables \cup {Pgdir}
Pair(a)  == a \div 2

VARIABLES
  live,           \* the envs that are not ENV_FREE
  parent,         \* the env that env_parent_id denotes, if any
  pt,             \* for each env and address, an entry or Nil
  pp_ref, page_free_list,
  tlb,            \* valid halves of TLB entries: <<env, address, page table entry>>
  panicked

vars == <<live, parent, pt, pp_ref, page_free_list, tlb, panicked>>

Entry == [page : Pages, perm : Perms]

ASSUME NilAssumption == Nil \notin Entry

Unmapped == [a \in Addr |-> Nil]
PagesAt(e, a) == IF pt[e][a] = Nil THEN {} ELSE {pt[e][a].page}
Mappings(p) == {x \in Envs \X Addr : p \in PagesAt(x[1], x[2])}

Init ==
  /\ live = {Root}
  /\ parent = [e \in Envs |-> Nil]
  /\ \E p \in Pages :
       /\ pt = [[e \in Envs |-> Unmapped] EXCEPT ![Root] =
                  [@ EXCEPT ![Pgdir] = [page |-> p, perm |-> {}]]]
       /\ pp_ref = [q \in Pages |-> IF q = p THEN 1 ELSE 0]
       /\ page_free_list = Pages \ {p}
  /\ tlb = {}
  /\ panicked = FALSE

----------------------------------------------------------------------------
(* An env that runs, and those envid2env lets it name. *)
Runs(e) == ~panicked /\ e \in live /\ pt[e][Pgdir] # Nil
Mine(e) == {e} \cup {c \in live : parent[c] = e /\ pt[c][Pgdir] # Nil}

tlb_invalidate_Never(T, e, a) == T \* faulty
tlb_invalidate(T, e, a) == {x \in T : x[1] # e \/ Pair(x[2]) # Pair(a)}

(* page_decref frees a page whose count becomes 0. *)
Released_Always(out, ref) == out \* faulty
Released(out, ref) == {p \in out : ref[p] = 0}

(* Each page of "in" is mapped once more, each of "out" once less; "free"  *)
(* are those on the free list meanwhile.                                   *)
Count(in, out, free) ==
  /\ pp_ref' = [p \in Pages |-> pp_ref[p] + (IF p \in in THEN 1 ELSE 0)
                                          - (IF p \in out THEN 1 ELSE 0)]
  /\ page_free_list' = free \cup Released(out, pp_ref')

(* page_insert of p at a, with "free" on the free list.  It fails when it  *)
(* has no page for the page table. *)
NeedsTable(e, a) == a \in User /\ pt[e][Table(a)] = Nil

Replaced_Kept(e, a) == {} \* faulty: the page that was there is not released
Replaced(e, a) == PagesAt(e, a)

Insert(e, a, p, perm, free) ==
  /\ \E q \in IF NeedsTable(e, a) THEN free ELSE {Nil} :
       /\ pt' = [pt EXCEPT ![e] = [b \in Addr |->
                   IF b = a THEN [page |-> p, perm |-> perm]
                   ELSE IF q # Nil /\ b = Table(a) THEN [page |-> q, perm |-> {}]
                   ELSE pt[e][b]]]
       /\ Count({p, q} \ {Nil}, Replaced(e, a), free \ {q})

page_insert(e, a, p, perm, free) ==
  /\ tlb' = tlb_invalidate(tlb, e, a)
  /\ \/ Insert(e, a, p, perm, free)
     \/ /\ NeedsTable(e, a) /\ free = {}
        /\ page_free_list' = free /\ UNCHANGED <<pt, pp_ref>>

page_remove(e, a) ==
  /\ pt' = [pt EXCEPT ![e] = [@ EXCEPT ![a] = Nil]]
  /\ Count({}, PagesAt(e, a), page_free_list)
  /\ tlb' = IF pt[e][a] = Nil THEN tlb ELSE tlb_invalidate(tlb, e, a)

----------------------------------------------------------------------------
(* The system calls that succeed or fail for lack of memory; the others    *)
(* change nothing. *)
sys_mem_alloc(e, t, v, perm) ==
  /\ Runs(e) /\ t \in Mine(e)
  /\ \E p \in page_free_list : page_insert(t, v, p, perm, page_free_list \ {p})
  /\ UNCHANGED <<live, parent, panicked>>

sys_mem_map(e, s, sv, t, tv, perm) ==
  /\ Runs(e) /\ s \in Mine(e) /\ t \in Mine(e)
  /\ \E p \in PagesAt(s, sv) : page_insert(t, tv, p, perm, page_free_list)
  /\ UNCHANGED <<live, parent, panicked>>

sys_mem_unmap(e, t, v) ==
  /\ Runs(e) /\ t \in Mine(e)
  /\ page_remove(t, v)
  /\ UNCHANGED <<live, parent, panicked>>

(* The page of an IPC: the receiver, which chose tv, can be any env. *)
sys_ipc_try_send(e, sv, t, tv, perm) ==
  /\ Runs(e) /\ t \in live \ {e} /\ pt[t][Pgdir] # Nil
  /\ \E p \in PagesAt(e, sv) : page_insert(t, tv, p, perm, page_free_list)
  /\ UNCHANGED <<live, parent, panicked>>

sys_exofork(e, c) ==
  /\ Runs(e) /\ c \notin live
  /\ Cardinality(live) < NASID
  /\ \E p \in page_free_list :
       /\ pt' = [pt EXCEPT ![c] = [Unmapped EXCEPT ![Pgdir] = [page |-> p, perm |-> {}]]]
       /\ Count({p}, {}, page_free_list \ {p})
  /\ live' = live \cup {c}
  /\ parent' = [parent EXCEPT ![c] = e]
  /\ UNCHANGED <<tlb, panicked>>

(* env_free unmaps every page, then every page table, then the directory,  *)
(* and invalidates the TLB entry of each.  The id of t denotes nobody now. *)
Flushed_UserOnly(t) == {a \in User : pt[t][a] # Nil} \* faulty: not the tables at UVPT
Flushed(t) == {a \in Addr : pt[t][a] # Nil}

sys_env_destroy(e, t) ==
  /\ Runs(e) /\ t \in Mine(e)
  /\ live' = live \ {t}
  /\ parent' = [c \in Envs |-> IF c = t \/ parent[c] = t THEN Nil ELSE parent[c]]
  /\ pt' = [pt EXCEPT ![t] = Unmapped]
  /\ pp_ref' = [p \in Pages |-> pp_ref[p] - Cardinality({a \in Addr : p \in PagesAt(t, a)})]
  /\ page_free_list' =
       page_free_list \cup Released(UNION {PagesAt(t, a) : a \in Addr}, pp_ref')
  /\ tlb' = {x \in tlb : x[1] # t \/ \A a \in Flushed(t) : Pair(x[2]) # Pair(a)}
  /\ UNCHANGED panicked

(* The env accesses an address that the TLB does not have.  _do_tlb_refill *)
(* makes up a page where there is none, then loads the entry and its       *)
(* neighbour in a random slot, where another entry may have been.          *)
Loaded(e, a, m) == {<<e, b, m[b]>> : b \in {c \in Addr : Pair(c) = Pair(a) /\ m[c] # Nil}}

Slots(T) == {<<x[1], Pair(x[2])>> : x \in T}

Refill(e, a, m) ==
  \E victim \in SUBSET Slots(tlb) :
    /\ Cardinality(victim) <= 1
    /\ tlb' = {x \in tlb_invalidate(tlb, e, a) : <<x[1], Pair(x[2])>> \notin victim}
              \cup Loaded(e, a, m)
    /\ Cardinality(Slots(tlb')) <= NTLB

passive_alloc(e, a) ==
  \E p \in page_free_list :
    Insert(e, a, p, IF a \in User THEN {"D"} ELSE {}, page_free_list \ {p})

do_tlb_refill(e, a) ==
  /\ Runs(e)
  /\ \A x \in tlb : x[1] # e \/ x[2] # a
  /\ \/ pt[e][a] # Nil /\ Refill(e, a, pt[e]) /\ UNCHANGED <<pt, pp_ref, page_free_list>>
     \/ pt[e][a] = Nil /\ passive_alloc(e, a) /\ Refill(e, a, pt'[e])
  /\ UNCHANGED <<live, parent, panicked>>

(* panic_on(page_alloc) and panic_on(page_insert) of passive_alloc.        *)
OutOfMemory(e, a) ==
  /\ Runs(e) /\ pt[e][a] = Nil
  /\ Cardinality(page_free_list) < IF NeedsTable(e, a) THEN 2 ELSE 1
  /\ panicked' = TRUE
  /\ UNCHANGED <<live, parent, pt, pp_ref, page_free_list, tlb>>

----------------------------------------------------------------------------
Next ==
  \E e \in Envs :
    \/ \E t \in Envs :
         \/ sys_exofork(e, t) \/ sys_env_destroy(e, t)
         \/ \E v \in User : sys_mem_unmap(e, t, v)
         \/ \E v \in User, perm \in Perms : sys_mem_alloc(e, t, v, perm)
         \/ \E sv, tv \in User, perm \in Perms :
              \/ sys_ipc_try_send(e, sv, t, tv, perm)
              \/ \E s \in Envs : sys_mem_map(e, s, sv, t, tv, perm)
    \/ \E a \in Addr : do_tlb_refill(e, a) \/ OutOfMemory(e, a)

Spec == Init /\ [][Next]_vars

----------------------------------------------------------------------------
TypeOK ==
  /\ live \subseteq Envs
  /\ parent \in [Envs -> Envs \cup {Nil}]
  /\ pt \in [Envs -> [Addr -> Entry \cup {Nil}]]
  /\ pp_ref \in [Pages -> Nat]
  /\ page_free_list \subseteq Pages
  /\ tlb \subseteq Envs \X Addr \X Entry
  /\ panicked \in BOOLEAN

(* pmap.h:17: pp_ref is the number of page table entries, of all envs,     *)
(* that lead to the page (pages of tables and directories included).       *)
RefsExact == \A p \in Pages : pp_ref[p] = Cardinality(Mappings(p))

(* No entry of a page table or of the TLB leads to a page that is on the   *)
(* free list, and could be handed to somebody else.                        *)
NoDangling ==
  \A p \in page_free_list : Mappings(p) = {} /\ \A x \in tlb : x[3].page # p

(* Whatever was mapped, unmapped, sent or destroyed since an entry was     *)
(* loaded, by the env itself or another: the TLB agrees with the page      *)
(* table, and holds nothing of an env that is gone.                        *)
TlbCoherent == \A x \in tlb : pt[x[1]][x[2]] = x[3]

(* A page table or directory is mapped at its place at UVPT and nowhere    *)
(* else: no call lets a user program write one.                            *)
TablesPrivate ==
  \A e \in Envs, a \in Tables \cup {Pgdir}, p \in Pages :
    p \in PagesAt(e, a) => Mappings(p) = {<<e, a>>} /\ "D" \notin pt[e][a].perm
=============================================================================
