----------------------------- MODULE CowProofs -----------------------------
(***************************************************************************)
(* Proofs about CowFork, for every number of envs, pages and addresses.    *)
(***************************************************************************)
EXTENDS CowFork, WellFoundedInduction, TLAPS

Entry == [page : Pages \cup {0}, perm : SUBSET Flags]
SharedPerm(v) == Loaded(v).perm

(* What can be in a page table: a shared page keeps the flags it was       *)
(* loaded with, any other page is writable or copy-on-write, never both.   *)
FlagsOK ==
  \A e \in Envs, v \in Addr :
    IF ~Mapped(e, v) THEN pt[e][v].perm = {}
    ELSE IF v \in Shared THEN pt[e][v].perm = SharedPerm(v)
    ELSE pt[e][v].perm = {"D"} \/ pt[e][v].perm = {"COW"}

(* What cow_entry knows while it runs. *)
Copies(e) ==
  /\ cow[e].pc # "none" => /\ state[e] = "running"
                           /\ cow[e].va \notin Shared \cup {UCOW}
                           /\ Mapped(e, cow[e].va)
  /\ cow[e].pc \in {"alloc", "copy", "map"} => ~Writable(e, cow[e].va)
  /\ cow[e].pc \in {"copy", "map"} => cow[e].perm = {"D"} /\ Writable(e, UCOW)
  /\ Mapped(e, UCOW) <=> cow[e].pc \in {"copy", "map", "unmap"}

CowOK == \A e \in Envs : Copies(e)

(* What fork knows while it runs: its child waits, and is nobody else's;   *)
(* between duppage's look at an entry and its last call nothing faults,    *)
(* because the stack is writable.                                          *)
Forks(e) ==
  /\ pc[e] # "user" => /\ state[e] = "running" /\ e \in tlb_mod_entry
                       /\ state[frame[e].child] = "embryo"
  /\ pc[e] = "start" => frame[e].child \in tlb_mod_entry
  /\ pc[e] \in {"map", "map2"} =>
       /\ cow[e].pc = "none" /\ Writable(e, Stack)
       /\ frame[e].va \in Addr \ {UCOW} /\ Mapped(e, frame[e].va)
       /\ frame[e].perm = pt[e][frame[e].va].perm
  /\ pc[e] = "map2" => Private(frame[e].perm)

OneParent ==
  \A e, f \in Envs :
    pc[e] # "user" /\ pc[f] # "user" /\ frame[f].child = frame[e].child => f = e

ForkOK == OneParent /\ \A e \in Envs : Forks(e)

(* An env that does not run yet has nothing of its own to store to. *)
EmbryoOK ==
  \A e \in Envs : state[e] # "running" => \A v \in Addr \ Shared : ~Writable(e, v)

(* WritableAlone for all envs, with the two moments at which it is true of *)
(* running envs only because of what they are doing.                       *)
Copying(e, u, v) == cow[e].pc = "unmap" /\ {u, v} = {UCOW, cow[e].va}
Giving(e, f, u, v) == pc[e] = "map2" /\ f = frame[e].child /\ u = frame[e].va /\ v = frame[e].va

AllAlone ==
  \A e, f \in Envs, u, v \in Addr :
    Writable(e, u) /\ pt[f][v].page = pt[e][u].page =>
      \/ u = v /\ (e = f \/ u \in Shared)
      \/ e = f /\ Copying(e, u, v)
      \/ Giving(e, f, u, v)

CowInv == TypeOK /\ FlagsOK /\ CowOK /\ ForkOK /\ EmbryoOK /\ AllAlone /\ HandlerSet

----------------------------------------------------------------------------
LEMMA LeastNumber ==
  ASSUME NEW T, T \subseteq Nat, T # {}
  PROVE  \E x \in T : \A y \in T : x <= y
<1> DEFINE R == {ss \in Nat \X Nat : ss[1] < ss[2]}
<1>1. \E x \in T : \A y \in T : ~ (<<y, x>> \in R)
  <2> HIDE DEF R
  <2>1. IsWellFoundedOn(R, Nat)
    BY NatLessThanWellFounded, Zenon DEF R, OpToRel
  <2> QED BY <2>1, WFMin
<1>2. ASSUME NEW x \in T, NEW y \in T, <<y, x>> \notin R
      PROVE  x <= y
  <2>1. x \in Nat /\ y \in Nat
    OBVIOUS
  <2>2. <<y, x>> \in Nat \X Nat /\ ~(y < x)
    BY <2>1, <1>2
  <2> QED BY <2>1, <2>2
<1> HIDE DEF R
<1> QED BY <1>1, <1>2

(* mem_alloc finds a free page when there is one. *)
LEMMA NewPageIsFree ==
  ASSUME FreePages # {}
  PROVE  NewPage \in FreePages
<1>1. FreePages \subseteq Nat
  BY CowAssumption DEF FreePages, Pages
<1>2. \E p \in FreePages : \A q \in FreePages : p <= q
  BY <1>1, LeastNumber
<1> QED BY <1>2 DEF NewPage

LEMMA Places ==
  /\ UCOW \in Addr /\ Stack \in Addr /\ UCOW # Stack
  /\ UCOW \notin Shared /\ Stack \notin Shared /\ Shared \subseteq Addr
BY CowAssumption DEF UCOW, Stack, Addr, Shared

(* What the flags in a page table become. *)
LEMMA FlagsFacts ==
  /\ Copied({"D"}) = {"D"} /\ Copied({"COW"}) = {"D"} /\ Copied({}) = {"D"}
  /\ \A perm \in SUBSET Flags : Given(perm) \in SUBSET Flags /\ Copied(perm) \in SUBSET Flags
  /\ Private({"D"}) /\ ~Private({"COW"}) /\ Given({"D"}) = {"COW"} /\ Given({"COW"}) = {"COW"}
  /\ \A v \in Shared : ~Private(SharedPerm(v)) /\ "D" \in SharedPerm(v)
                       /\ SharedPerm(v) \in SUBSET Flags
<1>1. Copied({"D"}) = {"D"} /\ Copied({"COW"}) = {"D"} /\ Copied({}) = {"D"}
  BY DEF Copied
<1>2. \A perm \in SUBSET Flags : Given(perm) \in SUBSET Flags /\ Copied(perm) \in SUBSET Flags
  BY DEF Given, Copied, Flags
<1>3. Private({"D"}) /\ ~Private({"COW"}) /\ Given({"D"}) = {"COW"} /\ Given({"COW"}) = {"COW"}
  BY DEF Given, Private
<1>4. \A v \in Shared : ~Private(SharedPerm(v)) /\ "D" \in SharedPerm(v)
                        /\ SharedPerm(v) \in SUBSET Flags
  BY DEF Private, SharedPerm, Loaded, Shared, Flags
<1> QED BY <1>1, <1>2, <1>3, <1>4

----------------------------------------------------------------------------
LEMMA InitInv == Init => CowInv
<1> SUFFICES ASSUME Init PROVE CowInv
  OBVIOUS
<1> USE CowAssumption, Places
<1>1. \A e \in Envs, v \in Addr : pt[e][v] = IF e = Root /\ v # UCOW THEN Loaded(v) ELSE Invalid
  BY DEF Init
<1>2. \A v \in Addr : v # UCOW => v \in Pages /\ Loaded(v) \in Entry
  BY DEF Addr, UCOW, Pages, Loaded, Entry, Flags
<1>3. TypeOK
  <2>1. pt \in [Envs -> [Addr -> Entry]]
    <3>1. Invalid \in Entry
      BY DEF Invalid, Entry
    <3> QED BY <1>2, <3>1 DEF Init
  <2>2. mem \in [Pages -> [Words -> Values]]
    BY DEF Init, Blank, Values
  <2>3. frame \in [Envs -> [va : 0..Top + 1, perm : SUBSET Flags, child : Envs]]
    BY DEF Init, NoFork
  <2>4. cow \in [Envs -> [pc : {"none", "alloc", "copy", "map", "unmap"}, va : Addr,
                          perm : SUBSET Flags, word : Words]]
    BY DEF Init, NoFault, Words, UCOW
  <2> QED BY <2>1, <2>2, <2>3, <2>4 DEF TypeOK, Entry, Init, Values
<1>10. \A e \in Envs, v \in Addr : Mapped(e, v) <=> e = Root /\ v # UCOW
  <2>1. Invalid.page = 0 /\ \A v \in Addr : Loaded(v).page = v
    BY DEF Invalid, Loaded
  <2> QED BY <1>1, <2>1 DEF Mapped, UCOW
<1>11. \A v \in Addr \ {UCOW} : pt[Root][v] = Loaded(v) /\ pt[Root][v].page = v
  BY <1>1 DEF Loaded
<1>4. FlagsOK
  <2> SUFFICES ASSUME NEW e \in Envs, NEW v \in Addr
               PROVE  IF ~Mapped(e, v) THEN pt[e][v].perm = {}
                      ELSE IF v \in Shared THEN pt[e][v].perm = SharedPerm(v)
                      ELSE pt[e][v].perm = {"D"} \/ pt[e][v].perm = {"COW"}
    BY DEF FlagsOK
  <2>1. CASE ~Mapped(e, v)
    BY <2>1, <1>1, <1>10 DEF Invalid
  <2>2. CASE Mapped(e, v)
    <3>1. pt[e][v].perm = SharedPerm(v)
      BY <2>2, <1>10, <1>11 DEF SharedPerm
    <3>2. v \notin Shared => SharedPerm(v) = {"D"}
      BY DEF SharedPerm, Loaded, Shared
    <3> QED BY <3>1, <3>2, <2>2
  <2> QED BY <2>1, <2>2
<1>5. CowOK
  BY <1>1 DEF CowOK, Copies, Init, NoFault, Mapped, Invalid
<1>6. ForkOK
  BY DEF ForkOK, Forks, OneParent, Init
<1>7. EmbryoOK
  BY <1>1 DEF EmbryoOK, Init, Writable, Mapped, Invalid
<1>8. AllAlone
  <2> SUFFICES ASSUME NEW e \in Envs, NEW f \in Envs, NEW u \in Addr, NEW v \in Addr,
                      Writable(e, u), pt[f][v].page = pt[e][u].page
               PROVE  u = v /\ e = f
    BY DEF AllAlone
  <2>1. Mapped(e, u) /\ Mapped(f, v)
    BY DEF Writable, Mapped
  <2> QED BY <2>1, <1>10, <1>11
<1>9. HandlerSet
  BY <1>1, <1>2 DEF HandlerSet, Running, Writable, Mapped, Init, Loaded, Invalid, Pages
<1> QED BY <1>3, <1>4, <1>5, <1>6, <1>7, <1>8, <1>9 DEF CowInv

----------------------------------------------------------------------------
(* Each step changes one entry of one page table at most. *)
Sets(e, v, x) ==
  /\ pt' \in [Envs -> [Addr -> Entry]]
  /\ pt'[e][v] = x
  /\ \A f \in Envs, u \in Addr : f # e \/ u # v => pt'[f][u] = pt[f][u]

LEMMA AllocAt ==
  ASSUME TypeOK, NEW e \in Envs, cow_alloc(e)
  PROVE  /\ NewPage \in FreePages /\ NewPage \in Pages
         /\ Sets(e, UCOW, [page |-> NewPage, perm |-> Copied(pt[e][cow[e].va].perm)])
<1>1. NewPage \in FreePages /\ NewPage \in Pages
  BY NewPageIsFree DEF cow_alloc, FreePages
<1>2. pt \in [Envs -> [Addr -> Entry]] /\ cow[e].va \in Addr
  BY DEF TypeOK, Entry
<1>3. Copied(pt[e][cow[e].va].perm) \in SUBSET Flags
  BY <1>2, FlagsFacts DEF Entry
<1>4. Map(e, UCOW, NewPage, Copied(pt[e][cow[e].va].perm))
  BY DEF cow_alloc
<1> QED BY <1>1, <1>2, <1>3, <1>4, Places DEF Map, Entry, Sets

LEMMA CowMapAt ==
  ASSUME TypeOK, NEW e \in Envs, cow_map(e)
  PROVE  Sets(e, cow[e].va, [page |-> pt[e][UCOW].page, perm |-> cow[e].perm])
<1>1. pt \in [Envs -> [Addr -> Entry]] /\ cow[e].va \in Addr /\ cow[e].perm \in SUBSET Flags
  BY DEF TypeOK, Entry
<1>2. pt[e][UCOW].page \in Pages \cup {0}
  BY <1>1, Places DEF Entry
<1>3. Map(e, cow[e].va, pt[e][UCOW].page, cow[e].perm)
  BY DEF cow_map
<1> QED BY <1>1, <1>2, <1>3 DEF Map, Entry, Sets

LEMMA CowUnmapAt ==
  ASSUME TypeOK, NEW e \in Envs, cow_unmap(e)
  PROVE  Sets(e, UCOW, Invalid)
<1>1. pt \in [Envs -> [Addr -> Entry]] /\ Unmap(e, UCOW)
  BY DEF TypeOK, Entry, cow_unmap
<1> QED BY <1>1, Places DEF Unmap, Entry, Invalid, Sets

(* The first call of duppage gives the child the parent's page; the second *)
(* takes PTE_D from the parent.                                            *)
LEMMA Duppage1At ==
  ASSUME TypeOK, ForkOK, NEW e \in Envs, duppage_1(e)
  PROVE  Sets(frame[e].child, frame[e].va, [page |-> pt[e][frame[e].va].page, perm |-> Given(frame[e].perm)])
<1>1. pt \in [Envs -> [Addr -> Entry]] /\ frame[e].child \in Envs /\ frame[e].perm \in SUBSET Flags
  BY DEF TypeOK, Entry
<1>2. frame[e].va \in Addr
  BY DEF ForkOK, Forks, duppage_1, Calls, At
<1>3. pt[e][frame[e].va].page \in Pages \cup {0} /\ Given(frame[e].perm) \in SUBSET Flags
  BY <1>1, <1>2, FlagsFacts DEF Entry
<1>4. Map(frame[e].child, frame[e].va, pt[e][frame[e].va].page, Given(frame[e].perm))
  BY DEF duppage_1, Given, Target
<1> QED BY <1>1, <1>2, <1>3, <1>4 DEF Map, Entry, Sets

LEMMA Duppage2At ==
  ASSUME TypeOK, ForkOK, NEW e \in Envs, duppage_2(e)
  PROVE  Sets(e, frame[e].va, [page |-> pt[e][frame[e].va].page, perm |-> Given(frame[e].perm)])
<1>1. pt \in [Envs -> [Addr -> Entry]] /\ frame[e].perm \in SUBSET Flags
  BY DEF TypeOK, Entry
<1>2. frame[e].va \in Addr
  BY DEF ForkOK, Forks, duppage_2, Calls, At
<1>3. pt[e][frame[e].va].page \in Pages \cup {0} /\ Given(frame[e].perm) \in SUBSET Flags
  BY <1>1, <1>2, FlagsFacts DEF Entry
<1>4. Map(e, frame[e].va, pt[e][frame[e].va].page, Given(frame[e].perm))
  BY DEF duppage_2, Target
<1> QED BY <1>1, <1>2, <1>3, <1>4 DEF Map, Entry, Sets

(* The steps that leave the page tables alone. *)
QuietStep ==
  \E e \in Envs :
    \/ \E v \in Addr, w \in Words : Store(e, v, w) \/ do_tlb_mod(e, v, w)
    \/ cow_copy(e) \/ skip(e) \/ duppage(e) \/ set_tlb_mod_entry(e) \/ set_env_status(e)
    \/ \E c \in Envs : fork(e, c)

LEMMA Quiet == QuietStep => pt' = pt
BY DEF QuietStep, Store, do_tlb_mod, cow_copy, skip, duppage, set_tlb_mod_entry, set_env_status, fork

LEMMA Steps ==
  Next => \/ QuietStep
          \/ \E e \in Envs : cow_alloc(e) \/ cow_map(e) \/ cow_unmap(e) \/ duppage_1(e) \/ duppage_2(e)
BY DEF Next, QuietStep

----------------------------------------------------------------------------
LEMMA TypeStep ==
  ASSUME CowInv, Next
  PROVE  TypeOK'
<1> DEFINE Frames == [va : 0..Top + 1, perm : SUBSET Flags, child : Envs]
           Faults == [pc : {"none", "alloc", "copy", "map", "unmap"}, va : Addr,
                      perm : SUBSET Flags, word : Words]
<1>1. TypeOK /\ CowOK /\ ForkOK
  BY DEF CowInv
<1>2. pt' \in [Envs -> [Addr -> Entry]]
  <2>1. CASE QuietStep
    BY <1>1, <2>1, Quiet DEF TypeOK, Entry
  <2>2. ASSUME NEW e \in Envs,
               cow_alloc(e) \/ cow_map(e) \/ cow_unmap(e) \/ duppage_1(e) \/ duppage_2(e)
        PROVE  pt' \in [Envs -> [Addr -> Entry]]
    BY <1>1, <2>2, AllocAt, CowMapAt, CowUnmapAt, Duppage1At, Duppage2At DEF Sets
  <2> QED BY <2>1, <2>2, Steps
<1>3. mem' \in [Pages -> [Words -> Values]] /\ writes' \in Values
  <2>1. ASSUME NEW e \in Envs, NEW v \in Addr, NEW w \in Words, Store(e, v, w)
        PROVE  mem' \in [Pages -> [Words -> Values]] /\ writes' \in Values
    <3>1. writes' \in Values /\ writes' = writes + 1
      BY <1>1, <2>1, CowAssumption DEF TypeOK, Store, Values
    <3> QED BY <1>1, <2>1, <3>1 DEF TypeOK, Store
  <2>2. ASSUME NEW e \in Envs, cow_alloc(e)
        PROVE  mem' \in [Pages -> [Words -> Values]] /\ writes' \in Values
    <3>1. Blank \in [Words -> Values]
      BY CowAssumption DEF Blank, Values
    <3> QED BY <1>1, <2>2, <3>1 DEF TypeOK, cow_alloc
  <2>3. ASSUME NEW e \in Envs, cow_copy(e)
        PROVE  mem' \in [Pages -> [Words -> Values]] /\ writes' \in Values
    <3>1. cow[e].word \in Words /\ cow[e].va \in Addr /\ Mapped(e, cow[e].va)
      BY <1>1, <2>3 DEF TypeOK, CowOK, Copies, cow_copy, Handles
    <3>2. Source(e) \in Pages
      BY <1>1, <3>1 DEF TypeOK, Source, Mapped
    <3>3. mem[Source(e)][cow[e].word] \in Values
      BY <1>1, <3>1, <3>2 DEF TypeOK
    <3> QED BY <1>1, <2>3, <3>3 DEF TypeOK, cow_copy
  <2>4. ASSUME mem' = mem, writes' = writes
        PROVE  mem' \in [Pages -> [Words -> Values]] /\ writes' \in Values
    BY <1>1, <2>4 DEF TypeOK
  <2> QED BY <2>1, <2>2, <2>3, <2>4
        DEF Next, do_tlb_mod, cow_map, cow_unmap, fork, skip, duppage, duppage_1, duppage_2,
            set_tlb_mod_entry, set_env_status
<1>4. /\ state' \in [Envs -> {"unused", "embryo", "running"}]
      /\ tlb_mod_entry' \subseteq Envs
      /\ pc' \in [Envs -> {"user", "scan", "map", "map2", "start"}]
  <2>1. ASSUME NEW e \in Envs, duppage_1(e)
        PROVE  pc' \in [Envs -> {"user", "scan", "map", "map2", "start"}]
    BY <1>1, <2>1 DEF TypeOK, duppage_1, Goto
  <2>2. ASSUME NEW e \in Envs, set_tlb_mod_entry(e)
        PROVE  tlb_mod_entry' \subseteq Envs
    BY <1>1, <2>2 DEF TypeOK, set_tlb_mod_entry, Armed
  <2>3. ASSUME NEW e \in Envs, NEW c \in Envs, fork(e, c)
        PROVE  tlb_mod_entry' \subseteq Envs
    BY <1>1, <2>3 DEF TypeOK, fork
  <2>4. tlb_mod_entry' \subseteq Envs
    BY <1>1, <2>2, <2>3 DEF TypeOK, Next, Store, do_tlb_mod, cow_alloc, cow_copy, cow_map, cow_unmap,
       skip, duppage, duppage_1, duppage_2, set_env_status
  <2>5. pc' \in [Envs -> {"user", "scan", "map", "map2", "start"}]
    BY <1>1, <2>1 DEF TypeOK, Next, Store, do_tlb_mod, cow_alloc, cow_copy, cow_map, cow_unmap,
       fork, skip, duppage, duppage_2, set_tlb_mod_entry, set_env_status, Goto
  <2>6. ASSUME NEW e \in Envs, set_env_status(e)
        PROVE  state' \in [Envs -> {"unused", "embryo", "running"}]
    BY <1>1, <2>6 DEF TypeOK, set_env_status
  <2>7. ASSUME NEW e \in Envs, NEW c \in Envs, fork(e, c)
        PROVE  state' \in [Envs -> {"unused", "embryo", "running"}]
    BY <1>1, <2>7 DEF TypeOK, fork
  <2>8. state' = state => state' \in [Envs -> {"unused", "embryo", "running"}]
    BY <1>1 DEF TypeOK
  <2>9. state' \in [Envs -> {"unused", "embryo", "running"}]
    BY <2>6, <2>7, <2>8 DEF Next, Store, do_tlb_mod, cow_alloc, cow_copy, cow_map, cow_unmap,
       skip, duppage, duppage_1, duppage_2, set_tlb_mod_entry
  <2> QED BY <2>4, <2>5, <2>9
<1>5. frame' \in [Envs -> Frames]
  <2>1. ASSUME NEW e \in Envs, NEW c \in Envs, fork(e, c)
        PROVE  frame' \in [Envs -> Frames]
    BY <1>1, <2>1, CowAssumption DEF TypeOK, fork, Goto
  <2>2. ASSUME NEW e \in Envs
        PROVE  frame[e].va \in 0..Top + 1 /\ frame[e].child \in Envs /\ frame[e].perm \in SUBSET Flags
    BY <1>1 DEF TypeOK
  <2>3. ASSUME NEW e \in Envs, skip(e) \/ duppage(e) \/ duppage_1(e) \/ duppage_2(e)
        PROVE  frame' \in [Envs -> Frames]
    <3>1. frame[e].va \in Addr
      BY <1>1, <2>2, <2>3, CowAssumption
         DEF ForkOK, Forks, skip, duppage, duppage_1, duppage_2, Calls, At, Addr
    <3>2. NextPage(frame[e].va) \in 0..Top + 1
      BY <3>1, CowAssumption DEF NextPage, Addr
    <3>3. pt[e][frame[e].va].perm \in SUBSET Flags
      BY <1>1, <3>1 DEF TypeOK
    <3>4. CASE skip(e)
      BY <1>1, <2>2, <3>2, <3>4 DEF TypeOK, Goto, skip
    <3>5. CASE duppage(e)
      BY <1>1, <2>2, <3>3, <3>5 DEF TypeOK, Goto, duppage
    <3>6. CASE duppage_1(e)
      <4>1. Goto(e, "map2", frame[e].va, frame[e].perm, frame[e].child)
            \/ Goto(e, "scan", NextPage(frame[e].va), {}, frame[e].child)
        BY <3>6 DEF duppage_1
      <4>2. CASE Goto(e, "map2", frame[e].va, frame[e].perm, frame[e].child)
        BY <1>1, <2>2, <4>2 DEF TypeOK, Goto
      <4>3. CASE Goto(e, "scan", NextPage(frame[e].va), {}, frame[e].child)
        BY <1>1, <2>2, <3>2, <4>3 DEF TypeOK, Goto
      <4> QED BY <4>1, <4>2, <4>3
    <3>7. CASE duppage_2(e)
      BY <1>1, <2>2, <3>2, <3>7 DEF TypeOK, Goto, duppage_2
    <3> QED BY <2>3, <3>4, <3>5, <3>6, <3>7
  <2>4. ASSUME NEW e \in Envs, set_tlb_mod_entry(e)
        PROVE  frame' \in [Envs -> Frames]
    BY <1>1, <2>2, <2>4 DEF TypeOK, Goto, set_tlb_mod_entry
  <2>5. ASSUME NEW e \in Envs, set_env_status(e)
        PROVE  frame' \in [Envs -> Frames]
    BY <1>1, <2>5, CowAssumption DEF TypeOK, Goto, set_env_status
  <2>6. frame' = frame => frame' \in [Envs -> Frames]
    BY <1>1 DEF TypeOK
  <2> QED BY <2>1, <2>3, <2>4, <2>5, <2>6
        DEF Next, Store, do_tlb_mod, cow_alloc, cow_copy, cow_map, cow_unmap
<1>6. cow' \in [Envs -> Faults]
  <2>1. 1 \in Words /\ NoFault \in Faults
    BY CowAssumption DEF Words, NoFault, Addr
  <2>2. ASSUME NEW e \in Envs
        PROVE  cow[e].va \in Addr /\ cow[e].perm \in SUBSET Flags /\ cow[e].word \in Words
    BY <1>1 DEF TypeOK
  <2>3. ASSUME NEW e \in Envs, NEW v \in Addr, NEW w \in Words, do_tlb_mod(e, v, w)
        PROVE  cow' \in [Envs -> Faults]
    BY <1>1, <2>1, <2>3 DEF TypeOK, do_tlb_mod
  <2>4. ASSUME NEW e \in Envs, cow_alloc(e)
        PROVE  cow' \in [Envs -> Faults]
    <3>1. Copied(pt[e][cow[e].va].perm) \in SUBSET Flags
      <4>1. pt[e][cow[e].va].perm \in SUBSET Flags
        BY <1>1, <2>2 DEF TypeOK
      <4> QED BY <4>1, FlagsFacts
    <3> QED BY <1>1, <2>1, <2>2, <2>4, <3>1 DEF TypeOK, cow_alloc
  <2>5. ASSUME NEW e \in Envs, cow_copy(e)
        PROVE  cow' \in [Envs -> Faults]
    <3>1. NextWord(cow[e].word) \in Words
      BY <2>2, CowAssumption DEF Words, NextWord
    <3> QED BY <1>1, <2>2, <2>5, <3>1 DEF TypeOK, cow_copy
  <2>6. ASSUME NEW e \in Envs, cow_map(e)
        PROVE  cow' \in [Envs -> Faults]
    BY <1>1, <2>1, <2>2, <2>6 DEF TypeOK, cow_map
  <2>7. ASSUME NEW e \in Envs, cow_unmap(e)
        PROVE  cow' \in [Envs -> Faults]
    BY <1>1, <2>1, <2>7 DEF TypeOK, cow_unmap
  <2>8. cow' = cow => cow' \in [Envs -> Faults]
    BY <1>1 DEF TypeOK
  <2> QED BY <2>3, <2>4, <2>5, <2>6, <2>7, <2>8
        DEF Next, Store, fork, skip, duppage, duppage_1, duppage_2, set_tlb_mod_entry, set_env_status
<1> QED BY <1>2, <1>3, <1>4, <1>5, <1>6 DEF TypeOK, Entry

----------------------------------------------------------------------------
LEMMA FlagsStep ==
  ASSUME CowInv, Next
  PROVE  FlagsOK'
<1> DEFINE Good(v, x) == IF x.page = 0 THEN x.perm = {}
                         ELSE IF v \in Shared THEN x.perm = SharedPerm(v)
                         ELSE x.perm = {"D"} \/ x.perm = {"COW"}
<1>1. TypeOK /\ FlagsOK /\ CowOK /\ ForkOK
  BY DEF CowInv
<1>2. \A f \in Envs, u \in Addr : Good(u, pt[f][u])
  BY <1>1 DEF FlagsOK, Mapped
<1>3. CASE QuietStep
  BY <1>1, <1>3, Quiet DEF FlagsOK, Mapped
<1>4. ASSUME NEW e \in Envs, cow_alloc(e)
      PROVE  \A f \in Envs, u \in Addr : Good(u, pt'[f][u])
  <2>1. cow[e].va \in Addr /\ cow[e].va \notin Shared
    BY <1>1, <1>4 DEF TypeOK, CowOK, Copies, cow_alloc, Handles
  <2>2. Copied(pt[e][cow[e].va].perm) = {"D"}
    BY <1>2, <2>1, FlagsFacts
  <2>3. NewPage # 0
    <3>1. NewPage \in Pages
      BY <1>1, <1>4, AllocAt DEF Sets
    <3> QED BY <3>1, CowAssumption DEF Pages
  <2>4. Good(UCOW, [page |-> NewPage, perm |-> Copied(pt[e][cow[e].va].perm)])
    BY <2>2, <2>3, Places
  <2> HIDE DEF Good
  <2> QED BY <1>1, <1>2, <1>4, <2>4, AllocAt DEF Sets
<1>5. ASSUME NEW e \in Envs, cow_map(e)
      PROVE  \A f \in Envs, u \in Addr : Good(u, pt'[f][u])
  <2>1. cow[e].va \notin Shared /\ cow[e].perm = {"D"} /\ pt[e][UCOW].page # 0
    BY <1>1, <1>5 DEF CowOK, Copies, cow_map, Handles, Mapped
  <2>2. Good(cow[e].va, [page |-> pt[e][UCOW].page, perm |-> cow[e].perm])
    BY <2>1
  <2> HIDE DEF Good
  <2> QED BY <1>1, <1>2, <1>5, <2>2, CowMapAt DEF Sets
<1>6. ASSUME NEW e \in Envs, cow_unmap(e)
      PROVE  \A f \in Envs, u \in Addr : Good(u, pt'[f][u])
  <2>1. Good(UCOW, Invalid)
    BY DEF Invalid
  <2> HIDE DEF Good
  <2> QED BY <1>1, <1>2, <1>6, <2>1, CowUnmapAt DEF Sets
<1>7. ASSUME NEW e \in Envs, duppage_1(e) \/ duppage_2(e)
      PROVE  \A f \in Envs, u \in Addr : Good(u, pt'[f][u])
  <2>1. /\ frame[e].va \in Addr /\ pt[e][frame[e].va].page # 0
        /\ frame[e].perm = pt[e][frame[e].va].perm
    BY <1>1, <1>7 DEF ForkOK, Forks, duppage_1, duppage_2, Calls, At, Mapped
  <2>2. Good(frame[e].va, [page |-> pt[e][frame[e].va].page, perm |-> Given(frame[e].perm)])
    <3>1. CASE frame[e].va \in Shared
      <4>1. frame[e].perm = SharedPerm(frame[e].va)
        BY <1>2, <2>1, <3>1
      <4>2. Given(SharedPerm(frame[e].va)) = SharedPerm(frame[e].va)
        BY <3>1, FlagsFacts DEF Given
      <4> QED BY <2>1, <3>1, <4>1, <4>2
    <3>2. CASE frame[e].va \notin Shared
      <4>1. Given(frame[e].perm) = {"COW"}
        BY <1>2, <2>1, <3>2, FlagsFacts
      <4> QED BY <2>1, <3>2, <4>1
    <3> QED BY <3>1, <3>2
  <2> HIDE DEF Good
  <2>3. frame[e].child \in Envs
    BY <1>1 DEF TypeOK
  <2> QED BY <1>1, <1>2, <1>7, <2>2, <2>3, Duppage1At, Duppage2At DEF Sets
<1>8. (\A f \in Envs, u \in Addr : Good(u, pt'[f][u])) => FlagsOK'
  BY DEF FlagsOK, Mapped
<1> QED BY <1>3, <1>4, <1>5, <1>6, <1>7, <1>8, Steps

----------------------------------------------------------------------------
(* It knows the same while others run. *)
LEMMA CopiesKept ==
  ASSUME TypeOK, NEW e \in Envs, Copies(e), cow'[e] = cow[e],
         \A u \in Addr : pt'[e][u] = pt[e][u],
         cow[e].pc # "none" => state'[e] = state[e]
  PROVE  Copies(e)'
<1>1. cow[e].va \in Addr
  BY DEF TypeOK
<1> QED BY <1>1, Places DEF Copies, Mapped, Writable

LEMMA CowStep ==
  ASSUME CowInv, Next
  PROVE  CowOK'
<1>1. TypeOK /\ FlagsOK /\ CowOK /\ ForkOK
  BY DEF CowInv
<1>2. ASSUME NEW e \in Envs, NEW v \in Addr, NEW w \in Words, Store(e, v, w)
      PROVE  CowOK'
  BY <1>1, <1>2 DEF CowOK, Copies, Mapped, Writable, Store
<1>3. ASSUME NEW e \in Envs, NEW v \in Addr, NEW w \in Words, do_tlb_mod(e, v, w)
      PROVE  CowOK'
  <2>1. v \notin Shared
    BY <1>1, <1>3, FlagsFacts DEF FlagsOK, Writable, do_tlb_mod
  <2>2. v # UCOW /\ ~Mapped(e, UCOW) /\ state[e] = "running"
    BY <1>1, <1>3 DEF CowOK, Copies, do_tlb_mod, MayStore, InUser
  <2>3. pt' = pt /\ state' = state /\ Mapped(e, v) /\ ~Writable(e, v)
    BY <1>3 DEF do_tlb_mod
  <2>4. \A f \in Envs : cow'[f] = IF f = e THEN [pc |-> "alloc", va |-> v, perm |-> {}, word |-> 1]
                                  ELSE cow[f]
    BY <1>1, <1>3 DEF do_tlb_mod, TypeOK
  <2> QED BY <1>1, <2>1, <2>2, <2>3, <2>4 DEF CowOK, Copies, Mapped, Writable
<1>4. ASSUME NEW e \in Envs, cow_alloc(e)
      PROVE  CowOK'
  <2>1. /\ cow[e].va \in Addr \ (Shared \cup {UCOW}) /\ state[e] = "running" /\ state' = state
        /\ Mapped(e, cow[e].va) /\ ~Writable(e, cow[e].va)
    BY <1>1, <1>4 DEF TypeOK, CowOK, Copies, cow_alloc, Handles
  <2>2. Copied(pt[e][cow[e].va].perm) = {"D"}
    BY <1>1, <2>1, FlagsFacts DEF FlagsOK
  <2>3. \A f \in Envs : cow'[f] = IF f = e THEN [pc |-> "copy", va |-> cow[e].va, perm |-> {"D"}, word |-> 1]
                                  ELSE cow[f]
    BY <1>1, <1>4, <2>2 DEF cow_alloc, TypeOK
  <2>4. NewPage # 0
    <3>1. NewPage \in Pages
      BY <1>1, <1>4, AllocAt DEF Sets
    <3> QED BY <3>1, CowAssumption DEF Pages
  <2>5. \A f \in Envs, u \in Addr : f # e \/ u # UCOW => pt'[f][u] = pt[f][u]
    BY <1>1, <1>4, AllocAt DEF Sets
  <2>6. pt'[e][UCOW].page = NewPage /\ pt'[e][UCOW].perm = {"D"}
    <3>1. pt'[e][UCOW] = [page |-> NewPage, perm |-> Copied(pt[e][cow[e].va].perm)]
      BY <1>1, <1>4, AllocAt DEF Sets
    <3> QED BY <3>1, <2>2
  <2>7. Copies(e)'
    BY <2>1, <2>3, <2>4, <2>5, <2>6, Places DEF Copies, Mapped, Writable
  <2>8. \A f \in Envs : f # e => Copies(f)'
    BY <1>1, <2>1, <2>3, <2>5, CopiesKept DEF CowOK
  <2> QED BY <2>7, <2>8 DEF CowOK
<1>5. ASSUME NEW e \in Envs, cow_copy(e)
      PROVE  CowOK'
  BY <1>1, <1>5 DEF TypeOK, CowOK, Copies, Mapped, Writable, cow_copy, Handles
<1>6. ASSUME NEW e \in Envs, cow_map(e)
      PROVE  CowOK'
  <2>1. /\ cow[e].va \in Addr \ (Shared \cup {UCOW}) /\ state[e] = "running" /\ state' = state
        /\ Mapped(e, UCOW) /\ cow[e].pc = "map"
    BY <1>1, <1>6 DEF TypeOK, CowOK, Copies, cow_map, Handles
  <2>2. \A f \in Envs : cow'[f] = IF f = e THEN [pc |-> "unmap", va |-> cow[e].va, perm |-> {}, word |-> 1]
                                  ELSE cow[f]
    BY <1>1, <1>6 DEF cow_map, TypeOK
  <2>3. \A f \in Envs, u \in Addr : f # e \/ u # cow[e].va => pt'[f][u] = pt[f][u]
    BY <1>1, <1>6, CowMapAt DEF Sets
  <2>4. pt'[e][cow[e].va].page = pt[e][UCOW].page
    <3>1. pt'[e][cow[e].va] = [page |-> pt[e][UCOW].page, perm |-> cow[e].perm]
      BY <1>1, <1>6, CowMapAt DEF Sets
    <3> QED BY <3>1
  <2>5. pt'[e][UCOW] = pt[e][UCOW]
    BY <2>1, <2>3, Places
  <2>6. Copies(e)'
    BY <2>1, <2>2, <2>4, <2>5 DEF Copies, Mapped
  <2>7. \A f \in Envs : f # e => Copies(f)'
    BY <1>1, <2>1, <2>2, <2>3, CopiesKept DEF CowOK
  <2> QED BY <2>6, <2>7 DEF CowOK
<1>7. ASSUME NEW e \in Envs, cow_unmap(e)
      PROVE  CowOK'
  <2>1. \A f \in Envs : cow'[f] = IF f = e THEN NoFault ELSE cow[f]
    BY <1>1, <1>7 DEF cow_unmap, TypeOK
  <2>2. \A f \in Envs, u \in Addr : f # e \/ u # UCOW => pt'[f][u] = pt[f][u]
    BY <1>1, <1>7, CowUnmapAt DEF Sets
  <2>3. pt'[e][UCOW].page = 0 /\ state' = state
    <3>1. pt'[e][UCOW] = Invalid
      BY <1>1, <1>7, CowUnmapAt DEF Sets
    <3> QED BY <3>1, <1>7 DEF Invalid, cow_unmap
  <2>4. Copies(e)'
    BY <2>1, <2>3 DEF Copies, Mapped, NoFault
  <2>5. \A f \in Envs : f # e => Copies(f)'
    BY <1>1, <2>1, <2>2, <2>3, CopiesKept DEF CowOK
  <2> QED BY <2>4, <2>5 DEF CowOK
<1>8. ASSUME NEW e \in Envs, NEW c \in Envs, fork(e, c)
      PROVE  CowOK'
  BY <1>1, <1>8 DEF TypeOK, CowOK, Copies, Mapped, Writable, fork
<1>9. ASSUME NEW e \in Envs, skip(e) \/ duppage(e) \/ set_tlb_mod_entry(e)
      PROVE  CowOK'
  BY <1>1, <1>9 DEF CowOK, Copies, Mapped, Writable, skip, duppage, set_tlb_mod_entry
<1>10. ASSUME NEW e \in Envs, set_env_status(e)
       PROVE  CowOK'
  BY <1>1, <1>10 DEF TypeOK, CowOK, Copies, Mapped, Writable, set_env_status
<1>11. ASSUME NEW e \in Envs, duppage_1(e) \/ duppage_2(e)
       PROVE  CowOK'
  <2>1. /\ frame[e].va \in Addr \ {UCOW} /\ cow[e].pc = "none"
        /\ cow' = cow /\ state' = state /\ frame[e].child \in Envs /\ state[frame[e].child] = "embryo"
    BY <1>1, <1>11 DEF TypeOK, ForkOK, Forks, duppage_1, duppage_2, Calls, At
  <2>2. cow[frame[e].child].pc = "none"
    BY <1>1, <2>1 DEF CowOK, Copies
  <2>3. PICK g \in {e, frame[e].child} :
          \A f \in Envs, u \in Addr : f # g \/ u # frame[e].va => pt'[f][u] = pt[f][u]
    <3>1. CASE duppage_1(e)
      BY <1>1, <3>1, Duppage1At DEF Sets
    <3>2. CASE duppage_2(e)
      BY <1>1, <3>2, Duppage2At DEF Sets
    <3> QED BY <1>11, <3>1, <3>2
  <2>4. cow[g].pc = "none" /\ g \in Envs
    BY <2>1, <2>2, <2>3
  <2>5. \A f \in Envs : f # g => \A u \in Addr : pt'[f][u] = pt[f][u]
    BY <2>3
  <2>6. pt'[g][UCOW] = pt[g][UCOW]
    BY <2>1, <2>3, <2>4, Places
  <2>7. Copies(g)'
    BY <1>1, <2>1, <2>4, <2>6 DEF CowOK, Copies, Mapped
  <2>8. \A f \in Envs : f # g => Copies(f)'
    BY <1>1, <2>1, <2>5, CopiesKept DEF CowOK
  <2> QED BY <2>7, <2>8 DEF CowOK
<1> QED BY <1>2, <1>3, <1>4, <1>5, <1>6, <1>7, <1>8, <1>9, <1>10, <1>11 DEF Next

----------------------------------------------------------------------------
LEMMA ForkStep ==
  ASSUME CowInv, Next
  PROVE  ForkOK'
<1>1. TypeOK /\ FlagsOK /\ CowOK /\ ForkOK
  BY DEF CowInv
<1>2. ASSUME NEW e \in Envs, NEW v \in Addr, NEW w \in Words, Store(e, v, w)
      PROVE  ForkOK'
  BY <1>1, <1>2 DEF Store, ForkOK, Forks, OneParent, Mapped, Writable
<1>3. ASSUME NEW e \in Envs, pt' = pt, state' = state, pc' = pc, frame' = frame,
             tlb_mod_entry' = tlb_mod_entry, pc[e] \notin {"map", "map2"},
             \A f \in Envs : f # e => cow'[f] = cow[f]
      PROVE  ForkOK'
  <2>1. \A f \in Envs : f # e => Forks(f)'
    BY <1>1, <1>3 DEF ForkOK, Forks, Mapped, Writable
  <2>2. Forks(e)'
    BY <1>1, <1>3 DEF ForkOK, Forks
  <2> QED BY <1>1, <1>3, <2>1, <2>2 DEF ForkOK, OneParent
<1>4. ASSUME NEW e \in Envs, NEW v \in Addr, NEW w \in Words, do_tlb_mod(e, v, w)
      PROVE  ForkOK'
  <2>1. pc[e] \notin {"map", "map2"}
    BY <1>1, <1>4 DEF ForkOK, Forks, do_tlb_mod, MayStore
  <2>2. \A f \in Envs : f # e => cow'[f] = cow[f]
    BY <1>1, <1>4 DEF TypeOK, do_tlb_mod
  <2> QED BY <1>3, <1>4, <2>1, <2>2 DEF do_tlb_mod
<1>5. ASSUME NEW e \in Envs, cow_copy(e)
      PROVE  ForkOK'
  <2>1. pc[e] \notin {"map", "map2"}
    BY <1>1, <1>5 DEF ForkOK, Forks, cow_copy, Handles
  <2>2. \A f \in Envs : f # e => cow'[f] = cow[f]
    BY <1>1, <1>5 DEF TypeOK, cow_copy
  <2> QED BY <1>3, <1>5, <2>1, <2>2 DEF cow_copy
<1>6. ASSUME NEW e \in Envs, cow_alloc(e) \/ cow_map(e) \/ cow_unmap(e)
      PROVE  ForkOK'
  <2>1. /\ pc[e] \notin {"map", "map2"}
        /\ state' = state /\ pc' = pc /\ frame' = frame /\ tlb_mod_entry' = tlb_mod_entry
    BY <1>1, <1>6 DEF ForkOK, Forks, cow_alloc, cow_map, cow_unmap, Handles
  <2>2. \A f \in Envs : f # e => cow'[f] = cow[f]
    BY <1>1, <1>6 DEF TypeOK, cow_alloc, cow_map, cow_unmap
  <2>3. \A f \in Envs, u \in Addr : f # e => pt'[f][u] = pt[f][u]
    <3>1. CASE cow_alloc(e)
      BY <1>1, <3>1, AllocAt DEF Sets
    <3>2. CASE cow_map(e)
      BY <1>1, <3>2, CowMapAt DEF Sets
    <3>3. CASE cow_unmap(e)
      BY <1>1, <3>3, CowUnmapAt DEF Sets
    <3> QED BY <1>6, <3>1, <3>2, <3>3
  <2>4. \A f \in Envs : f # e => Forks(f)'
    BY <1>1, <2>1, <2>2, <2>3, Places DEF ForkOK, Forks, Mapped, Writable
  <2>5. Forks(e)'
    BY <1>1, <2>1 DEF ForkOK, Forks
  <2> QED BY <1>1, <2>1, <2>4, <2>5 DEF ForkOK, OneParent
<1>7. ASSUME NEW e \in Envs, NEW c \in Envs, fork(e, c)
      PROVE  ForkOK'
  <2>1. /\ \A f \in Envs : pc'[f] = IF f = e THEN "scan" ELSE pc[f]
        /\ \A f \in Envs : f # e => frame'[f] = frame[f]
        /\ frame'[e].child = c
        /\ \A f \in Envs : state'[f] = IF f = c THEN "embryo" ELSE state[f]
        /\ state[c] = "unused" /\ state[e] = "running"
        /\ tlb_mod_entry' = (tlb_mod_entry \cup {e}) \ {c}
        /\ pt' = pt /\ cow' = cow
    BY <1>1, <1>7 DEF TypeOK, fork, Goto, Calls, At, InUser
  <2>2. \A f \in Envs : frame[f].child \in Envs
    BY <1>1 DEF TypeOK
  <2>3. ASSUME NEW f \in Envs, f # e
        PROVE  Forks(f)'
    <3>1. pc[f] # "user" => f # c /\ frame[f].child # c
      BY <1>1, <2>1 DEF ForkOK, Forks
    <3> QED BY <1>1, <2>1, <2>2, <2>3, <3>1 DEF ForkOK, Forks, Mapped, Writable
  <2>4. Forks(e)'
    BY <2>1 DEF Forks
  <2>5. OneParent'
    BY <1>1, <2>1, <2>2 DEF ForkOK, Forks, OneParent
  <2> QED BY <2>3, <2>4, <2>5 DEF ForkOK
<1>8. ASSUME NEW e \in Envs, skip(e)
      PROVE  ForkOK'
  <2>1. /\ pc[e] = "scan" /\ pc' = pc /\ frame'[e].child = frame[e].child
        /\ \A f \in Envs : f # e => frame'[f] = frame[f]
        /\ pt' = pt /\ state' = state /\ cow' = cow /\ tlb_mod_entry' = tlb_mod_entry
    BY <1>1, <1>8 DEF TypeOK, skip, Goto, At
  <2> QED BY <1>1, <2>1 DEF ForkOK, Forks, OneParent, Mapped, Writable
<1>9. ASSUME NEW e \in Envs, duppage(e)
      PROVE  ForkOK'
  <2>1. /\ pc[e] = "scan" /\ state[e] = "running" /\ Writable(e, Stack) /\ cow[e].pc = "none"
        /\ Mapped(e, frame[e].va)
        /\ \A f \in Envs : pc'[f] = IF f = e THEN "map" ELSE pc[f]
        /\ frame'[e] = [va |-> frame[e].va, perm |-> pt[e][frame[e].va].perm, child |-> frame[e].child]
        /\ \A f \in Envs : f # e => frame'[f] = frame[f]
        /\ pt' = pt /\ state' = state /\ cow' = cow /\ tlb_mod_entry' = tlb_mod_entry
    BY <1>1, <1>9 DEF TypeOK, duppage, Goto, Calls, At, InUser
  <2>2. frame'[e].va = frame[e].va /\ frame'[e].perm = pt[e][frame[e].va].perm
        /\ frame'[e].child = frame[e].child
    BY <2>1
  <2>3. frame[e].va \in Addr \ {UCOW}
    <3>1. frame[e].va \in Addr
      BY <1>1, <1>9, CowAssumption DEF TypeOK, duppage, Addr
    <3> QED BY <1>1, <2>1, <3>1 DEF CowOK, Copies
  <2>4. Forks(e)'
    BY <1>1, <2>1, <2>2, <2>3 DEF ForkOK, Forks, Mapped, Writable
  <2>5. \A f \in Envs : f # e => Forks(f)'
    BY <1>1, <2>1 DEF ForkOK, Forks, Mapped, Writable
  <2>6. OneParent'
    BY <1>1, <2>1, <2>2 DEF ForkOK, OneParent
  <2> QED BY <2>4, <2>5, <2>6 DEF ForkOK
<1>10. ASSUME NEW e \in Envs, duppage_1(e)
       PROVE  ForkOK'
  <2> DEFINE c == frame[e].child
  <2>1. /\ pc[e] = "map" /\ state[e] = "running" /\ c \in Envs /\ state[c] = "embryo"
        /\ Writable(e, Stack) /\ cow[e].pc = "none" /\ Mapped(e, frame[e].va)
        /\ frame[e].perm = pt[e][frame[e].va].perm /\ frame[e].va \in Addr \ {UCOW}
    BY <1>1, <1>10 DEF TypeOK, ForkOK, Forks, duppage_1, Calls, At
  <2>2. /\ \A f \in Envs : f # e => frame'[f] = frame[f] /\ pc'[f] = pc[f]
        /\ frame'[e].child = c
        /\ pc'[e] = "map2" => Private(frame[e].perm) /\ frame'[e] = frame[e]
        /\ pc'[e] \in {"scan", "map2"}
        /\ state' = state /\ cow' = cow /\ tlb_mod_entry' = tlb_mod_entry
    <3>1. frame[e] = [va |-> frame[e].va, perm |-> frame[e].perm, child |-> c]
      BY <1>1 DEF TypeOK
    <3> QED BY <1>1, <1>10, <3>1 DEF TypeOK, duppage_1, Goto
  <2>3. \A f \in Envs, u \in Addr : f # c => pt'[f][u] = pt[f][u]
    BY <1>1, <1>10, Duppage1At DEF Sets
  <2>4. \A f \in Envs, u \in Addr :
          pc[f] # "user" => (Mapped(f, u)' <=> Mapped(f, u)) /\ (Writable(f, u)' <=> Writable(f, u))
    BY <1>1, <2>1, <2>3 DEF ForkOK, Forks, Mapped, Writable
  <2>5. \A f \in Envs : f # e => Forks(f)'
    BY <1>1, <2>1, <2>2, <2>3, <2>4, Places DEF ForkOK, Forks
  <2>6. Forks(e)'
    <3>1. CASE pc'[e] = "map2"
      BY <1>1, <2>1, <2>2, <2>3, <2>4, <3>1, Places DEF ForkOK, Forks
    <3>2. CASE pc'[e] = "scan"
      BY <1>1, <2>1, <2>2, <3>2 DEF ForkOK, Forks
    <3> QED BY <2>2, <3>1, <3>2
  <2>7. OneParent'
    BY <1>1, <2>1, <2>2 DEF ForkOK, OneParent
  <2> QED BY <2>5, <2>6, <2>7 DEF ForkOK
<1>11. ASSUME NEW e \in Envs, duppage_2(e)
       PROVE  ForkOK'
  <2>1. /\ pc[e] = "map2" /\ pc'[e] = "scan" /\ frame'[e].child = frame[e].child
        /\ \A f \in Envs : f # e => frame'[f] = frame[f] /\ pc'[f] = pc[f]
        /\ state' = state /\ cow' = cow /\ tlb_mod_entry' = tlb_mod_entry
    BY <1>1, <1>11 DEF TypeOK, duppage_2, Goto, Calls, At
  <2>2. \A f \in Envs, u \in Addr : f # e => pt'[f][u] = pt[f][u]
    BY <1>1, <1>11, Duppage2At DEF Sets
  <2>3. \A f \in Envs : f # e => Forks(f)'
    BY <1>1, <2>1, <2>2, Places DEF ForkOK, Forks, Mapped, Writable
  <2>4. Forks(e)'
    BY <1>1, <2>1 DEF ForkOK, Forks
  <2>5. OneParent'
    BY <1>1, <2>1 DEF ForkOK, OneParent
  <2> QED BY <2>3, <2>4, <2>5 DEF ForkOK
<1>12. ASSUME NEW e \in Envs, set_tlb_mod_entry(e)
       PROVE  ForkOK'
  <2>1. /\ pc[e] = "scan" /\ pc'[e] = "start" /\ frame'[e].child = frame[e].child
        /\ \A f \in Envs : f # e => frame'[f] = frame[f] /\ pc'[f] = pc[f]
        /\ pt' = pt /\ state' = state /\ cow' = cow
        /\ tlb_mod_entry' = tlb_mod_entry \cup {frame[e].child}
    BY <1>1, <1>12 DEF TypeOK, set_tlb_mod_entry, Goto, Calls, At, Armed
  <2> QED BY <1>1, <2>1 DEF ForkOK, Forks, OneParent, Mapped, Writable
<1>13. ASSUME NEW e \in Envs, set_env_status(e)
       PROVE  ForkOK'
  <2>1. /\ pc[e] = "start" /\ pc'[e] = "user" /\ frame[e].child \in Envs
        /\ \A f \in Envs : f # e => frame'[f] = frame[f] /\ pc'[f] = pc[f]
        /\ \A f \in Envs : state'[f] = IF f = frame[e].child THEN "running" ELSE state[f]
        /\ pt' = pt /\ cow' = cow /\ tlb_mod_entry' = tlb_mod_entry
    BY <1>1, <1>13 DEF TypeOK, set_env_status, Goto, Calls, At
  <2>2. \A f \in Envs : f # e /\ pc[f] # "user" => frame[f].child # frame[e].child
    BY <1>1, <2>1 DEF ForkOK, OneParent
  <2>3. \A f \in Envs : frame[f].child \in Envs
    BY <1>1 DEF TypeOK
  <2>4. \A f \in Envs : f # e => Forks(f)'
    BY <1>1, <2>1, <2>2, <2>3 DEF ForkOK, Forks, Mapped, Writable
  <2>5. Forks(e)'
    BY <2>1 DEF Forks
  <2>6. OneParent'
    BY <1>1, <2>1 DEF ForkOK, OneParent
  <2> QED BY <2>4, <2>5, <2>6 DEF ForkOK
<1> QED BY <1>2, <1>4, <1>5, <1>6, <1>7, <1>8, <1>9, <1>10, <1>11, <1>12, <1>13 DEF Next

----------------------------------------------------------------------------
LEMMA EmbryoStep ==
  ASSUME CowInv, Next
  PROVE  EmbryoOK'
<1>1. TypeOK /\ FlagsOK /\ CowOK /\ ForkOK /\ EmbryoOK
  BY DEF CowInv
<1>2. CASE QuietStep
  <2>1. \A f \in Envs : state'[f] # "running" => state[f] # "running"
    BY <1>1, <1>2 DEF TypeOK, QuietStep, Store, do_tlb_mod, cow_copy, skip, duppage, set_tlb_mod_entry,
       set_env_status, fork
  <2>2. pt' = pt
    BY <1>2, Quiet
  <2> QED BY <1>1, <2>1, <2>2 DEF EmbryoOK, Writable, Mapped
<1>3. ASSUME NEW e \in Envs, cow_alloc(e) \/ cow_map(e) \/ cow_unmap(e)
      PROVE  EmbryoOK'
  <2>1. state[e] = "running" /\ state' = state
    BY <1>3 DEF cow_alloc, cow_map, cow_unmap, Handles
  <2>2. \A f \in Envs, u \in Addr : f # e => pt'[f][u] = pt[f][u]
    <3>1. CASE cow_alloc(e)
      BY <1>1, <3>1, AllocAt DEF Sets
    <3>2. CASE cow_map(e)
      BY <1>1, <3>2, CowMapAt DEF Sets
    <3>3. CASE cow_unmap(e)
      BY <1>1, <3>3, CowUnmapAt DEF Sets
    <3> QED BY <1>3, <3>1, <3>2, <3>3
  <2> QED BY <1>1, <2>1, <2>2 DEF EmbryoOK, Writable, Mapped
<1>4. ASSUME NEW e \in Envs, duppage_1(e)
      PROVE  EmbryoOK'
  <2> PICK c \in Envs, v \in Addr : c = frame[e].child /\ v = frame[e].va
    BY <1>1, <1>4 DEF TypeOK, ForkOK, Forks, duppage_1, Calls, At
  <2>1. state' = state /\ Mapped(e, v) /\ frame[e].perm = pt[e][v].perm
    BY <1>1, <1>4 DEF ForkOK, Forks, duppage_1, Calls, At
  <2>2. pt'[c][v].perm = Given(frame[e].perm)
    <3>1. pt'[c][v] = [page |-> pt[e][v].page, perm |-> Given(frame[e].perm)]
      BY <1>1, <1>4, Duppage1At DEF Sets
    <3> QED BY <3>1
  <2>3. v \notin Shared => ~Writable(c, v)'
    <3>1. v \notin Shared => Given(frame[e].perm) = {"COW"}
      BY <1>1, <2>1, FlagsFacts DEF FlagsOK
    <3> QED BY <2>2, <3>1 DEF Writable
  <2>4. \A f \in Envs, u \in Addr : f # c \/ u # v => pt'[f][u] = pt[f][u]
    BY <1>1, <1>4, Duppage1At DEF Sets
  <2>5. \A f \in Envs, u \in Addr : f # c \/ u # v => (Writable(f, u)' <=> Writable(f, u))
    BY <2>4 DEF Writable, Mapped
  <2> QED BY <1>1, <2>1, <2>3, <2>5 DEF EmbryoOK
<1>5. ASSUME NEW e \in Envs, duppage_2(e)
      PROVE  EmbryoOK'
  <2>1. state[e] = "running" /\ state' = state
    BY <1>5 DEF duppage_2, Calls, At, InUser
  <2>2. \A f \in Envs, u \in Addr : f # e => pt'[f][u] = pt[f][u]
    BY <1>1, <1>5, Duppage2At DEF Sets
  <2> QED BY <1>1, <2>1, <2>2 DEF EmbryoOK, Writable, Mapped
<1> QED BY <1>2, <1>3, <1>4, <1>5, Steps

LEMMA HandlerStep ==
  ASSUME CowInv, Next
  PROVE  HandlerSet'
<1>1. TypeOK /\ FlagsOK /\ CowOK /\ ForkOK /\ HandlerSet
  BY DEF CowInv
<1>2. TypeOK' /\ FlagsOK'
  BY TypeStep, FlagsStep
<1>3. SUFFICES ASSUME NEW f \in Envs, NEW u \in Addr, state'[f] = "running",
                      Mapped(f, u)', ~Writable(f, u)'
               PROVE  f \in tlb_mod_entry'
  <2>1. \A f \in Envs, u \in Addr : Mapped(f, u)' /\ ~Writable(f, u)' => "COW" \in pt'[f][u].perm
    BY <1>2, FlagsFacts DEF FlagsOK, Mapped, Writable
  <2> QED BY <2>1 DEF HandlerSet, Running
<1>4. CASE Mapped(f, u) /\ ~Writable(f, u) /\ state[f] = "running"
  <2>1. f \in tlb_mod_entry
    BY <1>1, <1>4 DEF HandlerSet, Running
  <2> QED BY <1>4, <2>1 DEF Next, Store, do_tlb_mod, cow_alloc, cow_copy, cow_map, cow_unmap, fork, skip,
             duppage, duppage_1, duppage_2, set_tlb_mod_entry, set_env_status, Armed
<1>5. CASE QuietStep
  <2>1. Mapped(f, u) /\ ~Writable(f, u)
    BY <1>3, <1>5, Quiet DEF Mapped, Writable
  <2>2. CASE state[f] # "running"
    <3>1. PICK e \in Envs : set_env_status(e) /\ f = frame[e].child
      BY <1>1, <1>3, <1>5, <2>2 DEF TypeOK, QuietStep, Store, do_tlb_mod, cow_copy, skip, duppage,
         set_tlb_mod_entry, set_env_status, fork
    <3> QED BY <1>1, <3>1 DEF ForkOK, Forks, set_env_status, Calls, At
  <2> QED BY <1>4, <2>1, <2>2
<1>6. ASSUME NEW e \in Envs, cow_alloc(e) \/ cow_map(e) \/ cow_unmap(e)
      PROVE  f \in tlb_mod_entry'
  <2>1. state' = state
    BY <1>6 DEF cow_alloc, cow_map, cow_unmap
  <2>2. Mapped(f, u) /\ ~Writable(f, u)
    <3>1. CASE cow_alloc(e)
      <4>1. cow[e].va \in Addr \ Shared
        BY <1>1, <3>1 DEF TypeOK, CowOK, Copies, cow_alloc, Handles
      <4>2. Copied(pt[e][cow[e].va].perm) = {"D"}
        BY <1>1, <4>1, FlagsFacts DEF FlagsOK
      <4>3. pt'[e][UCOW] = [page |-> NewPage, perm |-> {"D"}]
        BY <1>1, <3>1, <4>2, AllocAt DEF Sets
      <4>4. f # e \/ u # UCOW
        BY <1>3, <4>3 DEF Mapped, Writable
      <4> QED BY <1>1, <1>3, <3>1, <4>4, AllocAt DEF Sets, Mapped, Writable
    <3>2. CASE cow_map(e)
      <4>1. cow[e].perm = {"D"}
        BY <1>1, <3>2 DEF CowOK, Copies, cow_map, Handles
      <4>2. pt'[e][cow[e].va] = [page |-> pt[e][UCOW].page, perm |-> {"D"}]
        BY <1>1, <3>2, <4>1, CowMapAt DEF Sets
      <4>3. f # e \/ u # cow[e].va
        BY <1>3, <4>2 DEF Mapped, Writable
      <4> QED BY <1>1, <1>3, <3>2, <4>3, CowMapAt DEF Sets, Mapped, Writable
    <3>3. CASE cow_unmap(e)
      <4>1. pt'[e][UCOW] = Invalid
        BY <1>1, <3>3, CowUnmapAt DEF Sets
      <4>2. f # e \/ u # UCOW
        BY <1>3, <4>1 DEF Mapped, Invalid
      <4> QED BY <1>1, <1>3, <3>3, <4>2, CowUnmapAt DEF Sets, Mapped, Writable
    <3> QED BY <1>6, <3>1, <3>2, <3>3
  <2> QED BY <1>3, <1>4, <2>1, <2>2
<1>7. ASSUME NEW e \in Envs, duppage_1(e)
      PROVE  f \in tlb_mod_entry'
  <2>1. state' = state /\ f # frame[e].child
    BY <1>1, <1>3, <1>7 DEF ForkOK, Forks, duppage_1, Calls, At
  <2>2. Mapped(f, u) /\ ~Writable(f, u)
    BY <1>1, <1>3, <1>7, <2>1, Duppage1At DEF Sets, Mapped, Writable
  <2> QED BY <1>3, <1>4, <2>1, <2>2
<1>8. ASSUME NEW e \in Envs, duppage_2(e)
      PROVE  f \in tlb_mod_entry'
  <2>1. state' = state /\ tlb_mod_entry' = tlb_mod_entry /\ e \in tlb_mod_entry
    BY <1>1, <1>8 DEF ForkOK, Forks, duppage_2, Calls, At
  <2>2. CASE f # e
    <3>1. Mapped(f, u) /\ ~Writable(f, u)
      BY <1>1, <1>3, <1>8, <2>2, Duppage2At DEF Sets, Mapped, Writable
    <3> QED BY <1>3, <1>4, <2>1, <3>1
  <2> QED BY <2>1, <2>2
<1> QED BY <1>5, <1>6, <1>7, <1>8, Steps

----------------------------------------------------------------------------
Excused(e, f, u, v) ==
  \/ u = v /\ (e = f \/ u \in Shared)
  \/ e = f /\ Copying(e, u, v)
  \/ Giving(e, f, u, v)

LEMMA AloneStep ==
  ASSUME CowInv, Next
  PROVE  AllAlone'
<1>1. TypeOK /\ FlagsOK /\ CowOK /\ ForkOK /\ EmbryoOK /\ AllAlone
  BY DEF CowInv
<1>2. \A e, f \in Envs, u, v \in Addr :
        Writable(e, u) /\ pt[f][v].page = pt[e][u].page => Excused(e, f, u, v)
  BY <1>1 DEF AllAlone, Excused
<1>3. SUFFICES ASSUME NEW f \in Envs, NEW g \in Envs, NEW u \in Addr, NEW v \in Addr,
                      Writable(f, u)', pt'[g][v].page = pt'[f][u].page
               PROVE  Excused(f, g, u, v)'
  BY DEF AllAlone, Excused
<1>4. CASE QuietStep
  <2>1. Writable(f, u) /\ pt[g][v].page = pt[f][u].page
    BY <1>3, <1>4, Quiet DEF Writable, Mapped
  <2>2. \A h \in Envs : cow[h].pc = "unmap" => cow'[h] = cow[h]
    <3>1. ASSUME NEW h \in Envs, NEW x \in Addr, NEW w \in Words, do_tlb_mod(h, x, w)
          PROVE  \A i \in Envs : cow[i].pc = "unmap" => cow'[i] = cow[i]
      BY <1>1, <3>1 DEF TypeOK, do_tlb_mod, MayStore, InUser
    <3>2. ASSUME NEW h \in Envs, cow_copy(h)
          PROVE  \A i \in Envs : cow[i].pc = "unmap" => cow'[i] = cow[i]
      BY <1>1, <3>2 DEF TypeOK, cow_copy, Handles
    <3> QED BY <1>4, <3>1, <3>2 DEF QuietStep, Store, skip, duppage, set_tlb_mod_entry, set_env_status, fork
  <2>3. \A h \in Envs : pc[h] = "map2" => pc'[h] = "map2" /\ frame'[h] = frame[h]
    <3>1. ASSUME NEW e \in Envs, skip(e) \/ duppage(e) \/ set_tlb_mod_entry(e) \/ set_env_status(e)
          PROVE  \A h \in Envs : pc[h] = "map2" => pc'[h] = "map2" /\ frame'[h] = frame[h]
      BY <1>1, <3>1 DEF TypeOK, skip, duppage, set_tlb_mod_entry, set_env_status, Calls, At, Goto
    <3>2. ASSUME NEW e \in Envs, NEW c \in Envs, fork(e, c)
          PROVE  \A h \in Envs : pc[h] = "map2" => pc'[h] = "map2" /\ frame'[h] = frame[h]
      BY <1>1, <3>2 DEF TypeOK, fork, Calls, At, Goto
    <3> QED BY <1>4, <3>1, <3>2 DEF QuietStep, Store, do_tlb_mod, cow_copy
  <2> QED BY <1>2, <2>1, <2>2, <2>3 DEF Excused, Copying, Giving
<1>5. ASSUME NEW e \in Envs, cow_alloc(e)
      PROVE  Excused(f, g, u, v)'
  <2>1. /\ NewPage \in FreePages
        /\ pt'[e][UCOW].page = NewPage
        /\ \A h \in Envs, x \in Addr : h # e \/ x # UCOW => pt'[h][x] = pt[h][x]
    <3>1. pt'[e][UCOW] = [page |-> NewPage, perm |-> Copied(pt[e][cow[e].va].perm)]
      BY <1>1, <1>5, AllocAt DEF Sets
    <3> QED BY <1>1, <1>5, <3>1, AllocAt DEF Sets
  <2>2. \A h \in Envs, x \in Addr : pt[h][x].page # NewPage
    <3>1. Users(NewPage) = {}
      BY <2>1 DEF FreePages
    <3>2. ASSUME NEW h \in Envs, NEW x \in Addr, pt[h][x].page = NewPage
          PROVE  <<h, x>> \in Users(NewPage)
      BY <3>2 DEF Users
    <3> QED BY <3>1, <3>2
  <2>3. f = e /\ u = UCOW <=> g = e /\ v = UCOW
    BY <1>3, <2>1, <2>2
  <2>4. CASE f = e /\ u = UCOW
    BY <2>3, <2>4 DEF Excused
  <2>5. CASE ~(f = e /\ u = UCOW)
    <3>1. Writable(f, u) /\ pt[g][v].page = pt[f][u].page
      BY <1>3, <2>1, <2>3, <2>5 DEF Writable, Mapped
    <3>2. pc' = pc /\ frame' = frame /\ \A h \in Envs : cow[h].pc = "unmap" => cow'[h] = cow[h]
      BY <1>1, <1>5 DEF TypeOK, cow_alloc, Handles
    <3> QED BY <1>2, <3>1, <3>2 DEF Excused, Copying, Giving
  <2> QED BY <2>4, <2>5
<1>6. ASSUME NEW e \in Envs, cow_map(e)
      PROVE  Excused(f, g, u, v)'
  <2> PICK w \in Addr : w = cow[e].va
    BY <1>1 DEF TypeOK
  <2>1. /\ w \notin Shared \cup {UCOW} /\ Writable(e, UCOW) /\ cow[e].pc = "map"
        /\ pc[e] # "map2"
    BY <1>1, <1>6 DEF CowOK, Copies, ForkOK, Forks, cow_map, Handles
  <2>2. /\ pt'[e][w].page = pt[e][UCOW].page
        /\ \A h \in Envs, x \in Addr : h # e \/ x # w => pt'[h][x] = pt[h][x]
    <3>1. pt'[e][w] = [page |-> pt[e][UCOW].page, perm |-> cow[e].perm]
      BY <1>1, <1>6, CowMapAt DEF Sets
    <3> QED BY <1>1, <1>6, <3>1, CowMapAt DEF Sets
  <2>3. /\ pc' = pc /\ frame' = frame /\ cow'[e].pc = "unmap" /\ cow'[e].va = w
        /\ \A h \in Envs : h # e => cow'[h] = cow[h]
    BY <1>1, <1>6 DEF TypeOK, cow_map
  <2>4. \A h \in Envs, x \in Addr : pt[h][x].page = pt[e][UCOW].page => h = e /\ x = UCOW
    BY <1>2, <2>1, Places DEF Excused, Copying, Giving
  <2>5. \A x, y \in Addr : {x, y} = {UCOW, w} => Copying(e, x, y)'
    BY <2>3 DEF Copying
  <2>6. CASE f = e /\ u = w
    <3>1. CASE g = e /\ v = w
      BY <2>6, <3>1 DEF Excused
    <3>2. CASE ~(g = e /\ v = w)
      <4>1. g = e /\ v = UCOW
        BY <1>3, <2>2, <2>4, <2>6, <3>2
      <4> QED BY <2>5, <2>6, <4>1, Places DEF Excused
    <3> QED BY <3>1, <3>2
  <2>7. CASE ~(f = e /\ u = w) /\ g = e /\ v = w
    <3>1. f = e /\ u = UCOW
      BY <1>3, <2>2, <2>4, <2>7
    <3> QED BY <2>5, <2>7, <3>1, Places DEF Excused
  <2>8. CASE ~(f = e /\ u = w) /\ ~(g = e /\ v = w)
    <3>1. Writable(f, u) /\ pt[g][v].page = pt[f][u].page
      BY <1>3, <2>2, <2>8 DEF Writable, Mapped
    <3> QED BY <1>2, <2>1, <2>3, <3>1 DEF Excused, Copying, Giving
  <2> QED BY <2>6, <2>7, <2>8
<1>7. ASSUME NEW e \in Envs, cow_unmap(e)
      PROVE  Excused(f, g, u, v)'
  <2>1. /\ pt'[e][UCOW].page = 0
        /\ \A h \in Envs, x \in Addr : h # e \/ x # UCOW => pt'[h][x] = pt[h][x]
    <3>1. pt'[e][UCOW] = Invalid
      BY <1>1, <1>7, CowUnmapAt DEF Sets
    <3> QED BY <1>1, <1>7, <3>1, CowUnmapAt DEF Sets, Invalid
  <2>2. /\ pc' = pc /\ frame' = frame
        /\ \A h \in Envs : h # e => cow'[h] = cow[h]
    BY <1>1, <1>7 DEF TypeOK, cow_unmap
  <2>3. ~(f = e /\ u = UCOW) /\ ~(g = e /\ v = UCOW)
    BY <1>3, <2>1 DEF Writable, Mapped
  <2>4. Writable(f, u) /\ pt[g][v].page = pt[f][u].page
    BY <1>3, <2>1, <2>3 DEF Writable, Mapped
  <2>5. f = e => ~(f = g /\ Copying(f, u, v))
    BY <2>3 DEF Copying
  <2> QED BY <1>2, <2>2, <2>4, <2>5 DEF Excused, Copying, Giving
<1>8. ASSUME NEW e \in Envs, duppage_1(e)
      PROVE  Excused(f, g, u, v)'
  <2> PICK c \in Envs, w \in Addr : c = frame[e].child /\ w = frame[e].va
    BY <1>1, <1>8 DEF TypeOK, ForkOK, Forks, duppage_1, Calls, At
  <2>1. /\ pc[e] = "map" /\ cow[e].pc = "none" /\ Mapped(e, w) /\ frame[e].perm = pt[e][w].perm
        /\ state[e] = "running" /\ state[c] = "embryo" /\ c # e
    BY <1>1, <1>8 DEF ForkOK, Forks, duppage_1, Calls, At
  <2>2. /\ pt'[c][w].page = pt[e][w].page
        /\ pt'[c][w].perm = Given(pt[e][w].perm)
        /\ \A h \in Envs, x \in Addr : h # c \/ x # w => pt'[h][x] = pt[h][x]
    <3>1. Sets(c, w, [page |-> pt[e][w].page, perm |-> Given(pt[e][w].perm)])
      BY <1>1, <1>8, <2>1, Duppage1At
    <3> QED BY <3>1 DEF Sets
  <2>3. cow' = cow /\ \A h \in Envs : h # e => pc'[h] = pc[h] /\ frame'[h] = frame[h]
    BY <1>1, <1>8 DEF TypeOK, duppage_1, Goto
  <2>4. \A h, i \in Envs, x, y \in Addr : Excused(h, i, x, y) => Excused(h, i, x, y)'
    BY <2>1, <2>3 DEF Excused, Copying, Giving
  <2>5. CASE ~(f = c /\ u = w) /\ ~(g = c /\ v = w)
    <3>1. Writable(f, u) /\ pt[g][v].page = pt[f][u].page
      BY <1>3, <2>2, <2>5 DEF Writable, Mapped
    <3> QED BY <1>2, <2>4, <3>1
  <2>6. CASE w \in Shared
    <3>1. Writable(e, w)
      BY <1>1, <2>1, <2>6, FlagsFacts DEF FlagsOK, Writable
    <3>2. \A h \in Envs, x \in Addr : pt[h][x].page = pt[e][w].page => x = w
      BY <1>2, <2>1, <3>1 DEF Excused, Copying, Giving
    <3>3. CASE f = c /\ u = w
      <4>1. v = w
        BY <1>3, <2>2, <3>2, <3>3
      <4> QED BY <2>6, <3>3, <4>1 DEF Excused
    <3>4. CASE ~(f = c /\ u = w) /\ g = c /\ v = w
      <4>1. u = w
        BY <1>3, <2>2, <3>2, <3>4
      <4> QED BY <2>6, <3>4, <4>1 DEF Excused
    <3> QED BY <2>5, <3>3, <3>4
  <2>7. CASE w \notin Shared
    <3>1. Given(pt[e][w].perm) = {"COW"}
      BY <1>1, <2>1, <2>7, FlagsFacts DEF FlagsOK
    <3>2. ~(f = c /\ u = w)
      BY <1>3, <2>2, <3>1 DEF Writable
    <3>3. CASE g = c /\ v = w
      <4>1. Writable(f, u) /\ pt[e][w].page = pt[f][u].page
        BY <1>3, <2>2, <3>2, <3>3 DEF Writable, Mapped
      <4>2. f # c \/ u # w
        BY <3>2
      <4>3. Excused(f, e, u, w)
        BY <1>2, <4>1
      <4>4. ~(f = e /\ Copying(f, u, w)) /\ ~Giving(f, e, u, w)
        BY <1>1, <2>1 DEF Copying, Giving, ForkOK, Forks
      <4>5. f = e /\ u = w
        BY <2>7, <4>3, <4>4 DEF Excused
      <4>6. pt[e][w].perm = {"D"}
        BY <1>1, <2>1, <2>7, <4>1, <4>5 DEF FlagsOK, Writable
      <4>7. pc'[e] = "map2" /\ frame'[e].child = c /\ frame'[e].va = w
        BY <1>1, <1>8, <2>1, <4>6, FlagsFacts DEF TypeOK, duppage_1, Goto
      <4> QED BY <3>3, <4>5, <4>7 DEF Excused, Giving
    <3> QED BY <2>5, <3>2, <3>3
  <2> QED BY <2>6, <2>7
<1>9. ASSUME NEW e \in Envs, duppage_2(e)
      PROVE  Excused(f, g, u, v)'
  <2> PICK w \in Addr : w = frame[e].va
    BY <1>1, <1>9 DEF ForkOK, Forks, duppage_2, Calls, At
  <2>1. /\ pc[e] = "map2" /\ cow[e].pc = "none" /\ Mapped(e, w) /\ frame[e].perm = pt[e][w].perm
        /\ Private(frame[e].perm)
    BY <1>1, <1>9 DEF ForkOK, Forks, duppage_2, Calls, At
  <2>2. /\ pt'[e][w].page = pt[e][w].page
        /\ pt'[e][w].perm = Given(pt[e][w].perm)
        /\ \A h \in Envs, x \in Addr : h # e \/ x # w => pt'[h][x] = pt[h][x]
    <3>1. Sets(e, w, [page |-> pt[e][w].page, perm |-> Given(pt[e][w].perm)])
      BY <1>1, <1>9, <2>1, Duppage2At
    <3> QED BY <3>1 DEF Sets
  <2>3. cow' = cow /\ \A h \in Envs : h # e => pc'[h] = pc[h] /\ frame'[h] = frame[h]
    BY <1>1, <1>9 DEF TypeOK, duppage_2, Goto
  <2>4. "D" \notin Given(pt[e][w].perm)
    BY <2>1 DEF Given
  <2>5. ~(f = e /\ u = w)
    BY <1>3, <2>2, <2>4 DEF Writable
  <2>6. Writable(f, u) /\ pt[g][v].page = pt[f][u].page
    BY <1>3, <2>2, <2>5 DEF Writable, Mapped
  <2>7. Giving(f, g, u, v) => f # e
    BY <2>5 DEF Giving
  <2> QED BY <1>2, <2>3, <2>6, <2>7 DEF Excused, Copying, Giving
<1> QED BY <1>4, <1>5, <1>6, <1>7, <1>8, <1>9, Steps

----------------------------------------------------------------------------
LEMMA StutterInv ==
  ASSUME CowInv, UNCHANGED vars
  PROVE  CowInv'
<1>1. /\ pt' = pt /\ mem' = mem /\ state' = state /\ tlb_mod_entry' = tlb_mod_entry
      /\ pc' = pc /\ frame' = frame /\ cow' = cow /\ writes' = writes
  BY DEF vars
<1>2. TypeOK'
  BY <1>1 DEF CowInv, TypeOK
<1>3. FlagsOK' /\ CowOK' /\ EmbryoOK'
  BY <1>1 DEF CowInv, FlagsOK, CowOK, Copies, EmbryoOK, Mapped, Writable
<1>4. ForkOK'
  BY <1>1 DEF CowInv, ForkOK, Forks, OneParent, Mapped, Writable
<1>5. AllAlone' /\ HandlerSet'
  BY <1>1 DEF CowInv, AllAlone, Copying, Giving, HandlerSet, Running, Mapped, Writable
<1> QED BY <1>2, <1>3, <1>4, <1>5 DEF CowInv

LEMMA InvAlways == Spec => []CowInv
<1>1. CowInv /\ [Next]_vars => CowInv'
  BY StutterInv, TypeStep, FlagsStep, CowStep, ForkStep, EmbryoStep, AloneStep, HandlerStep DEF CowInv
<1> QED BY InitInv, <1>1, PTL DEF Spec

(* A page that an env can store to is in no other running env, unless it   *)
(* is one of those shared on purpose, whatever fork and cow_entry do in    *)
(* however many envs (duppage, cow_entry).                                 *)
THEOREM WritableStaysAlone == Spec => []WritableAlone
<1>1. CowInv => WritableAlone
  BY DEF CowInv, AllAlone, WritableAlone, Running, Copying, Giving, ForkOK, Forks
<1> QED BY InvAlways, <1>1, PTL

(* No store of a running env to a page it has panics: the handler is set   *)
(* before there is a copy-on-write page to fault on (fork, duppage).       *)
THEOREM FaultsAreHandled == Spec => []HandlerSet
<1>1. CowInv => HandlerSet
  BY DEF CowInv
<1> QED BY InvAlways, <1>1, PTL

(* The variables keep their types. *)
THEOREM CowTypeCorrect == Spec => []TypeOK
<1>1. CowInv => TypeOK
  BY DEF CowInv
<1> QED BY InvAlways, <1>1, PTL

----------------------------------------------------------------------------
SharedSame ==
  \A e, f \in Envs, v \in Shared :
    Mapped(e, v) /\ Mapped(f, v) => pt[e][v].page = pt[f][v].page

AllMapped == \A e \in Running, v \in 1..Top : Mapped(e, v)

CopyGood ==
  \A e \in Envs : cow[e].pc \in {"copy", "map"} =>
    \A w \in Words : cow[e].pc = "map" \/ w < cow[e].word =>
      mem[pt[e][UCOW].page][w] = mem[pt[e][cow[e].va].page][w]

(* fork is past an address once the child has the page. *)
Past(e, v) == v < frame[e].va \/ (pc[e] = "map2" /\ v = frame[e].va)

ChildSees ==
  \A e \in Envs : pc[e] # "user" =>
    /\ pc[e] = "start" => frame[e].va = Top + 1
    /\ \A v \in 1..Top : Past(e, v) =>
         /\ Mapped(frame[e].child, v)
         /\ \A w \in Words : v # Stack \/ w # Dead =>
              mem[pt[frame[e].child][v].page][w] = mem[pt[e][v].page][w]

MemInv == SharedSame /\ AllMapped /\ CopyGood /\ ChildSees

LEMMA InitMem == Init => MemInv
<1> SUFFICES ASSUME Init PROVE MemInv
  OBVIOUS
<1>1. \A e \in Envs, v \in Addr : pt[e][v] = IF e = Root /\ v # UCOW THEN Loaded(v) ELSE Invalid
  BY DEF Init
<1>2. Invalid.page = 0 /\ \A v \in Addr : Loaded(v).page = v
  BY DEF Invalid, Loaded
<1>3. Running = {Root} /\ \A e \in Envs : pc[e] = "user" /\ cow[e].pc = "none"
  BY CowAssumption DEF Init, Running, NoFault
<1>4. SharedSame
  BY <1>1, <1>2, Places DEF SharedSame, Mapped
<1>5. AllMapped
  BY <1>1, <1>2, <1>3, CowAssumption DEF AllMapped, Mapped, Addr, UCOW
<1> QED BY <1>3, <1>4, <1>5 DEF MemInv, CopyGood, ChildSees

(* Who else has the page that a store changes: those who share it on       *)
(* purpose, and while fork has only given it away, the child, which does   *)
(* not need that part of it.                                               *)
LEMMA StoreAlone ==
  ASSUME CowInv, NEW e \in Envs, NEW v \in Addr, NEW w \in Words, MayStore(e, v, w), Writable(e, v),
         NEW f \in Envs, NEW u \in Addr, pt[f][u].page = pt[e][v].page
  PROVE  /\ u = v
         /\ f = e \/ v \in Shared \/ (v = Stack /\ w = Dead /\ state[f] = "embryo")
<1>1. cow[e].pc = "none" /\ (pc[e] # "user" => v = Stack /\ w = Dead)
  BY DEF MayStore, InUser
<1>2. \/ v = u /\ (e = f \/ v \in Shared)
      \/ Giving(e, f, v, u)
  BY <1>1 DEF CowInv, AllAlone, Copying
<1>3. Giving(e, f, v, u) => v = u /\ pc[e] # "user" /\ state[f] = "embryo"
  BY DEF CowInv, Giving, ForkOK, Forks
<1> QED BY <1>1, <1>2, <1>3

(* The page of a copy is nobody else's while it is filled. *)
LEMMA UcowAlone ==
  ASSUME CowInv, NEW e \in Envs, cow[e].pc \in {"copy", "map"},
         NEW f \in Envs, NEW u \in Addr, pt[f][u].page = pt[e][UCOW].page
  PROVE  f = e /\ u = UCOW
<1>1. Writable(e, UCOW)
  BY DEF CowInv, CowOK, Copies
<1>2. \/ UCOW = u /\ (e = f \/ UCOW \in Shared)
      \/ e = f /\ Copying(e, UCOW, u)
      \/ Giving(e, f, UCOW, u)
  BY <1>1, Places DEF CowInv, AllAlone
<1>3. ~Copying(e, UCOW, u) /\ ~Giving(e, f, UCOW, u)
  BY DEF CowInv, Copying, Giving, ForkOK, Forks
<1> QED BY <1>2, <1>3, Places

(* The page that is copied does not change meanwhile. *)
LEMMA SourceStill ==
  ASSUME CowInv, NEW f \in Envs, cow[f].pc \in {"copy", "map"},
         NEW e \in Envs, NEW v \in Addr, NEW w \in Words, MayStore(e, v, w), Writable(e, v)
  PROVE  pt[f][cow[f].va].page # pt[e][v].page /\ pt[f][UCOW].page # pt[e][v].page
<1>1. /\ cow[f].va \in Addr \ Shared /\ state[f] = "running" /\ e # f
  BY DEF CowInv, TypeOK, CowOK, Copies, MayStore, InUser
<1>2. pt[f][cow[f].va].page # pt[e][v].page
  BY <1>1, StoreAlone
<1>3. pt[f][UCOW].page # pt[e][v].page
  BY <1>1, UcowAlone
<1> QED BY <1>2, <1>3

----------------------------------------------------------------------------
LEMMA SharedStep ==
  ASSUME CowInv, MemInv, Next
  PROVE  SharedSame'
<1>1. TypeOK /\ CowOK /\ ForkOK /\ SharedSame
  BY DEF CowInv, MemInv
<1>2. CASE QuietStep
  BY <1>1, <1>2, Quiet DEF SharedSame, Mapped
<1>3. ASSUME NEW e \in Envs, cow_alloc(e) \/ cow_map(e) \/ cow_unmap(e)
      PROVE  SharedSame'
  <2>1. \A f \in Envs, v \in Shared : pt'[f][v] = pt[f][v]
    <3>1. CASE cow_alloc(e)
      BY <1>1, <3>1, AllocAt, Places DEF Sets
    <3>2. CASE cow_map(e)
      <4>1. cow[e].va \notin Shared
        BY <1>1, <3>2 DEF CowOK, Copies, cow_map, Handles
      <4> QED BY <1>1, <3>2, <4>1, CowMapAt, Places DEF Sets
    <3>3. CASE cow_unmap(e)
      BY <1>1, <3>3, CowUnmapAt, Places DEF Sets
    <3> QED BY <1>3, <3>1, <3>2, <3>3
  <2> QED BY <1>1, <2>1 DEF SharedSame, Mapped
<1>4. ASSUME NEW e \in Envs, duppage_1(e) \/ duppage_2(e)
      PROVE  SharedSame'
  <2>1. PICK g \in Envs, v \in Addr :
          /\ Mapped(e, v) /\ pt'[g][v].page = pt[e][v].page
          /\ \A h \in Envs, x \in Addr : h # g \/ x # v => pt'[h][x] = pt[h][x]
    <3>1. /\ frame[e].child \in Envs /\ frame[e].va \in Addr /\ Mapped(e, frame[e].va)
      BY <1>1, <1>4 DEF TypeOK, ForkOK, Forks, duppage_1, duppage_2, Calls, At
    <3>2. CASE duppage_1(e)
      <4>1. Sets(frame[e].child, frame[e].va, [page |-> pt[e][frame[e].va].page, perm |-> Given(frame[e].perm)])
        BY <1>1, <3>2, Duppage1At
      <4> QED BY <3>1, <4>1 DEF Sets
    <3>3. CASE duppage_2(e)
      <4>1. Sets(e, frame[e].va, [page |-> pt[e][frame[e].va].page, perm |-> Given(frame[e].perm)])
        BY <1>1, <3>3, Duppage2At
      <4> QED BY <3>1, <4>1 DEF Sets
    <3> QED BY <1>4, <3>2, <3>3
  <2> QED BY <1>1, <2>1, Places DEF SharedSame, Mapped
<1> QED BY <1>2, <1>3, <1>4, Steps

LEMMA MappedStep ==
  ASSUME CowInv, MemInv, Next
  PROVE  AllMapped'
<1>1. TypeOK /\ CowOK /\ ForkOK /\ AllMapped /\ ChildSees
  BY DEF CowInv, MemInv
<1>2. 1..Top \subseteq Addr /\ UCOW \notin 1..Top
  BY CowAssumption DEF Addr, UCOW
<1>3. SUFFICES ASSUME NEW f \in Envs, state'[f] = "running", NEW u \in 1..Top
               PROVE  Mapped(f, u)'
  BY DEF AllMapped, Running
<1>4. state[f] = "running" => Mapped(f, u)
  BY <1>1 DEF AllMapped, Running
<1>5. CASE QuietStep
  <2>1. Mapped(f, u)
    <3>1. CASE state[f] = "running"
      BY <1>4, <3>1
    <3>2. CASE state[f] # "running"
      <4>1. PICK e \in Envs : set_env_status(e) /\ f = frame[e].child
        BY <1>1, <1>3, <1>5, <3>2 DEF TypeOK, QuietStep, Store, do_tlb_mod, cow_copy, skip, duppage,
           set_tlb_mod_entry, set_env_status, fork
      <4>2. pc[e] = "start"
        BY <4>1 DEF set_env_status, Calls, At
      <4>3. Past(e, u)
        BY <1>1, <4>2, CowAssumption DEF ChildSees, Past
      <4> QED BY <1>1, <4>1, <4>2, <4>3 DEF ChildSees
    <3> QED BY <3>1, <3>2
  <2> QED BY <1>5, <2>1, Quiet DEF Mapped
<1>6. ASSUME NEW e \in Envs, cow_alloc(e)
      PROVE  Mapped(f, u)'
  BY <1>1, <1>2, <1>3, <1>4, <1>6, AllocAt DEF cow_alloc, Sets, Mapped
<1>7. ASSUME NEW e \in Envs, cow_map(e)
      PROVE  Mapped(f, u)'
  <2>1. pt'[e][cow[e].va].page # 0
    <3>1. Sets(e, cow[e].va, [page |-> pt[e][UCOW].page, perm |-> cow[e].perm])
      BY <1>1, <1>7, CowMapAt
    <3>2. Mapped(e, UCOW)
      BY <1>1, <1>7 DEF CowOK, Copies, cow_map, Handles
    <3> QED BY <3>1, <3>2 DEF Sets, Mapped
  <2>2. f # e \/ u # cow[e].va => pt'[f][u] = pt[f][u]
    BY <1>1, <1>2, <1>7, CowMapAt DEF Sets
  <2> QED BY <1>3, <1>4, <1>7, <2>1, <2>2 DEF cow_map, Mapped
<1>8. ASSUME NEW e \in Envs, cow_unmap(e)
      PROVE  Mapped(f, u)'
  BY <1>1, <1>2, <1>3, <1>4, <1>8, CowUnmapAt DEF cow_unmap, Sets, Mapped
<1>9. ASSUME NEW e \in Envs, duppage_1(e)
      PROVE  Mapped(f, u)'
  <2>1. state' = state /\ f # frame[e].child
    BY <1>1, <1>3, <1>9 DEF ForkOK, Forks, duppage_1, Calls, At
  <2> QED BY <1>1, <1>2, <1>3, <1>4, <1>9, <2>1, Duppage1At DEF Sets, Mapped
<1>10. ASSUME NEW e \in Envs, duppage_2(e)
       PROVE  Mapped(f, u)'
  <2>1. pt'[e][frame[e].va].page # 0 /\ state' = state
    <3>1. Sets(e, frame[e].va, [page |-> pt[e][frame[e].va].page, perm |-> Given(frame[e].perm)])
      BY <1>1, <1>10, Duppage2At
    <3>2. Mapped(e, frame[e].va) /\ state' = state
      BY <1>1, <1>10 DEF ForkOK, Forks, duppage_2, Calls, At
    <3> QED BY <3>1, <3>2 DEF Sets, Mapped
  <2>2. f # e \/ u # frame[e].va => pt'[f][u] = pt[f][u]
    BY <1>1, <1>2, <1>10, Duppage2At DEF Sets
  <2> QED BY <1>3, <1>4, <2>1, <2>2 DEF Mapped
<1> QED BY <1>5, <1>6, <1>7, <1>8, <1>9, <1>10, Steps

----------------------------------------------------------------------------
(* What each step does to the contents of pages. *)
LEMMA StoreMem ==
  ASSUME TypeOK, NEW e \in Envs, NEW v \in Addr, NEW w \in Words, Store(e, v, w)
  PROVE  /\ pt[e][v].page \in Pages
         /\ \A p \in Pages, x \in Words :
              mem'[p][x] = IF p = pt[e][v].page /\ x = w THEN writes' ELSE mem[p][x]
<1>1. pt[e][v].page \in Pages
  BY DEF TypeOK, Store, Writable, Mapped
<1> QED BY <1>1 DEF TypeOK, Store

LEMMA CopyMem ==
  ASSUME CowInv, NEW e \in Envs, cow_copy(e)
  PROVE  /\ pt[e][UCOW].page \in Pages
         /\ \A p \in Pages, x \in Words :
              mem'[p][x] = IF p = pt[e][UCOW].page /\ x = cow[e].word
                           THEN mem[pt[e][cow[e].va].page][x] ELSE mem[p][x]
<1>1. TypeOK /\ Mapped(e, UCOW)
  BY DEF CowInv, CowOK, Copies, cow_copy, Handles
<1>2. pt[e][UCOW].page \in Pages
  BY <1>1, Places DEF TypeOK, Mapped
<1> QED BY <1>1, <1>2 DEF TypeOK, cow_copy, Source

LEMMA AllocMem ==
  ASSUME CowInv, NEW e \in Envs, cow_alloc(e)
  PROVE  \A f \in Envs, u \in Addr : Mapped(f, u) => mem'[pt[f][u].page] = mem[pt[f][u].page]
<1>1. TypeOK /\ NewPage \in FreePages
  BY AllocAt DEF CowInv
<1>2. Users(NewPage) = {}
  BY <1>1 DEF FreePages
<1> SUFFICES ASSUME NEW f \in Envs, NEW u \in Addr, Mapped(f, u)
             PROVE  mem'[pt[f][u].page] = mem[pt[f][u].page]
  OBVIOUS
<1>3. pt[f][u].page # NewPage
  <2>1. pt[f][u].page = NewPage => <<f, u>> \in Users(NewPage)
    BY DEF Users
  <2> QED BY <1>2, <2>1
<1>4. pt[f][u].page \in Pages
  BY <1>1 DEF TypeOK, Mapped
<1> QED BY <1>1, <1>3, <1>4 DEF TypeOK, cow_alloc

LEMMA CopyStep ==
  ASSUME CowInv, MemInv, Next
  PROVE  CopyGood'
<1>1. TypeOK /\ CowOK /\ ForkOK /\ CopyGood
  BY DEF CowInv, MemInv
<1>2. SUFFICES ASSUME NEW f \in Envs, cow'[f].pc \in {"copy", "map"}, NEW x \in Words,
                      cow'[f].pc = "map" \/ x < cow'[f].word
               PROVE  mem'[pt'[f][UCOW].page][x] = mem'[pt'[f][cow'[f].va].page][x]
  BY DEF CopyGood
<1>3. cow[f].pc \in {"copy", "map"} =>
        /\ pt[f][UCOW].page \in Pages /\ pt[f][cow[f].va].page \in Pages
        /\ cow[f].va \in Addr \ {UCOW} /\ state[f] = "running"
  BY <1>1, Places DEF TypeOK, CowOK, Copies, Mapped
(* Steps of others that leave f's two pages alone. *)
<1>4. ASSUME cow'[f] = cow[f], pt'[f][UCOW] = pt[f][UCOW], pt'[f][cow[f].va] = pt[f][cow[f].va],
             mem'[pt[f][UCOW].page] = mem[pt[f][UCOW].page],
             mem'[pt[f][cow[f].va].page] = mem[pt[f][cow[f].va].page]
      PROVE  mem'[pt'[f][UCOW].page][x] = mem'[pt'[f][cow'[f].va].page][x]
  BY <1>1, <1>2, <1>4 DEF CopyGood
<1>5. ASSUME NEW e \in Envs, NEW v \in Addr, NEW w \in Words, Store(e, v, w)
      PROVE  mem'[pt'[f][UCOW].page][x] = mem'[pt'[f][cow'[f].va].page][x]
  <2>1. cow' = cow /\ pt' = pt /\ MayStore(e, v, w) /\ Writable(e, v)
    BY <1>5 DEF Store
  <2>2. pt[f][cow[f].va].page # pt[e][v].page /\ pt[f][UCOW].page # pt[e][v].page
    BY <1>2, <2>1, SourceStill
  <2>3. \A p \in Pages : p # pt[e][v].page => mem'[p] = mem[p]
    BY <1>1, <1>5 DEF TypeOK, Store
  <2> QED BY <1>2, <1>3, <1>4, <2>1, <2>2, <2>3
<1>6. ASSUME NEW e \in Envs, cow_alloc(e)
      PROVE  mem'[pt'[f][UCOW].page][x] = mem'[pt'[f][cow'[f].va].page][x]
  <2>1. f # e
    <3>1. cow'[e].pc = "copy" /\ cow'[e].word = 1
      BY <1>1, <1>6 DEF TypeOK, cow_alloc
    <3> QED BY <1>2, <3>1, CowAssumption DEF Words
  <2>2. cow'[f] = cow[f]
    BY <1>1, <1>6, <2>1 DEF TypeOK, cow_alloc
  <2>3. pt'[f][UCOW] = pt[f][UCOW] /\ pt'[f][cow[f].va] = pt[f][cow[f].va]
    BY <1>1, <1>2, <1>3, <1>6, <2>1, <2>2, AllocAt, Places DEF Sets
  <2>4. Mapped(f, UCOW) /\ Mapped(f, cow[f].va)
    BY <1>1, <1>2, <2>2 DEF CowOK, Copies
  <2> QED BY <1>2, <1>3, <1>4, <1>6, <2>2, <2>3, <2>4, AllocMem, Places
<1>7. ASSUME NEW e \in Envs, cow_copy(e)
      PROVE  mem'[pt'[f][UCOW].page][x] = mem'[pt'[f][cow'[f].va].page][x]
  <2>1. pt' = pt /\ cow[e].pc = "copy"
    BY <1>7 DEF cow_copy, Handles
  <2>2. CASE f # e
    <3>1. cow'[f] = cow[f]
      BY <1>1, <1>7, <2>2 DEF TypeOK, cow_copy
    <3>2. pt[f][UCOW].page # pt[e][UCOW].page /\ pt[f][cow[f].va].page # pt[e][UCOW].page
      BY <1>2, <1>3, <2>1, <2>2, <3>1, UcowAlone, Places
    <3>3. \A p \in Pages : p # pt[e][UCOW].page => mem'[p] = mem[p]
      BY <1>1, <1>7 DEF TypeOK, cow_copy
    <3> QED BY <1>2, <1>3, <1>4, <2>1, <3>1, <3>2, <3>3
  <2>3. CASE f = e
    <3>1. cow'[e].va = cow[e].va
      BY <1>1, <1>7 DEF TypeOK, cow_copy
    <3>2. pt[e][cow[e].va].page # pt[e][UCOW].page
      BY <1>3, <2>1, <2>3, UcowAlone
    <3>3. x = cow[e].word \/ x < cow[e].word
      <4>1. \/ cow'[e].pc = "map" /\ cow[e].word = NWords
            \/ cow'[e].word = cow[e].word + 1 /\ cow'[e].pc = "copy"
        BY <1>1, <1>7 DEF TypeOK, cow_copy, NextWord
      <4>2. cow[e].word \in Words
        BY <1>1 DEF TypeOK
      <4> QED BY <1>2, <2>3, <4>1, <4>2, CowAssumption DEF Words
    <3>4. \A p \in Pages, y \in Words :
            mem'[p][y] = IF p = pt[e][UCOW].page /\ y = cow[e].word
                         THEN mem[pt[e][cow[e].va].page][y] ELSE mem[p][y]
      BY <1>7, CopyMem
    <3>5. x < cow[e].word => mem[pt[e][UCOW].page][x] = mem[pt[e][cow[e].va].page][x]
      BY <1>1, <2>1 DEF CopyGood
    <3>6. cow[e].word \in Words /\ (x < cow[e].word => x # cow[e].word)
      BY <1>1, CowAssumption DEF TypeOK, Words
    <3> QED BY <1>3, <2>1, <2>3, <3>1, <3>2, <3>3, <3>4, <3>5, <3>6
  <2> QED BY <2>2, <2>3
<1>8. ASSUME NEW e \in Envs, cow_map(e) \/ cow_unmap(e)
      PROVE  mem'[pt'[f][UCOW].page][x] = mem'[pt'[f][cow'[f].va].page][x]
  <2>1. cow'[e].pc \in {"unmap", "none"}
    BY <1>1, <1>8 DEF TypeOK, cow_map, cow_unmap, NoFault
  <2>2. f # e
    BY <1>2, <2>1
  <2>3. cow'[f] = cow[f] /\ mem' = mem
    BY <1>1, <1>8, <2>2 DEF TypeOK, cow_map, cow_unmap
  <2>4. \A u \in Addr : pt'[f][u] = pt[f][u]
    <3>1. CASE cow_map(e)
      BY <1>1, <2>2, <3>1, CowMapAt DEF Sets
    <3>2. CASE cow_unmap(e)
      BY <1>1, <2>2, <3>2, CowUnmapAt DEF Sets
    <3> QED BY <1>8, <3>1, <3>2
  <2> QED BY <1>2, <1>3, <1>4, <2>3, <2>4, Places
<1>9. ASSUME NEW e \in Envs, NEW v \in Addr, NEW w \in Words, do_tlb_mod(e, v, w)
      PROVE  mem'[pt'[f][UCOW].page][x] = mem'[pt'[f][cow'[f].va].page][x]
  <2>1. cow'[e].pc = "alloc" /\ pt' = pt /\ mem' = mem
    BY <1>1, <1>9 DEF TypeOK, do_tlb_mod
  <2>2. cow'[f] = cow[f]
    BY <1>1, <1>2, <1>9, <2>1 DEF TypeOK, do_tlb_mod
  <2> QED BY <1>4, <2>1, <2>2
<1>10. ASSUME NEW e \in Envs, duppage_1(e) \/ duppage_2(e)
       PROVE  mem'[pt'[f][UCOW].page][x] = mem'[pt'[f][cow'[f].va].page][x]
  <2>1. cow' = cow /\ mem' = mem
    BY <1>10 DEF duppage_1, duppage_2
  <2>2. /\ cow[e].pc = "none" /\ state[frame[e].child] = "embryo"
    BY <1>1, <1>10 DEF ForkOK, Forks, duppage_1, duppage_2, Calls, At
  <2>3. f # e /\ f # frame[e].child
    BY <1>2, <1>3, <2>1, <2>2
  <2>4. \A u \in Addr : pt'[f][u] = pt[f][u]
    <3>1. CASE duppage_1(e)
      BY <1>1, <2>3, <3>1, Duppage1At DEF Sets
    <3>2. CASE duppage_2(e)
      BY <1>1, <2>3, <3>2, Duppage2At DEF Sets
    <3> QED BY <1>10, <3>1, <3>2
  <2> QED BY <1>2, <1>3, <1>4, <2>1, <2>4, Places
<1>11. ASSUME pt' = pt, mem' = mem, cow' = cow
       PROVE  mem'[pt'[f][UCOW].page][x] = mem'[pt'[f][cow'[f].va].page][x]
  BY <1>4, <1>11
<1> QED BY <1>5, <1>6, <1>7, <1>8, <1>9, <1>10, <1>11
      DEF Next, fork, skip, duppage, set_tlb_mod_entry, set_env_status

----------------------------------------------------------------------------
(* The child has the page at v, with what its parent has there. *)
Seen(e, v) ==
  /\ Mapped(frame[e].child, v)
  /\ \A w \in Words : v # Stack \/ w # Dead =>
       mem[pt[frame[e].child][v].page][w] = mem[pt[e][v].page][w]

LEMMA SeenKept ==
  ASSUME NEW e \in Envs, NEW c \in Envs, NEW v, Seen(e, v), frame[e].child = c, frame'[e].child = c,
         pt'[c][v] = pt[c][v], mem'[pt[c][v].page] = mem[pt[c][v].page],
         \A w \in Words : v # Stack \/ w # Dead => mem'[pt'[e][v].page][w] = mem[pt[e][v].page][w]
  PROVE  Seen(e, v)'
BY DEF Seen, Mapped

LEMMA ChildStep ==
  ASSUME CowInv, MemInv, Next
  PROVE  ChildSees'
<1>1. /\ TypeOK /\ CowOK /\ ForkOK /\ SharedSame /\ AllMapped /\ CopyGood /\ ChildSees
      /\ 1..Top \subseteq Addr /\ UCOW \notin 1..Top
  BY CowAssumption DEF CowInv, MemInv, Addr, UCOW
<1>2. SUFFICES ASSUME NEW h \in Envs, pc'[h] # "user"
               PROVE  /\ pc'[h] = "start" => frame'[h].va = Top + 1
                      /\ \A v \in 1..Top : Past(h, v)' => Seen(h, v)'
  BY DEF ChildSees, Seen
<1>3. pc[h] # "user" =>
        /\ state[h] = "running" /\ frame[h].child \in Envs /\ state[frame[h].child] = "embryo"
        /\ pc[h] = "start" => frame[h].va = Top + 1
        /\ \A v \in 1..Top : Mapped(h, v) /\ (Past(h, v) => Seen(h, v))
  BY <1>1 DEF TypeOK, ForkOK, Forks, AllMapped, Running, ChildSees, Seen
(* The step is another env's, or does not move fork on. *)
<1>4. ASSUME pc'[h] = pc[h], frame'[h] = frame[h],
             \A v \in 1..Top : Past(h, v) /\ Seen(h, v) => Seen(h, v)'
      PROVE  /\ pc'[h] = "start" => frame'[h].va = Top + 1
             /\ \A v \in 1..Top : Past(h, v)' => Seen(h, v)'
  BY <1>2, <1>3, <1>4 DEF Past
<1>5. ASSUME NEW e \in Envs, NEW u \in Addr, NEW x \in Words, Store(e, u, x)
      PROVE  /\ pc'[h] = "start" => frame'[h].va = Top + 1
             /\ \A v \in 1..Top : Past(h, v)' => Seen(h, v)'
  <2>1. pc' = pc /\ frame' = frame /\ pt' = pt /\ MayStore(e, u, x) /\ Writable(e, u)
    BY <1>5 DEF Store
  <2> PICK c \in Envs : c = frame[h].child
    BY <1>1 DEF TypeOK
  <2>2. ASSUME NEW v \in 1..Top, Past(h, v), Seen(h, v), NEW w \in Words, v # Stack \/ w # Dead
        PROVE  mem'[pt[c][v].page][w] = mem'[pt[h][v].page][w]
    <3>1. /\ pt[c][v].page \in Pages /\ pt[h][v].page \in Pages
          /\ mem[pt[c][v].page][w] = mem[pt[h][v].page][w]
      BY <1>1, <1>2, <1>3, <2>1, <2>2 DEF TypeOK, Seen, Mapped
    <3>2. \A p \in Pages : mem'[p][w] = IF p = pt[e][u].page /\ w = x THEN writes' ELSE mem[p][w]
      BY <1>1, <1>5, StoreMem
    <3>3. CASE w # x
      BY <3>1, <3>2, <3>3
    <3>4. CASE w = x
      <4>1. pc[e] # "user" => u = Stack /\ w = Dead
        BY <2>1, <3>4 DEF MayStore
      <4>2. e # c
        BY <1>2, <1>3, <2>1 DEF MayStore, InUser
      <4>3. pt[c][v].page = pt[e][u].page => u = v /\ v \in Shared
        BY <1>1, <2>1, <2>2, <3>4, <4>2, StoreAlone
      <4>4. pt[h][v].page = pt[e][u].page => u = v /\ v \in Shared
        BY <1>1, <1>2, <2>1, <2>2, <3>4, <4>1, StoreAlone
      <4>5. v \in Shared => pt[c][v].page = pt[h][v].page
        BY <1>1, <1>2, <1>3, <2>1, <2>2 DEF SharedSame, Seen
      <4> QED BY <3>1, <3>2, <4>3, <4>4, <4>5
    <3> QED BY <3>3, <3>4
  <2> QED BY <1>4, <2>1, <2>2 DEF Seen, Mapped
<1>6. ASSUME NEW e \in Envs, cow_alloc(e) \/ cow_copy(e) \/ cow_unmap(e)
      PROVE  /\ pc'[h] = "start" => frame'[h].va = Top + 1
             /\ \A v \in 1..Top : Past(h, v)' => Seen(h, v)'
  <2>1. pc' = pc /\ frame' = frame
    BY <1>6 DEF cow_alloc, cow_copy, cow_unmap
  <2>2. \A g \in Envs, v \in 1..Top : pt'[g][v] = pt[g][v]
    <3>1. CASE cow_alloc(e)
      BY <1>1, <3>1, AllocAt, Places DEF Sets
    <3>2. CASE cow_unmap(e)
      BY <1>1, <3>2, CowUnmapAt, Places DEF Sets
    <3> QED BY <1>6, <3>1, <3>2 DEF cow_copy
  <2>3. \A g \in Envs, v \in 1..Top : Mapped(g, v) => mem'[pt[g][v].page] = mem[pt[g][v].page]
    <3>1. CASE cow_alloc(e)
      BY <1>1, <3>1, AllocMem
    <3>2. CASE cow_copy(e)
      <4>1. \A g \in Envs, v \in 1..Top : pt[g][v].page # pt[e][UCOW].page
        <5>1. cow[e].pc \in {"copy", "map"}
          BY <3>2 DEF cow_copy, Handles
        <5>2. ASSUME NEW g \in Envs, NEW v \in Addr, pt[g][v].page = pt[e][UCOW].page
              PROVE  v = UCOW
          BY <5>1, <5>2, UcowAlone
        <5> QED BY <1>1, <5>2
      <4>2. \A p \in Pages : p # pt[e][UCOW].page => mem'[p] = mem[p]
        BY <1>1, <3>2 DEF TypeOK, cow_copy
      <4>3. \A g \in Envs, v \in 1..Top : Mapped(g, v) => pt[g][v].page \in Pages
        <5>1. \A g \in Envs, v \in Addr : pt[g][v].page \in Pages \cup {0}
          BY <1>1 DEF TypeOK
        <5> QED BY <1>1, <5>1 DEF Mapped
      <4> QED BY <4>1, <4>2, <4>3
    <3>3. CASE cow_unmap(e)
      BY <3>3 DEF cow_unmap
    <3> QED BY <1>6, <3>1, <3>2, <3>3
  <2>4. ASSUME NEW v \in 1..Top, Seen(h, v)
        PROVE  Seen(h, v)'
    <3> PICK c \in Envs : c = frame[h].child
      BY <1>1 DEF TypeOK
    <3>1. Mapped(c, v) /\ Mapped(h, v)
      BY <1>2, <1>3, <2>1, <2>4 DEF Seen
    <3>2. mem'[pt[c][v].page] = mem[pt[c][v].page] /\ mem'[pt[h][v].page] = mem[pt[h][v].page]
      BY <2>3, <3>1
    <3> QED BY <2>1, <2>2, <2>4, <3>2, SeenKept
  <2> QED BY <1>4, <2>1, <2>4
<1>7. ASSUME NEW e \in Envs, cow_map(e)
      PROVE  /\ pc'[h] = "start" => frame'[h].va = Top + 1
             /\ \A v \in 1..Top : Past(h, v)' => Seen(h, v)'
  <2>1. pc' = pc /\ frame' = frame /\ mem' = mem
    BY <1>7 DEF cow_map
  <2> PICK c \in Envs : c = frame[h].child
    BY <1>1 DEF TypeOK
  <2>2. c # e
    BY <1>2, <1>3, <1>7, <2>1 DEF cow_map, Handles
  <2>3. \A v \in 1..Top : pt'[c][v] = pt[c][v]
    BY <1>1, <1>7, <2>2, CowMapAt DEF Sets
  <2>4. ASSUME NEW v \in 1..Top, NEW w \in Words
        PROVE  mem[pt'[h][v].page][w] = mem[pt[h][v].page][w]
    <3>1. CASE h = e /\ v = cow[e].va
      <4>1. Sets(e, cow[e].va, [page |-> pt[e][UCOW].page, perm |-> cow[e].perm])
        BY <1>1, <1>7, CowMapAt
      <4>2. pt'[e][v].page = pt[e][UCOW].page
        BY <3>1, <4>1 DEF Sets
      <4>3. mem[pt[e][UCOW].page][w] = mem[pt[e][cow[e].va].page][w]
        BY <1>1, <1>7 DEF CopyGood, cow_map, Handles
      <4> QED BY <3>1, <4>2, <4>3
    <3>2. CASE h # e \/ v # cow[e].va
      <4>1. pt'[h][v] = pt[h][v]
        BY <1>1, <1>7, <3>2, CowMapAt DEF Sets
      <4> QED BY <4>1
    <3> QED BY <3>1, <3>2
  <2>5. ASSUME NEW v \in 1..Top, Seen(h, v)
        PROVE  Seen(h, v)'
    BY <2>1, <2>3, <2>4, <2>5, SeenKept
  <2> QED BY <1>4, <2>1, <2>5
<1>8. ASSUME NEW e \in Envs, NEW v \in Addr, NEW w \in Words, do_tlb_mod(e, v, w)
      PROVE  /\ pc'[h] = "start" => frame'[h].va = Top + 1
             /\ \A u \in 1..Top : Past(h, u)' => Seen(h, u)'
  BY <1>4, <1>8 DEF do_tlb_mod, Seen, Mapped
<1>9. ASSUME NEW e \in Envs, NEW c \in Envs, fork(e, c)
      PROVE  /\ pc'[h] = "start" => frame'[h].va = Top + 1
             /\ \A v \in 1..Top : Past(h, v)' => Seen(h, v)'
  <2>1. CASE h = e
    <3>1. pc'[h] = "scan" /\ frame'[h].va = 0
      BY <1>1, <1>9, <2>1 DEF TypeOK, fork, Goto
    <3> QED BY <3>1 DEF Past
  <2>2. CASE h # e
    <3>1. pc'[h] = pc[h] /\ frame'[h] = frame[h] /\ pt' = pt /\ mem' = mem
      BY <1>1, <1>9, <2>2 DEF TypeOK, fork, Goto
    <3> QED BY <1>4, <3>1 DEF Seen, Mapped
  <2> QED BY <2>1, <2>2
<1>10. ASSUME NEW e \in Envs, skip(e) \/ duppage(e) \/ set_tlb_mod_entry(e) \/ set_env_status(e)
       PROVE  /\ pc'[h] = "start" => frame'[h].va = Top + 1
              /\ \A v \in 1..Top : Past(h, v)' => Seen(h, v)'
  <2>1. pt' = pt /\ mem' = mem
    BY <1>10 DEF skip, duppage, set_tlb_mod_entry, set_env_status
  <2>2. CASE h # e
    <3>1. pc'[h] = pc[h] /\ frame'[h] = frame[h]
      BY <1>1, <1>10, <2>2 DEF TypeOK, skip, duppage, set_tlb_mod_entry, set_env_status, Goto
    <3> QED BY <1>4, <2>1, <3>1 DEF Seen, Mapped
  <2>3. CASE h = e
    <3>1. pc[h] # "user" /\ pc[h] # "map2"
      BY <1>10, <2>3 DEF skip, duppage, set_tlb_mod_entry, set_env_status, Calls, At
    <3>2. ~set_env_status(e)
      BY <1>1, <1>2, <2>3 DEF TypeOK, set_env_status, Goto
    <3>3. frame'[h].child = frame[h].child /\ pc'[h] # "map2"
      BY <1>1, <1>10, <2>3, <3>2 DEF TypeOK, skip, duppage, set_tlb_mod_entry, Goto, Calls, At
    <3>4. pc'[h] = "start" => frame'[h].va = Top + 1
      BY <1>1, <1>10, <2>3, <3>2 DEF TypeOK, skip, duppage, set_tlb_mod_entry, Goto, Calls, At
    <3>5. ASSUME NEW v \in 1..Top, v < frame'[h].va
          PROVE  v < frame[h].va
      <4>1. CASE skip(e)
        <5>1. frame'[h].va = frame[h].va + 1 /\ ~Mapped(h, frame[h].va) /\ frame[h].va \in Nat
          BY <1>1, <2>3, <4>1, CowAssumption DEF TypeOK, skip, Goto, NextPage
        <5>2. v # frame[h].va
          BY <1>3, <3>1, <5>1
        <5> QED BY <3>5, <5>1, <5>2, CowAssumption
      <4>2. CASE ~skip(e)
        <5>1. frame'[h].va = frame[h].va
          BY <1>1, <1>10, <2>3, <3>2, <4>2 DEF TypeOK, duppage, set_tlb_mod_entry, Goto
        <5> QED BY <3>5, <5>1
      <4> QED BY <4>1, <4>2
    <3>6. ASSUME NEW v \in 1..Top, Past(h, v)'
          PROVE  Seen(h, v)'
      <4>1. Seen(h, v)
        BY <1>3, <3>1, <3>3, <3>5, <3>6 DEF Past
      <4> QED BY <2>1, <3>3, <4>1 DEF Seen, Mapped
    <3> QED BY <3>4, <3>6
  <2> QED BY <2>2, <2>3
<1>11. ASSUME NEW e \in Envs, duppage_1(e) \/ duppage_2(e)
       PROVE  /\ pc'[h] = "start" => frame'[h].va = Top + 1
              /\ \A v \in 1..Top : Past(h, v)' => Seen(h, v)'
  <2> PICK c \in Envs, x \in Addr : c = frame[e].child /\ x = frame[e].va
    BY <1>1, <1>11 DEF TypeOK, ForkOK, Forks, duppage_1, duppage_2, Calls, At
  <2>1. /\ pc[e] \in {"map", "map2"} /\ state[e] = "running" /\ state[c] = "embryo" /\ Mapped(e, x)
        /\ mem' = mem
    BY <1>1, <1>11 DEF ForkOK, Forks, duppage_1, duppage_2, Calls, At
  <2>2. PICK g \in {c, e} : /\ (g = c /\ duppage_1(e)) \/ (g = e /\ duppage_2(e))
                            /\ pt'[g][x].page = pt[e][x].page
                            /\ \A i \in Envs, u \in Addr : i # g \/ u # x => pt'[i][u] = pt[i][u]
    <3>1. CASE duppage_1(e)
      <4>1. Sets(c, x, [page |-> pt[e][x].page, perm |-> Given(frame[e].perm)])
        BY <1>1, <3>1, Duppage1At
      <4>2. pt'[c][x].page = pt[e][x].page
        BY <4>1 DEF Sets
      <4> QED BY <3>1, <4>1, <4>2 DEF Sets
    <3>2. CASE duppage_2(e)
      <4>1. Sets(e, x, [page |-> pt[e][x].page, perm |-> Given(frame[e].perm)])
        BY <1>1, <3>2, Duppage2At
      <4>2. pt'[e][x].page = pt[e][x].page
        BY <4>1 DEF Sets
      <4> QED BY <3>2, <4>1, <4>2 DEF Sets
    <3> QED BY <1>11, <3>1, <3>2
  <2>3. CASE h # e
    <3>1. pc'[h] = pc[h] /\ frame'[h] = frame[h]
      BY <1>1, <1>11, <2>3 DEF TypeOK, duppage_1, duppage_2, Goto
    <3>2. PICK d \in Envs : d = frame[h].child
      BY <1>1 DEF TypeOK
    <3>3. d \notin {c, e} /\ h \notin {c, e}
      BY <1>1, <1>2, <1>3, <2>1, <2>3, <3>1, <3>2 DEF ForkOK, OneParent
    <3>4. \A v \in 1..Top : pt'[d][v] = pt[d][v] /\ pt'[h][v] = pt[h][v]
      BY <1>1, <2>2, <3>3
    <3>5. ASSUME NEW v \in 1..Top, Seen(h, v)
          PROVE  Seen(h, v)'
      BY <2>1, <3>1, <3>2, <3>4, <3>5, SeenKept
    <3> QED BY <1>4, <3>1, <3>5
  <2>4. CASE h = e
    <3>1. /\ frame'[e].child = c /\ pc'[e] \in {"scan", "map2"}
          /\ frame'[e].va = x \/ (pc'[e] = "scan" /\ frame'[e].va = x + 1)
      BY <1>1, <1>11 DEF TypeOK, duppage_1, duppage_2, Goto, NextPage, Calls, At
    <3>2. ASSUME NEW v \in 1..Top, Past(e, v)'
          PROVE  Seen(e, v)'
      <4>1. v < x \/ v = x
        BY <3>1, <3>2, CowAssumption DEF Past, Addr
      <4>2. CASE v < x
        <5>1. v # x /\ Past(e, v)
          BY <4>2, CowAssumption DEF Past, Addr
        <5>2. Seen(e, v)
          BY <1>2, <1>3, <2>1, <2>4, <5>1
        <5>3. pt'[c][v] = pt[c][v] /\ pt'[e][v] = pt[e][v]
          BY <1>1, <2>2, <5>1
        <5> QED BY <2>1, <3>1, <5>2, <5>3, SeenKept
      <4>3. CASE v = x /\ g = c
        <5>1. pt'[e][x] = pt[e][x] /\ pt'[c][x].page = pt[e][x].page
          BY <2>1, <2>2, <4>3
        <5> QED BY <2>1, <3>1, <4>3, <5>1 DEF Seen, Mapped
      <4>4. CASE v = x /\ g = e /\ g # c
        <5>1. Past(e, v)
          BY <2>2, <4>4 DEF duppage_2, Calls, At, Past
        <5>2. Seen(e, v)
          BY <1>2, <1>3, <2>1, <2>4, <5>1
        <5>3. pt'[c][x] = pt[c][x] /\ pt'[e][x].page = pt[e][x].page
          BY <2>2, <4>4
        <5> QED BY <2>1, <3>1, <4>4, <5>2, <5>3, SeenKept
      <4> QED BY <2>2, <4>1, <4>2, <4>3, <4>4
    <3> QED BY <2>4, <3>1, <3>2
  <2> QED BY <2>3, <2>4
<1> QED BY <1>5, <1>6, <1>7, <1>8, <1>9, <1>10, <1>11 DEF Next

----------------------------------------------------------------------------
LEMMA MemInvAlways == Spec => [](CowInv /\ MemInv)
<1>1. CowInv /\ MemInv /\ UNCHANGED vars => MemInv'
  <2> SUFFICES ASSUME CowInv, MemInv, UNCHANGED vars PROVE MemInv'
    OBVIOUS
  <2>1. /\ pt' = pt /\ mem' = mem /\ state' = state /\ pc' = pc /\ frame' = frame /\ cow' = cow
    BY DEF vars
  <2>2. SharedSame' /\ AllMapped'
    BY <2>1 DEF MemInv, SharedSame, AllMapped, Running, Mapped
  <2>3. CopyGood'
    BY <2>1 DEF MemInv, CopyGood
  <2>4. ChildSees'
    BY <2>1 DEF MemInv, ChildSees, Past, Mapped
  <2> QED BY <2>2, <2>3, <2>4 DEF MemInv
<1>2. CowInv /\ MemInv /\ [Next]_vars => MemInv'
  BY <1>1, SharedStep, MappedStep, CopyStep, ChildStep DEF MemInv
<1> QED BY InvAlways, InitMem, <1>2, PTL DEF Spec

LEMMA OwnPages ==
  ASSUME CowInv, MemInv, NEW e \in Envs, NEW v \in 1..Top
  PROVE  /\ Own[e][v] = IF state[e] = "running" THEN mem[pt[e][v].page] ELSE Blank
         /\ state[e] = "running" => pt[e][v].page \in Pages
<1>1. state[e] = "running" => Mapped(e, v)
  BY DEF MemInv, AllMapped, Running
<1>2. v \in Addr
  BY CowAssumption DEF Addr
<1>3. pt[e][v].page \in Pages \cup {0}
  BY <1>2 DEF CowInv, TypeOK
<1> QED BY <1>1, <1>3 DEF Own, Mapped

LEMMA InitMemories == Init => Private_memories!Init
<1> SUFFICES ASSUME Init PROVE Private_memories!Init
  OBVIOUS
<1>1. CowInv /\ MemInv
  BY InitInv, InitMem
<1>2. Running = {Root}
  BY CowAssumption DEF Init, Running
<1>3. \A e \in Envs, v \in 1..Top : Own[e][v] = Blank
  BY <1>1, OwnPages DEF Init
<1>4. Own = [e \in Envs |-> [v \in 1..Top |-> [w \in Words |-> 0]]]
  BY <1>3 DEF Own, Blank
<1> QED BY <1>2, <1>4 DEF Private_memories!Init

(* A store changes the memory of the env and of those who share the page. *)
LEMMA StoreMemories ==
  ASSUME CowInv, MemInv, CowInv', MemInv', NEW e \in Envs, NEW v \in Addr, NEW w \in Words, Store(e, v, w)
  PROVE  v \in 1..Top /\ Private_memories!Store(e, v, w)
<1>1. /\ state[e] = "running" /\ cow[e].pc = "none" /\ MayStore(e, v, w) /\ Writable(e, v)
      /\ pt' = pt /\ state' = state /\ Running' = Running
  BY DEF Store, MayStore, InUser, Running
<1>2. v \in 1..Top
  BY <1>1, CowAssumption DEF CowInv, CowOK, Copies, Writable, Addr, UCOW
<1>3. writes' \in Values
  BY DEF CowInv, TypeOK
<1>4. pt[e][v].page \in Pages /\ TypeOK
  BY StoreMem DEF CowInv
<1>5. ASSUME NEW f \in Envs, NEW u \in 1..Top
      PROVE  Own'[f][u] = IF u = v /\ (f = e \/ (v \in Shared /\ f \in Running))
                          THEN [Own[f][u] EXCEPT ![w] = writes']
                          ELSE Own[f][u]
  <2>1. u \in Addr
    BY CowAssumption DEF Addr
  <2>2. /\ Own[f][u] = IF state[f] = "running" THEN mem[pt[f][u].page] ELSE Blank
        /\ state[f] = "running" => pt[f][u].page \in Pages
    BY OwnPages
  <2>3. Own'[f][u] = IF state[f] = "running" THEN mem'[pt[f][u].page] ELSE Blank
    <3>1. state'[f] = "running" => Mapped(f, u)'
      BY DEF MemInv, AllMapped, Running
    <3> QED BY <1>1, <3>1 DEF Own, Mapped
  <2>4. CASE state[f] # "running"
    BY <1>1, <2>2, <2>3, <2>4 DEF Running
  <2>5. CASE state[f] = "running" /\ pt[f][u].page = pt[e][v].page
    <3>1. u = v /\ (f = e \/ v \in Shared)
      BY <1>1, <2>1, <2>5, StoreAlone
    <3>2. mem'[pt[f][u].page] = [mem[pt[f][u].page] EXCEPT ![w] = writes']
      BY <1>4, <2>5 DEF Store, TypeOK
    <3> QED BY <2>2, <2>3, <2>5, <3>1, <3>2 DEF Running
  <2>6. CASE state[f] = "running" /\ pt[f][u].page # pt[e][v].page
    <3>1. ~(u = v /\ f = e)
      BY <2>6
    <3>2. ~(u = v /\ v \in Shared)
      BY <1>1, <1>2, <2>6 DEF MemInv, SharedSame, AllMapped, Running
    <3>3. mem'[pt[f][u].page] = mem[pt[f][u].page]
      BY <1>4, <2>2, <2>6 DEF Store, TypeOK
    <3> QED BY <2>2, <2>3, <2>6, <3>1, <3>2, <3>3
  <2> QED BY <2>4, <2>5, <2>6
<1>6. Own' = [f \in Envs |-> [u \in 1..Top |->
               IF u = v /\ (f = e \/ (v \in Shared /\ f \in Running))
               THEN [Own[f][u] EXCEPT ![w] = writes'] ELSE Own[f][u]]]
  BY <1>5 DEF Own
<1> QED BY <1>1, <1>2, <1>3, <1>6 DEF Private_memories!Store, Running

(* The last call of fork gives the child the memory that its parent has. *)
LEMMA ForkMemories ==
  ASSUME CowInv, MemInv, CowInv', MemInv', NEW e \in Envs, set_env_status(e)
  PROVE  \E c \in Envs : Private_memories!Fork(e, c)
<1> PICK c \in Envs : c = frame[e].child
  BY DEF CowInv, TypeOK
<1>1. /\ pc[e] = "start" /\ state[e] = "running" /\ state[c] = "embryo"
      /\ pt' = pt /\ mem' = mem /\ state' = [state EXCEPT ![c] = "running"]
  BY DEF set_env_status, Calls, At, CowInv, ForkOK, Forks
<1>2. \A f \in Envs : state'[f] = IF f = c THEN "running" ELSE state[f]
  BY <1>1 DEF CowInv, TypeOK
<1>3. e \in Running /\ c \notin Running /\ Running' = Running \cup {c}
  BY <1>1, <1>2 DEF Running
<1>4. Stack \in 1..Top /\ Dead \in Words /\ 1..Top \subseteq Addr
  BY CowAssumption DEF Stack, Dead, Words, Addr
<1> DEFINE x == mem[pt[c][Stack].page][Dead]
<1>5. \A v \in 1..Top : pt[c][v].page \in Pages
  <2>1. \A v \in 1..Top : Mapped(c, v)'
    BY <1>2 DEF MemInv, AllMapped, Running
  <2> QED BY <1>1, <1>4, <2>1 DEF CowInv, TypeOK, Mapped
<1>6. x \in Values
  BY <1>4, <1>5 DEF CowInv, TypeOK
<1>7. ASSUME NEW v \in 1..Top
      PROVE  mem[pt[c][v].page] = IF v = Stack THEN [mem[pt[e][v].page] EXCEPT ![Dead] = x]
                                  ELSE mem[pt[e][v].page]
  <2>1. \A w \in Words : v # Stack \/ w # Dead =>
          mem[pt[c][v].page][w] = mem[pt[e][v].page][w]
    BY <1>1, CowAssumption DEF MemInv, ChildSees, Past
  <2>2. pt[e][v].page \in Pages
    BY <1>1, OwnPages
  <2>3. mem[pt[c][v].page] \in [Words -> Values] /\ mem[pt[e][v].page] \in [Words -> Values]
    BY <1>5, <2>2 DEF CowInv, TypeOK
  <2> QED BY <1>4, <2>1, <2>3
<1>8. ASSUME NEW f \in Envs, NEW v \in 1..Top
      PROVE  Own'[f][v] = IF f = c THEN (IF v = Stack THEN [Own[e][v] EXCEPT ![Dead] = x] ELSE Own[e][v])
                          ELSE Own[f][v]
  <2>1. Own'[f][v] = IF state'[f] = "running" THEN mem[pt[f][v].page] ELSE Blank
    <3>1. state'[f] = "running" => Mapped(f, v)'
      BY DEF MemInv, AllMapped, Running
    <3> QED BY <1>1, <3>1 DEF Own, Mapped
  <2>2. /\ Own[f][v] = IF state[f] = "running" THEN mem[pt[f][v].page] ELSE Blank
        /\ Own[e][v] = mem[pt[e][v].page]
    BY <1>1, OwnPages
  <2> QED BY <1>2, <1>7, <2>1, <2>2
<1>9. Own' = [Own EXCEPT ![c] = [v \in 1..Top |->
               IF v = Stack THEN [Own[e][v] EXCEPT ![Dead] = x] ELSE Own[e][v]]]
  <2> HIDE DEF x
  <2> QED BY <1>8 DEF Own
<1> QED BY <1>3, <1>6, <1>9 DEF Private_memories!Fork

(* No other step is seen: a copy has the contents of what it replaces. *)
LEMMA UnseenStep ==
  ASSUME CowInv, MemInv, CowInv', MemInv', NEW e \in Envs,
         \/ \E v \in Addr, w \in Words : do_tlb_mod(e, v, w)
         \/ cow_alloc(e) \/ cow_copy(e) \/ cow_map(e) \/ cow_unmap(e)
         \/ \E c \in Envs : fork(e, c)
         \/ skip(e) \/ duppage(e) \/ duppage_1(e) \/ duppage_2(e) \/ set_tlb_mod_entry(e)
  PROVE  Running' = Running /\ Own' = Own
<1>1. TypeOK /\ CowOK /\ ForkOK /\ CopyGood /\ 1..Top \subseteq Addr /\ UCOW \notin 1..Top
  BY CowAssumption DEF CowInv, MemInv, Addr, UCOW
<1>2. \A f \in Envs : state'[f] = "running" <=> state[f] = "running"
  <2>1. ASSUME NEW c \in Envs, fork(e, c)
        PROVE  \A f \in Envs : state'[f] = "running" <=> state[f] = "running"
    BY <1>1, <2>1 DEF TypeOK, fork
  <2> QED BY <2>1 DEF do_tlb_mod, cow_alloc, cow_copy, cow_map, cow_unmap, skip, duppage, duppage_1,
             duppage_2, set_tlb_mod_entry
<1>3. ASSUME NEW f \in Envs, NEW v \in 1..Top, state[f] = "running"
      PROVE  mem'[pt'[f][v].page] = mem[pt[f][v].page]
  <2>1. v \in Addr /\ v # UCOW /\ Mapped(f, v) /\ pt[f][v].page \in Pages
    BY <1>1, <1>3, OwnPages DEF MemInv, AllMapped, Running
  <2>2. CASE cow_alloc(e)
    <3>1. pt'[f][v] = pt[f][v]
      BY <1>1, <2>1, <2>2, AllocAt DEF Sets
    <3> QED BY <2>1, <2>2, <3>1, AllocMem
  <2>3. CASE cow_copy(e)
    <3>1. pt[f][v].page # pt[e][UCOW].page
      BY <2>1, <2>3, UcowAlone DEF cow_copy, Handles
    <3> QED BY <1>1, <2>1, <2>3, <3>1 DEF TypeOK, cow_copy
  <2>4. CASE cow_map(e)
    <3>1. Sets(e, cow[e].va, [page |-> pt[e][UCOW].page, perm |-> cow[e].perm])
      BY <1>1, <2>4, CowMapAt
    <3>2. CASE f = e /\ v = cow[e].va
      <4>1. \A w \in Words : mem[pt[e][UCOW].page][w] = mem[pt[e][v].page][w]
        BY <1>1, <2>4, <3>2 DEF CopyGood, cow_map, Handles
      <4>2. pt[e][UCOW].page \in Pages
        <5>1. Mapped(e, UCOW)
          BY <1>1, <2>4 DEF CowOK, Copies, cow_map, Handles
        <5> QED BY <1>1, <5>1, Places DEF TypeOK, Mapped
      <4>3. mem[pt[e][UCOW].page] = mem[pt[e][v].page]
        BY <1>1, <2>1, <3>2, <4>1, <4>2 DEF TypeOK
      <4>4. pt'[f][v].page = pt[e][UCOW].page
        BY <3>1, <3>2 DEF Sets
      <4> QED BY <2>4, <3>2, <4>3, <4>4 DEF cow_map
    <3>3. CASE ~(f = e /\ v = cow[e].va)
      <4>1. pt'[f][v] = pt[f][v]
        BY <2>1, <3>1, <3>3 DEF Sets
      <4> QED BY <2>4, <4>1 DEF cow_map
    <3> QED BY <3>2, <3>3
  <2>5. CASE cow_unmap(e)
    <3>1. pt'[f][v] = pt[f][v]
      BY <1>1, <2>1, <2>5, CowUnmapAt DEF Sets
    <3> QED BY <2>5, <3>1 DEF cow_unmap
  <2>6. CASE duppage_1(e)
    <3>1. state[frame[e].child] = "embryo"
      BY <1>1, <2>6 DEF ForkOK, Forks, duppage_1, Calls, At
    <3>2. pt'[f][v] = pt[f][v]
      BY <1>1, <1>3, <2>1, <2>6, <3>1, Duppage1At DEF Sets
    <3> QED BY <2>6, <3>2 DEF duppage_1
  <2>7. CASE duppage_2(e)
    <3>1. Sets(e, frame[e].va, [page |-> pt[e][frame[e].va].page, perm |-> Given(frame[e].perm)])
      BY <1>1, <2>7, Duppage2At
    <3>2. pt'[f][v].page = pt[f][v].page
      <4>1. CASE f = e /\ v = frame[e].va
        BY <3>1, <4>1 DEF Sets
      <4>2. CASE ~(f = e /\ v = frame[e].va)
        <5>1. pt'[f][v] = pt[f][v]
          BY <2>1, <3>1, <4>2 DEF Sets
        <5> QED BY <5>1
      <4> QED BY <4>1, <4>2
    <3> QED BY <2>7, <3>2 DEF duppage_2
  <2>8. CASE pt' = pt /\ mem' = mem
    BY <2>8
  <2> QED BY <2>2, <2>3, <2>4, <2>5, <2>6, <2>7, <2>8
        DEF do_tlb_mod, fork, skip, duppage, set_tlb_mod_entry
<1>4. Running' = Running
  BY <1>2 DEF Running
<1>5. ASSUME NEW f \in Envs, NEW v \in 1..Top
      PROVE  Own'[f][v] = Own[f][v]
  <2>1. Own[f][v] = IF state[f] = "running" THEN mem[pt[f][v].page] ELSE Blank
    BY OwnPages
  <2>2. Own'[f][v] = IF state'[f] = "running" THEN mem'[pt'[f][v].page] ELSE Blank
    <3>1. state'[f] = "running" => Mapped(f, v)'
      BY DEF MemInv, AllMapped, Running
    <3> QED BY <3>1 DEF Own, Mapped
  <2> QED BY <1>2, <1>3, <2>1, <2>2
<1>6. Own' = Own
  BY <1>5 DEF Own
<1> QED BY <1>4, <1>6

(* fork and copy-on-write give each env a memory of its own, in which only *)
(* the pages shared on purpose change without it: what duppage and         *)
(* cow_entry do in between is not seen.                                    *)
THEOREM ForkImplementsMemories == Spec => ImplementsMemories
<1>1. CowInv /\ MemInv /\ (CowInv /\ MemInv)' /\ [Next]_vars
      => [Private_memories!Next]_<<Running, Own>>
  <2> SUFFICES ASSUME CowInv, MemInv, CowInv', MemInv', [Next]_vars
               PROVE  [Private_memories!Next]_<<Running, Own>>
    OBVIOUS
  <2>1. CASE UNCHANGED vars
    BY <2>1 DEF vars, Running, Own, Mapped
  <2>2. ASSUME NEW e \in Envs, NEW v \in Addr, NEW w \in Words, Store(e, v, w)
        PROVE  Private_memories!Next
    BY <2>2, StoreMemories DEF Private_memories!Next
  <2>3. ASSUME NEW e \in Envs, set_env_status(e)
        PROVE  Private_memories!Next
    BY <2>3, ForkMemories DEF Private_memories!Next
  <2> QED BY <2>1, <2>2, <2>3, UnseenStep DEF Next
<1> QED BY InitMemories, MemInvAlways, <1>1, PTL DEF Spec, ImplementsMemories, Private_memories!Spec
=============================================================================
