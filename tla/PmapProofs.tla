----------------------------- MODULE PmapProofs -----------------------------
(***************************************************************************)
(* The page tables, the reference counts, the free list and the TLB agree, *)
(* for every number of envs and pages and whatever user programs call.     *)
(***************************************************************************)
EXTENDS Pmap, TLAPS, FiniteSetTheorems

(* The inductive invariant: a free page is not counted, and what the TLB   *)
(* and the counts say is what the page tables say.                         *)
FreeUncounted == \A p \in page_free_list : pp_ref[p] = 0

PmapInv == TypeOK /\ RefsExact /\ FreeUncounted /\ TlbCoherent /\ TablesPrivate

(* env_alloc gives a new directory to a slot whose old one is gone.        *)
DeadUnmapped == \A e \in Envs \ live, a \in Addr : pt[e][a] = Nil

PmapInd == PmapInv /\ DeadUnmapped

----------------------------------------------------------------------------
LEMMA Division == ASSUME NEW v \in Nat, NEW n \in Nat \ {0} PROVE v \div n \in 0..v
<1> DEFINE d == v \div n
<1>1. d \in Int /\ n * d <= v /\ v < n * d + n
  OBVIOUS
<1>2. d >= 0
  <2> SUFFICES ASSUME d <= -1 PROVE FALSE BY <1>1
  <2>1. n * d <= n * (-1) BY <1>1
  <2> QED BY <1>1, <2>1
<1>3. d <= n * d BY <1>1, <1>2
<1> QED BY <1>1, <1>2, <1>3

(* The three kinds of addresses are apart, and there are finitely many.    *)
LEMMA Addresses ==
  /\ User \subseteq Addr /\ Tables \subseteq Addr /\ Pgdir \in Addr
  /\ \A v \in User : Table(v) \in Tables /\ Table(v) # v
  /\ User \cap Tables = {} /\ Pgdir \notin User /\ Pgdir \notin Tables
  /\ IsFiniteSet(Addr)
<1>1. ASSUME NEW v \in User PROVE Table(v) \in Nat /\ Table(v) >= NVA /\ Table(v) <= 2 * NVA
  <2>1. v \in Nat /\ v <= NVA - 1 /\ PerTable \in Nat \ {0} /\ NVA \in Nat
    BY PmapAssumption DEF User
  <2>2. v \div PerTable \in 0..v BY <2>1, Division
  <2> QED BY <2>1, <2>2 DEF Table
<1>2. Addr \subseteq -1..2 * NVA
  BY <1>1, PmapAssumption DEF Addr, User, Tables, Pgdir
<1>3. IsFiniteSet(Addr)
  <2>1. IsFiniteSet(-1..2 * NVA)
    <3>1. 2 * NVA \in Int /\ -1 \in Int BY PmapAssumption
    <3> QED BY <3>1, FS_Interval
  <2> QED BY <1>2, <2>1, FS_Subset
<1> QED BY <1>1, <1>3, PmapAssumption DEF Addr, User, Tables, Pgdir

LEMMA MappingsFinite == \A p : IsFiniteSet(Mappings(p))
<1>1. IsFiniteSet(Envs \X Addr)
  BY Addresses, PmapAssumption, FS_Product
<1> QED BY <1>1, FS_Subset DEF Mappings

LEMMA FreeUnmapped == PmapInv => \A p \in page_free_list : Mappings(p) = {}
  BY MappingsFinite, FS_EmptySet DEF PmapInv, TypeOK, RefsExact, FreeUncounted

(* page_insert, where it succeeds.  The page comes from the free list or   *)
(* is a page that a program has; a page table is made up by passive_alloc. *)
LEMMA InsertKeeps ==
  ASSUME PmapInv, NEW e \in Envs, NEW a \in User \cup Tables,
         NEW p \in Pages, NEW perm \in Perms,
         NEW free \in SUBSET page_free_list, p \notin free,
         p \in page_free_list \/ \E s \in Envs, v \in User : p \in PagesAt(s, v),
         a \in Tables => pt[e][a] = Nil /\ p \in page_free_list /\ "D" \notin perm,
         Insert(e, a, p, perm, free)
  PROVE  /\ pt' \in [Envs -> [Addr -> Entry \cup {Nil}]]
         /\ pp_ref' \in [Pages -> Nat] /\ page_free_list' \subseteq Pages
         /\ RefsExact' /\ FreeUncounted' /\ TablesPrivate'
         /\ \A f \in Envs, b \in Addr :
              pt[f][b] # Nil /\ ~(f = e /\ b = a) => pt'[f][b] = pt[f][b]
<1> USE DEF PmapInv, TypeOK
<1>1. PICK q \in IF NeedsTable(e, a) THEN free ELSE {Nil} :
        /\ pt' = [pt EXCEPT ![e] = [b \in Addr |->
                    IF b = a THEN [page |-> p, perm |-> perm]
                    ELSE IF q # Nil /\ b = Table(a) THEN [page |-> q, perm |-> {}]
                    ELSE pt[e][b]]]
        /\ Count({p, q} \ {Nil}, Replaced(e, a), free \ {q})
  BY DEF Insert
<1> DEFINE x == <<e, a>>
           y == <<e, Table(a)>>
<1>2. q # Nil => /\ q \in Pages /\ q \in page_free_list /\ q # p
                 /\ a \in User /\ Table(a) \in Tables /\ Table(a) # a /\ pt[e][Table(a)] = Nil
  BY Addresses DEF NeedsTable
<1>3. a \in Addr BY Addresses
<1>4. ASSUME NEW f \in Envs, NEW b \in Addr
      PROVE  pt'[f][b] = IF f = e /\ b = a THEN [page |-> p, perm |-> perm]
                         ELSE IF f = e /\ q # Nil /\ b = Table(a) THEN [page |-> q, perm |-> {}]
                         ELSE pt[f][b]
  BY <1>1
<1>5. pt' \in [Envs -> [Addr -> Entry \cup {Nil}]]
  BY <1>1, <1>2, PmapAssumption DEF Entry
<1>6. ASSUME NEW r \in Pages
      PROVE  /\ Mappings(r)' = (Mappings(r) \ {x}) \cup (IF r = p THEN {x} ELSE {})
                               \cup (IF r = q THEN {y} ELSE {})
             /\ y \in Mappings(r) => q = Nil
             /\ x \in Mappings(r) <=> r \in Replaced(e, a)
  <2>1. ASSUME NEW f \in Envs, NEW b \in Addr
        PROVE  r \in PagesAt(f, b)' <=>
                 IF f = e /\ b = a THEN r = p
                 ELSE IF f = e /\ q # Nil /\ b = Table(a) THEN r = q
                 ELSE r \in PagesAt(f, b)
    <3>1. [page |-> p, perm |-> perm] # Nil
      <4>1. [page |-> p, perm |-> perm] \in Entry BY DEF Entry
      <4> QED BY <4>1, NilAssumption
    <3>2. q # Nil => [page |-> q, perm |-> {}] # Nil
      <4>1. q # Nil => [page |-> q, perm |-> {}] \in Entry BY <1>2, PmapAssumption DEF Entry
      <4> QED BY <4>1, NilAssumption
    <3> QED BY <1>4, <3>1, <3>2 DEF PagesAt
  <2>2. \A f \in Envs, b \in Addr : <<f, b>> \in Mappings(r)' <=> r \in PagesAt(f, b)'
    BY DEF Mappings
  <2>3. \A f \in Envs, b \in Addr : <<f, b>> \in Mappings(r) <=> r \in PagesAt(f, b)
    BY DEF Mappings
  <2>4. Mappings(r) \subseteq Envs \X Addr /\ Mappings(r)' \subseteq Envs \X Addr
    BY DEF Mappings
  <2>5. q # Nil => y \in Envs \X Addr /\ y # x /\ r \notin PagesAt(e, Table(a))
    BY <1>2, Addresses DEF PagesAt
  <2>6. r # Nil BY PmapAssumption
  <2>7. x \in Mappings(r) <=> r \in Replaced(e, a)
    BY <2>3, <1>3 DEF Replaced
  <2>8. y \in Mappings(r) => q = Nil
    BY <2>3, <2>5, <1>2, Addresses
  <2>9. ASSUME NEW z
        PROVE  z \in Mappings(r)' <=> z \in (Mappings(r) \ {x}) \cup (IF r = p THEN {x} ELSE {})
                                             \cup (IF r = q THEN {y} ELSE {})
    <3>1. CASE z \in Envs \X Addr
      <4>1. PICK f \in Envs, b \in Addr : z = <<f, b>> BY <3>1
      <4>2. z = x <=> f = e /\ b = a BY <4>1
      <4>3. q # Nil => (z = y <=> f = e /\ b = Table(a)) BY <4>1
      <4> QED BY <4>1, <4>2, <4>3, <2>1, <2>2, <2>3, <2>5, <2>6, <1>2
    <3>2. CASE z \notin Envs \X Addr
      BY <3>2, <2>4, <2>5, <2>6, <1>3
    <3> QED BY <3>1, <3>2
  <2> QED BY <2>7, <2>8, <2>9
<1>7. ASSUME NEW r \in page_free_list PROVE Mappings(r) = {}
  BY FreeUnmapped
<1>8. ASSUME NEW r \in Pages
      PROVE pp_ref'[r] = pp_ref[r] + (IF r = p \/ r = q THEN 1 ELSE 0)
                                   - (IF r \in Replaced(e, a) THEN 1 ELSE 0)
  BY <1>1, PmapAssumption DEF Count
<1>9. ASSUME NEW r \in Pages
      PROVE pp_ref'[r] = Cardinality(Mappings(r)') /\ pp_ref'[r] \in Nat
  <2> DEFINE M1 == Mappings(r) \ {x}
             M2 == M1 \cup (IF r = p THEN {x} ELSE {})
             M3 == M2 \cup (IF r = q THEN {y} ELSE {})
  <2>1. /\ IsFiniteSet(M1)
        /\ Cardinality(M1) = IF x \in Mappings(r) THEN Cardinality(Mappings(r)) - 1
                             ELSE Cardinality(Mappings(r))
    BY MappingsFinite, FS_RemoveElement
  <2>2. IsFiniteSet(M2) /\ Cardinality(M2) = Cardinality(M1) + (IF r = p THEN 1 ELSE 0)
    <3>1. x \notin M1 OBVIOUS
    <3> HIDE DEF x, M1
    <3>2. CASE r = p
      BY <3>1, <3>2, <2>1, FS_AddElement
    <3>3. CASE r # p
      <4>1. M2 = M1 BY <3>3
      <4> QED BY <4>1, <3>3, <2>1, FS_CardinalityType
    <3> QED BY <3>2, <3>3
  <2>3. r = q => y \notin M2
    BY <1>2, <1>6, PmapAssumption
  <2>4. IsFiniteSet(M3) /\ Cardinality(M3) = Cardinality(M2) + (IF r = q THEN 1 ELSE 0)
    <3> HIDE DEF y, M2
    <3>2. CASE r = q
      BY <3>2, <2>2, <2>3, FS_AddElement
    <3>3. CASE r # q
      <4>1. M3 = M2 BY <3>3
      <4> QED BY <4>1, <3>3, <2>2, FS_CardinalityType
    <3> QED BY <3>2, <3>3
  <2>5. Mappings(r)' = M3 BY <1>6
  <2>6. pp_ref[r] = Cardinality(Mappings(r)) BY DEF RefsExact
  <2>7. r = q => r # p BY <1>2, PmapAssumption
  <2>8. x \in Mappings(r) <=> r \in Replaced(e, a) BY <1>6
  <2>9. Cardinality(Mappings(r)) \in Nat /\ Cardinality(M3) \in Nat
    BY <2>4, MappingsFinite, FS_CardinalityType
  <2> HIDE DEF x, y, M1, M2, M3
  <2> QED BY <1>8, <2>1, <2>2, <2>4, <2>5, <2>6, <2>7, <2>8, <2>9
<1>10. pp_ref' \in [Pages -> Nat] /\ RefsExact'
  <2>1. DOMAIN pp_ref' = Pages /\ pp_ref' = [r \in Pages |-> pp_ref'[r]]
    BY <1>1 DEF Count
  <2> QED BY <1>9, <2>1 DEF RefsExact
<1>11. FreeUncounted' /\ page_free_list' \subseteq Pages
  <2>1. page_free_list' = (free \ {q}) \cup Released(Replaced(e, a), pp_ref')
    BY <1>1 DEF Count
  <2>2. Replaced(e, a) \subseteq Pages
    BY <1>3 DEF Replaced, PagesAt, Entry
  <2>3. ASSUME NEW r \in free \ {q} PROVE pp_ref'[r] = 0
    <3>1. r \in Pages /\ r # p /\ r # q /\ pp_ref[r] = 0
      BY DEF FreeUncounted
    <3>2. r \notin Replaced(e, a) BY <3>1, <1>6, <1>7
    <3> QED BY <3>1, <3>2, <1>8
  <2> QED BY <2>1, <2>2, <2>3 DEF FreeUncounted, Released
<1>12. TablesPrivate'
  <2> SUFFICES ASSUME NEW f \in Envs, NEW b \in Tables \cup {Pgdir}, NEW r \in Pages,
                      r \in PagesAt(f, b)'
               PROVE  Mappings(r)' = {<<f, b>>} /\ "D" \notin pt'[f][b].perm
    BY DEF TablesPrivate
  <2>1. b \in Addr BY Addresses
  <2>2. CASE f = e /\ b = a
    <3>1. r = p /\ "D" \notin pt'[f][b].perm
      BY <2>2, <1>4, <2>1, Addresses, PmapAssumption DEF PagesAt
    <3>2. Mappings(r) = {} /\ r # q
      BY <2>2, <3>1, <1>2, <1>7, PmapAssumption, Addresses
    <3> QED BY <2>2, <3>1, <3>2, <1>6
  <2>3. CASE ~(f = e /\ b = a) /\ f = e /\ q # Nil /\ b = Table(a)
    <3>1. r = q /\ "D" \notin pt'[f][b].perm
      BY <2>3, <1>4, <2>1 DEF PagesAt
    <3>2. Mappings(r) = {} /\ r # p
      BY <2>3, <3>1, <1>2, <1>7
    <3> QED BY <2>3, <3>1, <3>2, <1>6
  <2>4. CASE ~(f = e /\ b = a) /\ ~(f = e /\ q # Nil /\ b = Table(a))
    <3>1. pt'[f][b] = pt[f][b] BY <2>4, <1>4, <2>1
    <3>2. r \in PagesAt(f, b) BY <3>1 DEF PagesAt
    <3>3. Mappings(r) = {<<f, b>>} /\ "D" \notin pt[f][b].perm
      BY <3>2 DEF TablesPrivate
    <3>4. r # q BY <3>3, <1>2, <1>7, PmapAssumption
    <3>5. r # p
      <4>1. ASSUME NEW s \in Envs, NEW v \in User, r \in PagesAt(s, v) PROVE FALSE
        <5>1. <<s, v>> \in Mappings(r) BY <4>1, Addresses DEF Mappings
        <5> QED BY <5>1, <3>3, Addresses
      <4>2. r \notin page_free_list BY <3>3, <1>7
      <4> QED BY <4>1, <4>2
    <3>6. x \notin Mappings(r) BY <3>3, <2>4
    <3>7. Mappings(r)' = Mappings(r)
      <4>1. Mappings(r)' = (Mappings(r) \ {x}) \cup (IF r = p THEN {x} ELSE {})
                           \cup (IF r = q THEN {y} ELSE {})
        BY <1>6
      <4> HIDE DEF x, y
      <4> QED BY <4>1, <3>4, <3>5, <3>6
    <3> QED BY <3>1, <3>3, <3>7
  <2> QED BY <2>2, <2>3, <2>4
<1>13. \A f \in Envs, b \in Addr :
         pt[f][b] # Nil /\ ~(f = e /\ b = a) => pt'[f][b] = pt[f][b]
  BY <1>4, <1>2
<1> QED BY <1>5, <1>10, <1>11, <1>12, <1>13

(* page_remove of a page below UTOP. *)
LEMMA RemoveKeeps ==
  ASSUME PmapInv, NEW e \in Envs, NEW a \in User, page_remove(e, a)
  PROVE  /\ pt' \in [Envs -> [Addr -> Entry \cup {Nil}]]
         /\ pp_ref' \in [Pages -> Nat] /\ page_free_list' \subseteq Pages
         /\ RefsExact' /\ FreeUncounted' /\ TablesPrivate'
         /\ \A f \in Envs, b \in Addr : ~(f = e /\ b = a) => pt'[f][b] = pt[f][b]
<1> USE DEF PmapInv, TypeOK
<1> DEFINE x == <<e, a>>
<1>1. a \in Addr BY Addresses
<1>2. ASSUME NEW f \in Envs, NEW b \in Addr
      PROVE  pt'[f][b] = IF f = e /\ b = a THEN Nil ELSE pt[f][b]
  BY DEF page_remove
<1>3. pt' \in [Envs -> [Addr -> Entry \cup {Nil}]]
  BY DEF page_remove
<1>4. ASSUME NEW r \in Pages
      PROVE  Mappings(r)' = Mappings(r) \ {x} /\ (x \in Mappings(r) <=> r \in PagesAt(e, a))
  <2>1. ASSUME NEW f \in Envs, NEW b \in Addr
        PROVE  r \in PagesAt(f, b)' <=> ~(f = e /\ b = a) /\ r \in PagesAt(f, b)
    BY <1>2 DEF PagesAt
  <2> QED BY <1>1, <2>1 DEF Mappings
<1>5. ASSUME NEW r \in Pages
      PROVE pp_ref'[r] = pp_ref[r] - (IF r \in PagesAt(e, a) THEN 1 ELSE 0)
  BY DEF page_remove, Count
<1>6. ASSUME NEW r \in Pages
      PROVE pp_ref'[r] = Cardinality(Mappings(r)') /\ pp_ref'[r] \in Nat
  <2> DEFINE m == Cardinality(Mappings(r))
             m1 == Cardinality(Mappings(r) \ {x})
  <2>1. /\ IsFiniteSet(Mappings(r) \ {x})
        /\ m1 = IF x \in Mappings(r) THEN m - 1 ELSE m
    BY MappingsFinite, FS_RemoveElement
  <2>2. pp_ref[r] = m BY DEF RefsExact
  <2>3. m \in Nat /\ m1 \in Nat
    BY <2>1, MappingsFinite, FS_CardinalityType
  <2>4. Cardinality(Mappings(r)') = m1 BY <1>4
  <2>5. x \in Mappings(r) <=> r \in PagesAt(e, a) BY <1>4
  <2>6. pp_ref'[r] = pp_ref[r] - (IF r \in PagesAt(e, a) THEN 1 ELSE 0) BY <1>5
  <2> HIDE DEF x, m, m1
  <2> QED BY <2>1, <2>2, <2>3, <2>4, <2>5, <2>6
<1>7. pp_ref' \in [Pages -> Nat] /\ RefsExact'
  <2>1. DOMAIN pp_ref' = Pages /\ pp_ref' = [r \in Pages |-> pp_ref'[r]]
    BY DEF page_remove, Count
  <2> QED BY <1>6, <2>1 DEF RefsExact
<1>8. FreeUncounted' /\ page_free_list' \subseteq Pages
  <2>1. page_free_list' = page_free_list \cup Released(PagesAt(e, a), pp_ref')
    BY DEF page_remove, Count
  <2>2. PagesAt(e, a) \subseteq Pages
    BY <1>1 DEF PagesAt, Entry
  <2>3. ASSUME NEW r \in page_free_list PROVE pp_ref'[r] = 0
    <3>1. r \in Pages /\ pp_ref[r] = 0 /\ r \notin PagesAt(e, a)
      BY <1>4, FreeUnmapped DEF FreeUncounted
    <3> QED BY <3>1, <1>5
  <2> QED BY <2>1, <2>2, <2>3 DEF FreeUncounted, Released
<1>9. TablesPrivate'
  <2> SUFFICES ASSUME NEW f \in Envs, NEW b \in Tables \cup {Pgdir}, NEW r \in Pages,
                      r \in PagesAt(f, b)'
               PROVE  Mappings(r)' = {<<f, b>>} /\ "D" \notin pt'[f][b].perm
    BY DEF TablesPrivate
  <2>1. b \in Addr /\ b # a BY Addresses
  <2>2. pt'[f][b] = pt[f][b] BY <1>2, <2>1
  <2>3. r \in PagesAt(f, b) BY <2>2 DEF PagesAt
  <2>4. Mappings(r) = {<<f, b>>} /\ "D" \notin pt[f][b].perm
    BY <2>3 DEF TablesPrivate
  <2> QED BY <2>1, <2>2, <2>4, <1>4
<1> QED BY <1>2, <1>3, <1>7, <1>8, <1>9

(* env_free. *)
LEMMA DestroyKeeps ==
  ASSUME PmapInv, NEW e \in Envs, NEW t \in Envs, sys_env_destroy(e, t)
  PROVE  /\ pt' \in [Envs -> [Addr -> Entry \cup {Nil}]]
         /\ pp_ref' \in [Pages -> Nat] /\ page_free_list' \subseteq Pages
         /\ RefsExact' /\ FreeUncounted' /\ TablesPrivate' /\ TlbCoherent'
<1> USE DEF PmapInv, TypeOK
<1>1. ASSUME NEW f \in Envs, NEW b \in Addr
      PROVE  pt'[f][b] = IF f = t THEN Nil ELSE pt[f][b]
  BY DEF sys_env_destroy, Unmapped
<1>2. pt' \in [Envs -> [Addr -> Entry \cup {Nil}]]
  BY DEF sys_env_destroy, Unmapped
<1> DEFINE At(r) == {a \in Addr : r \in PagesAt(t, a)}
           There(r) == {z \in Mappings(r) : z[1] = t}
<1>3. ASSUME NEW r \in Pages
      PROVE  Mappings(r)' = Mappings(r) \ There(r)
  <2>1. ASSUME NEW f \in Envs, NEW b \in Addr
        PROVE  r \in PagesAt(f, b)' <=> f # t /\ r \in PagesAt(f, b)
    BY <1>1 DEF PagesAt
  <2> QED BY <2>1 DEF Mappings
<1>4. ASSUME NEW r \in Pages
      PROVE  /\ IsFiniteSet(There(r)) /\ Cardinality(There(r)) = Cardinality(At(r))
             /\ There(r) = {} <=> At(r) = {}
  <2>1. IsFiniteSet(At(r))
    BY Addresses, FS_Subset
  <2> DEFINE g == [a \in At(r) |-> <<t, a>>]
  <2>2. There(r) = {<<t, a>> : a \in At(r)}
    BY DEF Mappings
  <2>3. g \in Bijection(At(r), There(r))
    <3> HIDE DEF At, There
    <3>1. g \in [At(r) -> There(r)] BY <2>2
    <3>2. \A b, c \in At(r) : g[b] = g[c] => b = c OBVIOUS
    <3>3. \A z \in There(r) : \E b \in At(r) : g[b] = z BY <2>2
    <3> HIDE DEF g
    <3> QED BY <3>1, <3>2, <3>3 DEF Bijection, Injection, Surjection, IsInjective
  <2>4. ExistsBijection(At(r), There(r))
    BY <2>3 DEF ExistsBijection
  <2> HIDE DEF At, There
  <2>5. IsFiniteSet(There(r)) /\ Cardinality(There(r)) = Cardinality(At(r))
    BY <2>1, <2>4, FS_Bijection
  <2> QED BY <2>1, <2>5, FS_EmptySet
<1>5. ASSUME NEW r \in Pages
      PROVE pp_ref'[r] = pp_ref[r] - Cardinality(At(r))
  BY DEF sys_env_destroy
<1>6. ASSUME NEW r \in Pages
      PROVE pp_ref'[r] = Cardinality(Mappings(r)') /\ pp_ref'[r] \in Nat
  <2>1. There(r) \subseteq Mappings(r) OBVIOUS
  <2>2. pp_ref[r] = Cardinality(Mappings(r)) BY DEF RefsExact
  <2> HIDE DEF There, At
  <2>3. IsFiniteSet(Mappings(r) \ There(r))
    BY MappingsFinite, FS_Subset
  <2>4. Cardinality(Mappings(r)) =
          Cardinality(There(r)) + Cardinality(Mappings(r) \ There(r))
    <3>1. There(r) \cup (Mappings(r) \ There(r)) = Mappings(r) BY <2>1
    <3>2. There(r) \cap (Mappings(r) \ There(r)) = {} OBVIOUS
    <3>3. Cardinality({}) = 0 BY FS_EmptySet
    <3>4. Cardinality(Mappings(r)) = Cardinality(There(r)) + Cardinality(Mappings(r) \ There(r))
            - Cardinality(There(r) \cap (Mappings(r) \ There(r)))
      BY <3>1, <2>3, <1>4, FS_Union
    <3>5. Cardinality(There(r)) \in Nat /\ Cardinality(Mappings(r) \ There(r)) \in Nat
      BY <2>3, <1>4, FS_CardinalityType
    <3> DEFINE u == Cardinality(There(r))
               w == Cardinality(Mappings(r) \ There(r))
    <3>6. Cardinality(Mappings(r)) = u + w - 0 BY <3>2, <3>3, <3>4
    <3>7. u \in Nat /\ w \in Nat BY <3>5
    <3>8. u + w - 0 = u + w
      <4> HIDE DEF u, w
      <4> QED BY <3>7
    <3> QED BY <3>6, <3>8
  <2>5. Cardinality(Mappings(r) \ There(r)) \in Nat /\ Cardinality(There(r)) \in Nat
    BY <2>3, <1>4, FS_CardinalityType
  <2> DEFINE u == Cardinality(There(r))
             w == Cardinality(Mappings(r) \ There(r))
  <2>6. pp_ref'[r] = pp_ref[r] - u BY <1>4, <1>5
  <2>7. Cardinality(Mappings(r)') = w BY <1>3
  <2>8. pp_ref[r] = u + w /\ u \in Nat /\ w \in Nat BY <2>2, <2>4, <2>5
  <2> HIDE DEF u, w
  <2> QED BY <2>6, <2>7, <2>8
<1>7. pp_ref' \in [Pages -> Nat] /\ RefsExact'
  <2>1. DOMAIN pp_ref' = Pages /\ pp_ref' = [r \in Pages |-> pp_ref'[r]]
    BY DEF sys_env_destroy
  <2> QED BY <1>6, <2>1 DEF RefsExact
<1>8. FreeUncounted' /\ page_free_list' \subseteq Pages
  <2>1. page_free_list' = page_free_list
          \cup Released(UNION {PagesAt(t, a) : a \in Addr}, pp_ref')
    BY DEF sys_env_destroy
  <2>2. UNION {PagesAt(t, a) : a \in Addr} \subseteq Pages
    BY DEF PagesAt, Entry
  <2>3. ASSUME NEW r \in page_free_list PROVE pp_ref'[r] = 0
    <3>1. r \in Pages /\ pp_ref[r] = 0 /\ Mappings(r) = {}
      BY FreeUnmapped DEF FreeUncounted
    <3>2. At(r) = {}
      <4>1. There(r) = {} BY <3>1
      <4> HIDE DEF At, There
      <4> QED BY <3>1, <4>1, <1>4
    <3>3. Cardinality({}) = 0 BY FS_EmptySet
    <3>4. pp_ref'[r] = pp_ref[r] - Cardinality(At(r)) BY <3>1, <1>5
    <3>5. pp_ref'[r] = 0 - 0 BY <3>1, <3>2, <3>3, <3>4
    <3> QED BY <3>5
  <2> QED BY <2>1, <2>2, <2>3 DEF FreeUncounted, Released
<1>9. TablesPrivate'
  <2> SUFFICES ASSUME NEW f \in Envs, NEW b \in Tables \cup {Pgdir}, NEW r \in Pages,
                      r \in PagesAt(f, b)'
               PROVE  Mappings(r)' = {<<f, b>>} /\ "D" \notin pt'[f][b].perm
    BY DEF TablesPrivate
  <2>1. b \in Addr BY Addresses
  <2>2. f # t /\ pt'[f][b] = pt[f][b] BY <1>1, <2>1 DEF PagesAt
  <2>3. r \in PagesAt(f, b) BY <2>2 DEF PagesAt
  <2>4. Mappings(r) = {<<f, b>>} /\ "D" \notin pt[f][b].perm
    BY <2>3 DEF TablesPrivate
  <2> QED BY <2>2, <2>4, <1>3
<1>10. TlbCoherent'
  <2> SUFFICES ASSUME NEW z \in tlb' PROVE pt'[z[1]][z[2]] = z[3]
    BY DEF TlbCoherent
  <2>1. z \in tlb /\ (z[1] # t \/ \A a \in Flushed(t) : Pair(z[2]) # Pair(a))
    BY DEF sys_env_destroy
  <2>2. z[1] \in Envs /\ z[2] \in Addr /\ z[3] \in Entry /\ pt[z[1]][z[2]] = z[3]
    BY <2>1 DEF TlbCoherent
  <2>3. z[1] # t
    BY <2>1, <2>2, NilAssumption DEF Flushed
  <2> QED BY <2>2, <2>3, <1>1
<1> QED BY <1>2, <1>7, <1>8, <1>9, <1>10

(* What the kernel does to the TLB when it changes the entry of a. *)
LEMMA InvalidateKeeps ==
  ASSUME PmapInv, NEW e \in Envs, NEW a \in Addr, tlb' = tlb_invalidate(tlb, e, a),
         \A f \in Envs, b \in Addr :
           pt[f][b] # Nil /\ ~(f = e /\ b = a) => pt'[f][b] = pt[f][b]
  PROVE  TlbCoherent' /\ tlb' \subseteq Envs \X Addr \X Entry
<1>1. ASSUME NEW x \in tlb'
      PROVE  x \in tlb /\ ~(x[1] = e /\ x[2] = a)
  BY <1>1 DEF tlb_invalidate
<1>2. ASSUME NEW x \in tlb
      PROVE  /\ x[1] \in Envs /\ x[2] \in Addr /\ x[3] \in Entry
             /\ pt[x[1]][x[2]] = x[3] /\ x[3] # Nil
  BY NilAssumption DEF PmapInv, TypeOK, TlbCoherent
<1> QED BY <1>1, <1>2 DEF TlbCoherent, PmapInv, TypeOK

LEMMA RefillKeeps ==
  ASSUME PmapInv, NEW e \in Envs, NEW a \in Addr, pt' \in [Envs -> [Addr -> Entry \cup {Nil}]],
         Refill(e, a, pt'[e]),
         \A f \in Envs, b \in Addr :
           pt[f][b] # Nil /\ ~(f = e /\ b = a) => pt'[f][b] = pt[f][b]
  PROVE  TlbCoherent' /\ tlb' \subseteq Envs \X Addr \X Entry
<1>1. ASSUME NEW x \in tlb'
      PROVE  \/ x \in tlb /\ ~(x[1] = e /\ x[2] = a)
             \/ \E b \in Addr : x = <<e, b, pt'[e][b]>> /\ pt'[e][b] # Nil
  BY <1>1 DEF Refill, Loaded, tlb_invalidate
<1>2. ASSUME NEW x \in tlb
      PROVE  /\ x[1] \in Envs /\ x[2] \in Addr /\ x[3] \in Entry
             /\ pt[x[1]][x[2]] = x[3] /\ x[3] # Nil
  BY NilAssumption DEF PmapInv, TypeOK, TlbCoherent
<1>3. ASSUME NEW x \in tlb'
      PROVE  pt'[x[1]][x[2]] = x[3] /\ x \in Envs \X Addr \X Entry
  <2>1. CASE x \in tlb /\ ~(x[1] = e /\ x[2] = a)
    BY <2>1, <1>2 DEF PmapInv, TypeOK
  <2>2. ASSUME NEW b \in Addr, x = <<e, b, pt'[e][b]>>, pt'[e][b] # Nil
        PROVE  pt'[x[1]][x[2]] = x[3] /\ x \in Envs \X Addr \X Entry
    <3>1. pt'[e][b] \in Entry BY <2>2
    <3> QED BY <2>2, <3>1
  <2> QED BY <1>1, <2>1, <2>2
<1> QED BY <1>3 DEF TlbCoherent

(* A page that is on the free list, or mapped by a program, can be mapped. *)
LEMMA PageInsertKeeps ==
  ASSUME PmapInv, NEW e \in Envs, NEW a \in User, NEW p \in Pages, NEW perm \in Perms,
         NEW free \in SUBSET page_free_list, p \notin free,
         p \in page_free_list \/ \E s \in Envs, v \in User : p \in PagesAt(s, v),
         page_insert(e, a, p, perm, free), UNCHANGED <<live, parent, panicked>>
  PROVE  PmapInv'
<1>1. a \in Addr /\ a \notin Tables BY Addresses
<1>2. tlb' = tlb_invalidate(tlb, e, a) BY DEF page_insert
<1>3. CASE Insert(e, a, p, perm, free)
  <2>1. /\ pt' \in [Envs -> [Addr -> Entry \cup {Nil}]]
        /\ pp_ref' \in [Pages -> Nat] /\ page_free_list' \subseteq Pages
        /\ RefsExact' /\ FreeUncounted' /\ TablesPrivate'
        /\ \A f \in Envs, b \in Addr :
             pt[f][b] # Nil /\ ~(f = e /\ b = a) => pt'[f][b] = pt[f][b]
    BY <1>1, <1>3, InsertKeeps
  <2>2. TlbCoherent' /\ tlb' \subseteq Envs \X Addr \X Entry
    BY <1>1, <1>2, <2>1, InvalidateKeeps
  <2> QED BY <2>1, <2>2 DEF PmapInv, TypeOK
<1>4. CASE page_free_list' = free /\ UNCHANGED <<pt, pp_ref>>
  <2>1. TlbCoherent' /\ tlb' \subseteq Envs \X Addr \X Entry
    BY <1>1, <1>2, <1>4, InvalidateKeeps
  <2>2. RefsExact' /\ TablesPrivate'
    BY <1>4 DEF PmapInv, RefsExact, TablesPrivate, Mappings, PagesAt
  <2>3. FreeUncounted' BY <1>4 DEF PmapInv, FreeUncounted
  <2> QED BY <1>4, <2>1, <2>2, <2>3 DEF PmapInv, TypeOK
<1> QED BY <1>3, <1>4 DEF page_insert

----------------------------------------------------------------------------
LEMMA InitInv == Init => PmapInv
<1> SUFFICES ASSUME Init PROVE PmapInv OBVIOUS
<1>1. PICK p \in Pages :
        /\ pt = [[e \in Envs |-> Unmapped] EXCEPT ![Root] =
                  [@ EXCEPT ![Pgdir] = [page |-> p, perm |-> {}]]]
        /\ pp_ref = [q \in Pages |-> IF q = p THEN 1 ELSE 0]
        /\ page_free_list = Pages \ {p}
  BY DEF Init
<1>2. [page |-> p, perm |-> {}] \in Entry /\ [page |-> p, perm |-> {}] # Nil
  BY NilAssumption, PmapAssumption DEF Entry
<1>3. ASSUME NEW e \in Envs, NEW a \in Addr
      PROVE  pt[e][a] = IF e = Root /\ a = Pgdir THEN [page |-> p, perm |-> {}] ELSE Nil
  BY <1>1 DEF Unmapped
<1>4. TypeOK
  <2>1. pt \in [Envs -> [Addr -> Entry \cup {Nil}]]
    BY <1>1, <1>2 DEF Unmapped
  <2> QED BY <1>1, <2>1, PmapAssumption DEF Init, TypeOK
<1>5. ASSUME NEW r \in Pages
      PROVE  Mappings(r) = IF r = p THEN {<<Root, Pgdir>>} ELSE {}
  <2>1. ASSUME NEW e \in Envs, NEW a \in Addr
        PROVE r \in PagesAt(e, a) <=> r = p /\ e = Root /\ a = Pgdir
    BY <1>2, <1>3 DEF PagesAt
  <2>2. Root \in Envs /\ Pgdir \in Addr BY Addresses, PmapAssumption
  <2> QED BY <2>1, <2>2 DEF Mappings
<1>6. RefsExact
  BY <1>1, <1>5, FS_EmptySet, FS_Singleton DEF RefsExact
<1>7. FreeUncounted BY <1>1 DEF FreeUncounted
<1>8. TlbCoherent BY DEF Init, TlbCoherent
<1>9. TablesPrivate
  <2> SUFFICES ASSUME NEW f \in Envs, NEW b \in Tables \cup {Pgdir}, NEW r \in Pages,
                      r \in PagesAt(f, b)
               PROVE  Mappings(r) = {<<f, b>>} /\ "D" \notin pt[f][b].perm
    BY DEF TablesPrivate
  <2>1. b \in Addr BY Addresses
  <2>2. f = Root /\ b = Pgdir /\ r = p BY <2>1, <1>2, <1>3 DEF PagesAt
  <2> QED BY <2>1, <2>2, <1>3, <1>5
<1> QED BY <1>4, <1>6, <1>7, <1>8, <1>9 DEF PmapInv

LEMMA ExoforkKeeps ==
  ASSUME PmapInd, NEW e \in Envs, NEW c \in Envs, sys_exofork(e, c)
  PROVE  PmapInv'
<1> USE DEF PmapInv, TypeOK
<1>1. PICK p \in page_free_list :
        /\ pt' = [pt EXCEPT ![c] = [Unmapped EXCEPT ![Pgdir] = [page |-> p, perm |-> {}]]]
        /\ Count({p}, {}, page_free_list \ {p})
  BY DEF sys_exofork
<1>2. /\ p \in Pages /\ pp_ref[p] = 0
      /\ [page |-> p, perm |-> {}] \in Entry /\ [page |-> p, perm |-> {}] # Nil
  <2>1. p \in Pages /\ pp_ref[p] = 0 BY DEF PmapInd, FreeUncounted
  <2>2. [page |-> p, perm |-> {}] \in Entry BY <2>1, PmapAssumption DEF Entry
  <2> QED BY <2>1, <2>2, NilAssumption
<1>3. \A a \in Addr : pt[c][a] = Nil
  BY DEF PmapInd, DeadUnmapped, sys_exofork
<1>4. ASSUME NEW f \in Envs, NEW b \in Addr
      PROVE  pt'[f][b] = IF f = c /\ b = Pgdir THEN [page |-> p, perm |-> {}] ELSE pt[f][b]
  BY <1>1, <1>3 DEF Unmapped, PmapInd
<1>5. TypeOK'
  <2>1. pt' \in [Envs -> [Addr -> Entry \cup {Nil}]]
    BY <1>1, <1>2 DEF Unmapped, PmapInd
  <2>2. pp_ref' \in [Pages -> Nat] /\ page_free_list' \subseteq Pages
    BY <1>1 DEF Count, Released, PmapInd
  <2> QED BY <2>1, <2>2 DEF sys_exofork, PmapInd
<1>6. ASSUME NEW r \in Pages
      PROVE  Mappings(r)' = IF r = p THEN {<<c, Pgdir>>} ELSE Mappings(r)
  <2>1. ASSUME NEW f \in Envs, NEW b \in Addr
        PROVE r \in PagesAt(f, b)' <=> \/ r = p /\ f = c /\ b = Pgdir
                                       \/ r \in PagesAt(f, b)
    BY <1>2, <1>3, <1>4 DEF PagesAt
  <2>2. Mappings(p) = {} BY FreeUnmapped DEF PmapInd
  <2>3. c \in Envs /\ Pgdir \in Addr BY Addresses
  <2> QED BY <2>1, <2>2, <2>3 DEF Mappings
<1>7. ASSUME NEW r \in Pages
      PROVE pp_ref'[r] = pp_ref[r] + (IF r = p THEN 1 ELSE 0)
  BY <1>1 DEF Count, PmapInd
<1>8. RefsExact'
  <2> SUFFICES ASSUME NEW r \in Pages PROVE pp_ref'[r] = Cardinality(Mappings(r)')
    BY DEF RefsExact
  <2>1. CASE r = p
    <3>1. pp_ref'[r] = 0 + 1 BY <2>1, <1>2, <1>7
    <3>2. Cardinality({<<c, Pgdir>>}) = 1 BY FS_Singleton
    <3>3. Mappings(r)' = {<<c, Pgdir>>} BY <2>1, <1>6
    <3> QED BY <3>1, <3>2, <3>3
  <2>2. CASE r # p
    <3>1. pp_ref'[r] = pp_ref[r] BY <2>2, <1>7 DEF PmapInd
    <3> QED BY <2>2, <1>6, <3>1 DEF PmapInd, RefsExact
  <2> QED BY <2>1, <2>2
<1>9. FreeUncounted'
  <2>1. page_free_list' = page_free_list \ {p}
    BY <1>1 DEF Count, Released
  <2> QED BY <2>1, <1>7 DEF PmapInd, FreeUncounted
<1>10. TlbCoherent'
  <2> SUFFICES ASSUME NEW z \in tlb PROVE pt'[z[1]][z[2]] = z[3]
    BY DEF TlbCoherent, sys_exofork
  <2>1. z[1] \in Envs /\ z[2] \in Addr /\ z[3] \in Entry /\ pt[z[1]][z[2]] = z[3]
    BY DEF PmapInd, TlbCoherent
  <2>2. z[1] # c BY <2>1, <1>3, NilAssumption
  <2> QED BY <2>1, <2>2, <1>4
<1>11. TablesPrivate'
  <2> SUFFICES ASSUME NEW f \in Envs, NEW b \in Tables \cup {Pgdir}, NEW r \in Pages,
                      r \in PagesAt(f, b)'
               PROVE  Mappings(r)' = {<<f, b>>} /\ "D" \notin pt'[f][b].perm
    BY DEF TablesPrivate
  <2>1. b \in Addr BY Addresses
  <2>2. CASE f = c /\ b = Pgdir
    <3>1. r = p /\ "D" \notin pt'[f][b].perm
      BY <2>2, <1>2, <1>4, <2>1 DEF PagesAt
    <3> QED BY <2>2, <3>1, <1>6
  <2>3. CASE ~(f = c /\ b = Pgdir)
    <3>1. pt'[f][b] = pt[f][b] BY <2>3, <1>4, <2>1
    <3>2. r \in PagesAt(f, b) BY <3>1 DEF PagesAt
    <3>3. Mappings(r) = {<<f, b>>} /\ "D" \notin pt[f][b].perm
      BY <3>2 DEF PmapInd, TablesPrivate
    <3>4. Mappings(p) = {} BY FreeUnmapped DEF PmapInd
    <3>5. r # p BY <3>3, <3>4
    <3> QED BY <3>1, <3>3, <3>5, <1>6
  <2> QED BY <2>2, <2>3
<1> QED BY <1>5, <1>8, <1>9, <1>10, <1>11

LEMMA RefillStepKeeps ==
  ASSUME PmapInv, NEW e \in Envs, NEW a \in Addr, do_tlb_refill(e, a)
  PROVE  PmapInv'
<1>1. CASE pt[e][a] # Nil /\ Refill(e, a, pt[e]) /\ UNCHANGED <<pt, pp_ref, page_free_list>>
  <2>1. pt' = pt /\ Refill(e, a, pt'[e]) BY <1>1
  <2>2. TlbCoherent' /\ tlb' \subseteq Envs \X Addr \X Entry
    BY <2>1, RefillKeeps DEF PmapInv, TypeOK
  <2>3. RefsExact' /\ TablesPrivate'
    BY <1>1 DEF PmapInv, RefsExact, TablesPrivate, Mappings, PagesAt
  <2>4. FreeUncounted' BY <1>1 DEF PmapInv, FreeUncounted
  <2> QED BY <1>1, <2>2, <2>3, <2>4 DEF PmapInv, TypeOK, do_tlb_refill
<1>2. CASE pt[e][a] = Nil /\ passive_alloc(e, a) /\ Refill(e, a, pt'[e])
  <2>1. a \in User \cup Tables
    BY <1>2 DEF do_tlb_refill, Runs, Addr
  <2> DEFINE perm == IF a \in User THEN {"D"} ELSE {}
  <2>2. PICK p \in page_free_list : Insert(e, a, p, perm, page_free_list \ {p})
    BY <1>2 DEF passive_alloc
  <2>3. p \in Pages /\ perm \in Perms /\ p \notin page_free_list \ {p}
        /\ page_free_list \ {p} \in SUBSET page_free_list
    BY PmapAssumption DEF PmapInv, TypeOK
  <2>4. a \in Tables => "D" \notin perm
    BY Addresses
  <2> HIDE DEF perm
  <2>5. /\ pt' \in [Envs -> [Addr -> Entry \cup {Nil}]]
        /\ pp_ref' \in [Pages -> Nat] /\ page_free_list' \subseteq Pages
        /\ RefsExact' /\ FreeUncounted' /\ TablesPrivate'
        /\ \A f \in Envs, b \in Addr :
             pt[f][b] # Nil /\ ~(f = e /\ b = a) => pt'[f][b] = pt[f][b]
    BY <1>2, <2>1, <2>2, <2>3, <2>4, InsertKeeps
  <2>6. TlbCoherent' /\ tlb' \subseteq Envs \X Addr \X Entry
    BY <1>2, <2>5, RefillKeeps
  <2> QED BY <2>5, <2>6 DEF PmapInv, TypeOK, do_tlb_refill
<1> QED BY <1>1, <1>2 DEF do_tlb_refill

LEMMA UnmapKeeps ==
  ASSUME PmapInv, NEW e \in Envs, NEW t \in Envs, NEW v \in User, sys_mem_unmap(e, t, v)
  PROVE  PmapInv'
<1>1. page_remove(t, v) /\ UNCHANGED <<live, parent, panicked>>
  BY DEF sys_mem_unmap
<1>2. /\ pt' \in [Envs -> [Addr -> Entry \cup {Nil}]]
      /\ pp_ref' \in [Pages -> Nat] /\ page_free_list' \subseteq Pages
      /\ RefsExact' /\ FreeUncounted' /\ TablesPrivate'
      /\ \A f \in Envs, b \in Addr : ~(f = t /\ b = v) => pt'[f][b] = pt[f][b]
  BY <1>1, RemoveKeeps
<1>3. v \in Addr BY Addresses
<1>4. TlbCoherent' /\ tlb' \subseteq Envs \X Addr \X Entry
  <2>1. CASE pt[t][v] # Nil
    <3>1. tlb' = tlb_invalidate(tlb, t, v) BY <1>1, <2>1 DEF page_remove
    <3> QED BY <3>1, <1>2, <1>3, InvalidateKeeps
  <2>2. CASE pt[t][v] = Nil
    <3>1. tlb' = tlb BY <1>1, <2>2 DEF page_remove
    <3>2. ASSUME NEW x \in tlb PROVE pt'[x[1]][x[2]] = x[3]
      <4>1. x[1] \in Envs /\ x[2] \in Addr /\ x[3] \in Entry /\ pt[x[1]][x[2]] = x[3]
        BY DEF PmapInv, TypeOK, TlbCoherent
      <4>2. ~(x[1] = t /\ x[2] = v) BY <4>1, <2>2, NilAssumption
      <4> QED BY <4>1, <4>2, <1>2
    <3> QED BY <3>1, <3>2 DEF TlbCoherent, PmapInv, TypeOK
  <2> QED BY <2>1, <2>2
<1> QED BY <1>1, <1>2, <1>4 DEF PmapInv, TypeOK

----------------------------------------------------------------------------
(* Every step but env_alloc needs only PmapInv.                            *)
LEMMA NextInv == PmapInd /\ [Next]_vars => PmapInv'
<1> SUFFICES ASSUME PmapInd, [Next]_vars PROVE PmapInv'
  OBVIOUS
<1>0. PmapInv /\ page_free_list \subseteq Pages
  BY DEF PmapInd, PmapInv, TypeOK
<1>1. ASSUME NEW e \in Envs, NEW t \in Envs, sys_exofork(e, t) PROVE PmapInv'
  BY <1>1, ExoforkKeeps
<1>2. ASSUME NEW e \in Envs, NEW t \in Envs, sys_env_destroy(e, t) PROVE PmapInv'
  <2>1. tlb' \subseteq tlb /\ live' \subseteq live /\ panicked' = panicked
    BY <1>2 DEF sys_env_destroy
  <2>2. parent' \in [Envs -> Envs \cup {Nil}]
    BY <1>0, <1>2 DEF sys_env_destroy, PmapInv, TypeOK
  <2>3. /\ pt' \in [Envs -> [Addr -> Entry \cup {Nil}]]
        /\ pp_ref' \in [Pages -> Nat] /\ page_free_list' \subseteq Pages
        /\ RefsExact' /\ FreeUncounted' /\ TablesPrivate' /\ TlbCoherent'
    BY <1>0, <1>2, DestroyKeeps
  <2> QED BY <1>0, <2>1, <2>2, <2>3 DEF PmapInv, TypeOK
<1>3. ASSUME NEW e \in Envs, NEW t \in Envs, NEW v \in User, sys_mem_unmap(e, t, v)
      PROVE  PmapInv'
  BY <1>0, <1>3, UnmapKeeps
<1>4. ASSUME NEW e \in Envs, NEW t \in Envs, NEW v \in User, NEW perm \in Perms,
             sys_mem_alloc(e, t, v, perm)
      PROVE  PmapInv'
  <2>1. PICK p \in page_free_list : page_insert(t, v, p, perm, page_free_list \ {p})
    BY <1>4 DEF sys_mem_alloc
  <2>2. p \in Pages /\ p \notin page_free_list \ {p}
        /\ page_free_list \ {p} \in SUBSET page_free_list
    BY <1>0
  <2>3. UNCHANGED <<live, parent, panicked>> BY <1>4 DEF sys_mem_alloc
  <2> QED BY <1>0, <2>1, <2>2, <2>3, PageInsertKeeps
<1>5. ASSUME NEW s \in Envs, NEW v \in User, NEW p \in PagesAt(s, v)
      PROVE  p \in Pages /\ p \notin page_free_list
  <2>1. v \in Addr BY Addresses
  <2>2. p \in Pages BY <1>0, <2>1 DEF PmapInv, TypeOK, PagesAt, Entry
  <2>3. <<s, v>> \in Mappings(p) BY <2>1 DEF Mappings
  <2> QED BY <1>0, <2>2, <2>3, FreeUnmapped
<1>6. ASSUME NEW e \in Envs, NEW t \in Envs, NEW sv \in User, NEW tv \in User,
             NEW perm \in Perms, sys_ipc_try_send(e, sv, t, tv, perm)
      PROVE  PmapInv'
  <2>1. PICK p \in PagesAt(e, sv) : page_insert(t, tv, p, perm, page_free_list)
    BY <1>6 DEF sys_ipc_try_send
  <2>2. UNCHANGED <<live, parent, panicked>> BY <1>6 DEF sys_ipc_try_send
  <2>3. p \in Pages /\ p \notin page_free_list BY <1>5
  <2>4. page_free_list \in SUBSET page_free_list OBVIOUS
  <2> QED BY <1>0, <2>1, <2>2, <2>3, <2>4, PageInsertKeeps
<1>7. ASSUME NEW e \in Envs, NEW t \in Envs, NEW sv \in User, NEW tv \in User,
             NEW perm \in Perms, NEW s \in Envs, sys_mem_map(e, s, sv, t, tv, perm)
      PROVE  PmapInv'
  <2>1. PICK p \in PagesAt(s, sv) : page_insert(t, tv, p, perm, page_free_list)
    BY <1>7 DEF sys_mem_map
  <2>2. UNCHANGED <<live, parent, panicked>> BY <1>7 DEF sys_mem_map
  <2>3. p \in Pages /\ p \notin page_free_list BY <1>5
  <2>4. page_free_list \in SUBSET page_free_list OBVIOUS
  <2> QED BY <1>0, <2>1, <2>2, <2>3, <2>4, PageInsertKeeps
<1>8. ASSUME NEW e \in Envs, NEW a \in Addr, do_tlb_refill(e, a) PROVE PmapInv'
  BY <1>0, <1>8, RefillStepKeeps
<1>9. ASSUME UNCHANGED <<live, parent, pt, pp_ref, page_free_list, tlb>>,
             panicked' \in BOOLEAN
      PROVE  PmapInv'
  BY <1>0, <1>9 DEF PmapInv, TypeOK, RefsExact, FreeUncounted, TlbCoherent, TablesPrivate,
                    Mappings, PagesAt
<1>10. ASSUME NEW e \in Envs, NEW a \in Addr, OutOfMemory(e, a) PROVE PmapInv'
  BY <1>9, <1>10 DEF OutOfMemory
<1>11. CASE UNCHANGED vars
  BY <1>0, <1>9, <1>11 DEF vars, PmapInv, TypeOK
<1> QED BY <1>1, <1>2, <1>3, <1>4, <1>6, <1>7, <1>8, <1>10, <1>11 DEF Next

(* Only the address spaces of live envs change, but for the new one.       *)
LEMMA NextDead == PmapInd /\ [Next]_vars => DeadUnmapped'
<1> SUFFICES ASSUME PmapInd, [Next]_vars PROVE DeadUnmapped'
  OBVIOUS
<1>0. /\ pt \in [Envs -> [Addr -> Entry \cup {Nil}]]
      /\ \A e \in Envs \ live, a \in Addr : pt[e][a] = Nil
  BY DEF PmapInd, PmapInv, TypeOK, DeadUnmapped
<1>1. ASSUME live' = live, NEW t \in live,
             \A f \in Envs \ {t} : pt'[f] = pt[f]
      PROVE  DeadUnmapped'
  BY <1>0, <1>1 DEF DeadUnmapped
<1>2. ASSUME NEW e \in Envs, NEW t \in Envs, NEW v \in Addr, NEW p, NEW perm, NEW free,
             t \in live, page_insert(t, v, p, perm, free), live' = live
      PROVE  DeadUnmapped'
  <2>1. \A f \in Envs \ {t} : pt'[f] = pt[f]
    BY <1>0, <1>2 DEF page_insert, Insert
  <2> QED BY <1>1, <1>2, <2>1
<1>3. ASSUME NEW e \in Envs, NEW t \in Envs, sys_exofork(e, t) PROVE DeadUnmapped'
  <2>1. live' = live \cup {t} /\ \A f \in Envs \ {t} : pt'[f] = pt[f]
    BY <1>0, <1>3 DEF sys_exofork
  <2> QED BY <1>0, <2>1 DEF DeadUnmapped
<1>4. ASSUME NEW e \in Envs, NEW t \in Envs, sys_env_destroy(e, t) PROVE DeadUnmapped'
  <2>1. live' = live \ {t} /\ pt' = [pt EXCEPT ![t] = Unmapped]
    BY <1>4 DEF sys_env_destroy
  <2> QED BY <1>0, <2>1 DEF DeadUnmapped, Unmapped
<1>5. ASSUME NEW e \in Envs, NEW t \in Envs, NEW v \in User, sys_mem_unmap(e, t, v)
      PROVE  DeadUnmapped'
  <2>1. t \in live /\ live' = live BY <1>5 DEF sys_mem_unmap, Mine, Runs
  <2>2. \A f \in Envs \ {t} : pt'[f] = pt[f]
    BY <1>0, <1>5 DEF sys_mem_unmap, page_remove
  <2> QED BY <1>1, <2>1, <2>2
<1>6. ASSUME NEW e \in Envs, NEW t \in Envs, NEW v \in User, NEW perm \in Perms,
             sys_mem_alloc(e, t, v, perm)
      PROVE  DeadUnmapped'
  <2>1. t \in live /\ live' = live /\ v \in Addr
    BY <1>6, Addresses DEF sys_mem_alloc, Mine, Runs
  <2> QED BY <1>2, <1>6, <2>1 DEF sys_mem_alloc
<1>7. ASSUME NEW e \in Envs, NEW t \in Envs, NEW sv \in User, NEW tv \in User,
             NEW perm \in Perms, sys_ipc_try_send(e, sv, t, tv, perm)
      PROVE  DeadUnmapped'
  <2>1. t \in live /\ live' = live /\ tv \in Addr
    BY <1>7, Addresses DEF sys_ipc_try_send
  <2> QED BY <1>2, <1>7, <2>1 DEF sys_ipc_try_send
<1>8. ASSUME NEW e \in Envs, NEW t \in Envs, NEW sv \in User, NEW tv \in User,
             NEW perm \in Perms, NEW s \in Envs, sys_mem_map(e, s, sv, t, tv, perm)
      PROVE  DeadUnmapped'
  <2>1. t \in live /\ live' = live /\ tv \in Addr
    BY <1>8, Addresses DEF sys_mem_map, Mine, Runs
  <2> QED BY <1>2, <1>8, <2>1 DEF sys_mem_map
<1>9. ASSUME NEW e \in Envs, NEW a \in Addr, do_tlb_refill(e, a) PROVE DeadUnmapped'
  <2>1. e \in live /\ live' = live BY <1>9 DEF do_tlb_refill, Runs
  <2>2. \A f \in Envs \ {e} : pt'[f] = pt[f]
    BY <1>0, <1>9 DEF do_tlb_refill, passive_alloc, Insert
  <2> QED BY <1>1, <2>1, <2>2
<1>10. ASSUME NEW e \in Envs, NEW a \in Addr, OutOfMemory(e, a) PROVE DeadUnmapped'
  BY <1>0, <1>10 DEF OutOfMemory, DeadUnmapped
<1>11. CASE UNCHANGED vars
  BY <1>0, <1>11 DEF vars, DeadUnmapped
<1> QED BY <1>3, <1>4, <1>5, <1>6, <1>7, <1>8, <1>9, <1>10, <1>11 DEF Next

LEMMA InitDead == Init => DeadUnmapped
<1> SUFFICES ASSUME Init PROVE DeadUnmapped OBVIOUS
<1>1. \A e \in Envs \ {Root} : pt[e] = Unmapped BY DEF Init
<1> QED BY <1>1 DEF Init, DeadUnmapped, Unmapped

LEMMA Inductive == Spec => []PmapInd
<1>1. Init => PmapInd BY InitInv, InitDead DEF PmapInd
<1>2. PmapInd /\ [Next]_vars => PmapInd' BY NextInv, NextDead DEF PmapInd
<1> QED BY <1>1, <1>2, PTL DEF Spec

(* pp_ref of every page is the number of entries that lead to it, after    *)
(* any sequence of allocations, mappings, IPCs, forks and deaths.          *)
THEOREM RefsAlwaysExact == Spec => []RefsExact
<1>1. PmapInd => RefsExact BY DEF PmapInd, PmapInv
<1> QED BY <1>1, Inductive, PTL

(* The variables keep their types: no count goes below zero.               *)
THEOREM PmapTypeCorrect == Spec => []TypeOK
<1>1. PmapInd => TypeOK BY DEF PmapInd, PmapInv
<1> QED BY <1>1, Inductive, PTL

(* The TLB never holds anything but what the page tables say.              *)
THEOREM TlbAlwaysCoherent == Spec => []TlbCoherent
<1>1. PmapInd => TlbCoherent BY DEF PmapInd, PmapInv
<1> QED BY <1>1, Inductive, PTL

(* No page table and no TLB entry leads to a page on the free list.        *)
THEOREM NothingDangles == Spec => []NoDangling
<1>1. PmapInd => NoDangling
  <2> SUFFICES ASSUME PmapInd, NEW p \in page_free_list
               PROVE  Mappings(p) = {} /\ \A x \in tlb : x[3].page # p
    BY DEF NoDangling
  <2>1. Mappings(p) = {} BY FreeUnmapped DEF PmapInd
  <2>2. ASSUME NEW x \in tlb, x[3].page = p PROVE FALSE
    <3>1. x[1] \in Envs /\ x[2] \in Addr /\ x[3] \in Entry /\ pt[x[1]][x[2]] = x[3]
      BY DEF PmapInd, PmapInv, TypeOK, TlbCoherent
    <3>2. p \in PagesAt(x[1], x[2]) BY <2>2, <3>1, NilAssumption DEF PagesAt
    <3>3. <<x[1], x[2]>> \in Mappings(p) BY <3>1, <3>2 DEF Mappings
    <3> QED BY <2>1, <3>3
  <2> QED BY <2>1, <2>2
<1> QED BY <1>1, Inductive, PTL

(* A page table is never mapped where a program could write it.            *)
THEOREM TablesStayPrivate == Spec => []TablesPrivate
<1>1. PmapInd => TablesPrivate BY DEF PmapInd, PmapInv
<1> QED BY <1>1, Inductive, PTL
=============================================================================
