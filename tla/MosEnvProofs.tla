---------------------------- MODULE MosEnvProofs ----------------------------
(***************************************************************************)
(* What module MosEnv guarantees for every number of slots, asids,         *)
(* priorities, forks and generations: first whatever user programs call,   *)
(* then with the calls of user/lib.                                        *)
(***************************************************************************)
EXTENDS MosEnv, TLAPS, WellFoundedInduction, FiniteSetTheorems, SequenceTheorems

(* asid_alloc finds an unused asid when there is one. *)
LEMMA FreeASIDIsFree ==
  ASSUME ~(ASIDs \subseteq asid_bitmap)
  PROVE  FreeASID \in ASIDs \ asid_bitmap
<1> DEFINE T == ASIDs \ asid_bitmap
           R == {ss \in Nat \X Nat : ss[1] < ss[2]}
<1>1. T \subseteq Nat /\ T # {}
  BY EnvAssumption DEF ASIDs
<1>2. \E x \in T : \A y \in T : ~ (<<y, x>> \in R)
  <2> HIDE DEF T, R
  <2>1. IsWellFoundedOn(R, Nat)
    BY NatLessThanWellFounded, Zenon DEF R, OpToRel
  <2> QED BY <1>1, <2>1, WFMin
<1>3. \E x \in T : \A y \in T : x <= y
  <2>1. ASSUME NEW x \in T, NEW y \in T, <<y, x>> \notin R
        PROVE  x <= y
    <3>1. x \in Nat /\ y \in Nat
      BY <1>1
    <3>2. <<y, x>> \in Nat \X Nat /\ ~(y < x)
      BY <3>1, <2>1
    <3> QED BY <3>1, <3>2
  <2> HIDE DEF T, R
  <2> QED BY <1>2, <2>1
<1> QED BY <1>3 DEF FreeASID

----------------------------------------------------------------------------
(* The macros of include/queue.h against the sequences they stand for: if  *)
(* the links of a queue represent a sequence s, then after an insertion or *)
(* a removal they represent s with the element added or taken out.         *)

(* s with e at the end, with e at the front, and without its k-th element. *)
WithLast(n, s, e)  == [i \in 1..n + 1 |-> IF i <= n THEN s[i] ELSE e]
WithFirst(n, s, e) == [i \in 1..n + 1 |-> IF i = 1 THEN e ELSE s[i - 1]]
Without(n, s, k)   == [i \in 1..n - 1 |-> IF i < k THEN s[i] ELSE s[i + 1]]

(* The operations stay within the type of a queue. *)
LEMMA QueueTypes ==
  /\ TQ!EmptyQueue \in TQ!Queue
  /\ \A q \in TQ!Queue, e \in Slots :
       /\ TQ!InsertHead(q, e) \in TQ!Queue
       /\ TQ!InsertTail(q, e) \in TQ!Queue
       /\ TQ!Remove(q, e) \in TQ!Queue
       /\ TQ!Requeue(q, e) \in TQ!Queue
<1>1. TQ!EmptyQueue \in TQ!Queue
  BY NullAssumption DEF TQ!EmptyQueue, TQ!Queue, TQ!Cells
<1>2. ASSUME NEW q \in TQ!Queue, NEW e \in Slots
      PROVE  TQ!InsertHead(q, e) \in TQ!Queue
  BY NullAssumption DEF TQ!InsertHead, TQ!Queue, TQ!Cells, TQ!First
<1>3. ASSUME NEW q \in TQ!Queue, NEW e \in Slots
      PROVE  TQ!InsertTail(q, e) \in TQ!Queue
  BY NullAssumption DEF TQ!InsertTail, TQ!Queue, TQ!Cells
<1>4. ASSUME NEW q \in TQ!Queue, NEW e \in Slots
      PROVE  TQ!Remove(q, e) \in TQ!Queue
  BY NullAssumption DEF TQ!Remove, TQ!Queue, TQ!Cells
<1> QED BY <1>1, <1>2, <1>3, <1>4 DEF TQ!Requeue

LEMMA EmptyRepresents ==
  TQ!Represents(TQ!EmptyQueue, 0, [i \in 1..0 |-> Nil])
BY NullAssumption DEF TQ!Represents, TQ!EmptyQueue, TQ!Cells

(* TAILQ_INSERT_TAIL appends an element that is not in the queue. *)
LEMMA InsertTailRepresents ==
  ASSUME NEW q \in TQ!Queue, NEW n \in Nat, NEW s, TQ!Represents(q, n, s),
         NEW e \in Slots, \A i \in 1..n : s[i] # e
  PROVE  TQ!Represents(TQ!InsertTail(q, e), n + 1, WithLast(n, s, e))
<1> DEFINE r == TQ!InsertTail(q, e)
           t == WithLast(n, s, e)
<1>1. /\ t \in [1..n + 1 -> Slots]
      /\ \A i \in 1..n : t[i] = s[i]
      /\ t[n + 1] = e
  BY DEF WithLast, TQ!Represents
<1>2. \A i, j \in 1..n + 1 : t[i] = t[j] => i = j
  BY DEF WithLast, TQ!Represents
<1>3. q.last = IF n = 0 THEN TqHead ELSE s[n]
  BY DEF TQ!Represents
<1>4. /\ \A c \in TQ!Cells : c # e /\ c # q.last => r.next[c] = q.next[c]
      /\ \A d \in Slots : d # e => r.prev[d] = q.prev[d]
      /\ r.prev[e] = q.last
      /\ r.last = e
      /\ q.last # e
      /\ r.next[q.last] = e
      /\ r.next[e] = Nil
  BY <1>3, NullAssumption DEF TQ!InsertTail, TQ!Queue, TQ!Cells, TQ!Represents
<1>5. r.next[TqHead] = t[1] /\ r.prev[t[1]] = TqHead
  <2>1. CASE n = 0
    BY <2>1, <1>1, <1>3, <1>4
  <2>2. CASE n > 0
    BY <2>2, <1>1, <1>3, <1>4, NullAssumption DEF TQ!Represents, TQ!Cells
  <2> QED BY <2>1, <2>2
<1>6. ASSUME NEW i \in 1..n + 1, i < n + 1
      PROVE  r.next[t[i]] = t[i + 1] /\ r.prev[t[i + 1]] = t[i]
  <2>1. CASE i = n
    BY <2>1, <1>1, <1>3, <1>4, <1>6
  <2>2. CASE i < n
    <3>1. s[i] \in Slots /\ s[i] # s[n] /\ s[i] # e /\ s[i + 1] # e /\ s[i + 1] \in Slots
      BY <2>2 DEF TQ!Represents
    <3> QED BY <3>1, <2>2, <1>1, <1>3, <1>4 DEF TQ!Represents, TQ!Cells
  <2> QED BY <2>1, <2>2, <1>6
<1>7. TQ!Represents(r, n + 1, t)
  <2>1. r.next[t[n + 1]] = Nil /\ r.last = t[n + 1]
    BY <1>1, <1>4
  <2> HIDE DEF r, t
  <2> QED BY <1>1, <1>2, <1>5, <1>6, <2>1 DEF TQ!Represents
<1> QED BY <1>7

(* TAILQ_INSERT_HEAD puts it at the front. *)
LEMMA InsertHeadRepresents ==
  ASSUME NEW q \in TQ!Queue, NEW n \in Nat, NEW s, TQ!Represents(q, n, s),
         NEW e \in Slots, \A i \in 1..n : s[i] # e
  PROVE  TQ!Represents(TQ!InsertHead(q, e), n + 1, WithFirst(n, s, e))
<1> DEFINE r == TQ!InsertHead(q, e)
           t == WithFirst(n, s, e)
<1>1. /\ t \in [1..n + 1 -> Slots]
      /\ t[1] = e
      /\ \A i \in 1..n : t[i + 1] = s[i]
  BY DEF WithFirst, TQ!Represents
<1>2. \A i, j \in 1..n + 1 : t[i] = t[j] => i = j
  BY DEF WithFirst, TQ!Represents
<1>3. CASE n = 0
  <2>1. /\ r.next[e] = Nil /\ r.next[TqHead] = e
        /\ r.prev[e] = TqHead /\ r.last = e
    BY <1>3, NullAssumption DEF TQ!InsertHead, TQ!First, TQ!Queue, TQ!Cells, TQ!Represents
  <2> QED BY <2>1, <1>1, <1>2, <1>3 DEF TQ!Represents
<1>4. CASE n > 0
  <2>1. TQ!First(q) = s[1] /\ s[1] \in Slots /\ s[1] # Nil /\ s[1] # e
    BY <1>4, NullAssumption DEF TQ!First, TQ!Represents
  <2>2. /\ r.next[e] = s[1] /\ r.next[TqHead] = e
        /\ r.prev[e] = TqHead /\ r.prev[s[1]] = e /\ r.last = q.last
        /\ \A d \in Slots : d # e => r.next[d] = q.next[d]
        /\ \A d \in Slots : d # e /\ d # s[1] => r.prev[d] = q.prev[d]
    BY <2>1, NullAssumption DEF TQ!InsertHead, TQ!Queue, TQ!Cells
  <2>3. ASSUME NEW i \in 1..n + 1, i < n + 1
        PROVE  r.next[t[i]] = t[i + 1] /\ r.prev[t[i + 1]] = t[i]
    <3>1. CASE i = 1
      BY <3>1, <2>2, <1>1, <1>4
    <3>2. CASE i > 1
      <4>1. PICK j \in 1..n : j = i - 1 /\ j < n
        BY <3>2, <2>3
      <4>2. /\ s[j] \in Slots /\ s[j] # e /\ s[j + 1] \in Slots
            /\ s[j + 1] # e /\ s[j + 1] # s[1]
        BY <4>1 DEF TQ!Represents
      <4>3. t[i] = s[j] /\ t[i + 1] = s[j + 1]
        BY <4>1, <1>1
      <4> QED BY <4>1, <4>2, <4>3, <2>2 DEF TQ!Represents
    <3> QED BY <3>1, <3>2
  <2>4. r.next[t[n + 1]] = Nil /\ r.last = t[n + 1]
    BY <1>1, <1>4, <2>2 DEF TQ!Represents
  <2>5. r.next[TqHead] = t[1] /\ r.prev[t[1]] = TqHead
    BY <1>1, <2>2
  <2>6. TQ!Represents(r, n + 1, t)
    <3> HIDE DEF r, t
    <3> QED BY <1>1, <1>2, <2>3, <2>4, <2>5 DEF TQ!Represents
  <2> QED BY <2>6
<1> QED BY <1>3, <1>4

(* TAILQ_REMOVE takes an element that is in the queue out of it. *)
LEMMA RemoveRepresents ==
  ASSUME NEW q \in TQ!Queue, NEW n \in Nat, NEW s, TQ!Represents(q, n, s), NEW k \in 1..n
  PROVE  TQ!Represents(TQ!Remove(q, s[k]), n - 1, Without(n, s, k))
<1> DEFINE e == s[k]
           r == TQ!Remove(q, e)
           t == Without(n, s, k)
           p == IF k = 1 THEN TqHead ELSE s[k - 1]
<1>1. /\ t \in [1..n - 1 -> Slots]
      /\ \A i \in 1..n - 1 : t[i] = IF i < k THEN s[i] ELSE s[i + 1]
  BY DEF Without, TQ!Represents
<1>2. \A i, j \in 1..n - 1 : t[i] = t[j] => i = j
  <2> SUFFICES ASSUME NEW i \in 1..n - 1, NEW j \in 1..n - 1, t[i] = t[j]
               PROVE  i = j
    OBVIOUS
  <2>1. i \in 1..n /\ i + 1 \in 1..n /\ j \in 1..n /\ j + 1 \in 1..n
    OBVIOUS
  <2> QED BY <1>1, <2>1 DEF TQ!Represents
<1>3. q.prev[e] = p /\ p \in TQ!Cells /\ p # e /\ p # Nil
  BY NullAssumption DEF TQ!Represents, TQ!Cells
<1>4. e \in Slots /\ q.next[e] = IF k = n THEN Nil ELSE s[k + 1]
  BY DEF TQ!Represents
<1>5. /\ r.next[p] = q.next[e]
      /\ \A c \in TQ!Cells : c # p => r.next[c] = q.next[c]
      /\ \A d \in Slots : d # q.next[e] => r.prev[d] = q.prev[d]
      /\ q.next[e] # Nil => r.prev[q.next[e]] = p /\ r.last = q.last
      /\ q.next[e] = Nil => r.last = p
  BY <1>3, <1>4, NullAssumption DEF TQ!Remove, TQ!Queue, TQ!Cells
<1>6. ASSUME NEW i \in 1..n - 1, i < n - 1
      PROVE  r.next[t[i]] = t[i + 1] /\ r.prev[t[i + 1]] = t[i]
  <2>1. CASE i + 1 < k
    <3>1. t[i] = s[i] /\ t[i + 1] = s[i + 1]
      BY <2>1, <1>1, <1>6
    <3>2. s[i] \in TQ!Cells /\ s[i] # p /\ s[i + 1] \in Slots /\ s[i + 1] # q.next[e]
      BY <2>1, <1>4, <1>6, NullAssumption DEF TQ!Represents, TQ!Cells
    <3> QED BY <3>1, <3>2, <1>5, <1>6 DEF TQ!Represents
  <2>2. CASE i + 1 = k
    <3>1. t[i] = p /\ t[i + 1] = s[k + 1] /\ q.next[e] = s[k + 1] /\ q.next[e] # Nil
      BY <2>2, <1>1, <1>4, <1>6, NullAssumption DEF TQ!Represents
    <3> QED BY <3>1, <1>5
  <2>3. CASE i + 1 > k
    <3>1. t[i] = s[i + 1] /\ t[i + 1] = s[i + 2]
      BY <2>3, <1>1, <1>6
    <3>2. /\ i + 1 \in 1..n /\ i + 2 \in 1..n /\ i + 1 < n
          /\ s[i + 1] \in TQ!Cells /\ s[i + 1] # p /\ s[i + 2] \in Slots
          /\ s[i + 2] # q.next[e]
      BY <2>3, <1>4, <1>6, NullAssumption DEF TQ!Represents, TQ!Cells
    <3>3. q.next[s[i + 1]] = s[i + 2] /\ q.prev[s[i + 2]] = s[i + 1]
      BY <3>2, i + 1 + 1 = i + 2 DEF TQ!Represents
    <3> QED BY <3>1, <3>2, <3>3, <1>5
  <2> QED BY <2>1, <2>2, <2>3
<1>7. n - 1 = 0 => r.next[TqHead] = Nil /\ r.last = TqHead
  BY <1>3, <1>4, <1>5
<1>8. ASSUME n - 1 > 0
      PROVE  /\ r.next[TqHead] = t[1] /\ r.prev[t[1]] = TqHead
             /\ r.next[t[n - 1]] = Nil /\ r.last = t[n - 1]
  <2>1. r.next[TqHead] = t[1] /\ r.prev[t[1]] = TqHead
    <3>1. CASE k = 1
      BY <3>1, <1>1, <1>4, <1>5, <1>8, NullAssumption DEF TQ!Represents
    <3>2. CASE k # 1
      <4>1. t[1] = s[1] /\ s[1] \in Slots /\ p # TqHead /\ s[1] # q.next[e]
        BY <3>2, <1>1, <1>4, <1>8, NullAssumption DEF TQ!Represents
      <4> QED BY <4>1, <1>5, <1>8 DEF TQ!Represents, TQ!Cells
    <3> QED BY <3>1, <3>2
  <2>2. r.next[t[n - 1]] = Nil /\ r.last = t[n - 1]
    <3>1. CASE k = n
      BY <3>1, <1>1, <1>4, <1>5, <1>8
    <3>2. CASE k # n
      <4>1. t[n - 1] = s[n] /\ s[n] \in TQ!Cells /\ s[n] # p
        BY <3>2, <1>1, <1>8, NullAssumption DEF TQ!Represents, TQ!Cells
      <4>2. q.next[e] # Nil
        BY <3>2, <1>4, NullAssumption DEF TQ!Represents
      <4> QED BY <4>1, <4>2, <1>5, <1>8 DEF TQ!Represents
    <3> QED BY <3>1, <3>2
  <2> QED BY <2>1, <2>2
<1>9. TQ!Represents(r, n - 1, t)
  <2>1. n - 1 \in Nat
    OBVIOUS
  <2> HIDE DEF r, t
  <2> QED BY <1>1, <1>2, <1>6, <1>7, <1>8, <2>1 DEF TQ!Represents
<1> QED BY <1>9

----------------------------------------------------------------------------
(* The links of q are a chain through exactly the slots of R, from f when  *)
(* f is not NULL. *)
QueueOf(q, R, f) ==
  /\ q \in TQ!Queue
  /\ \E n \in Nat : \E s \in [1..n -> Slots] :
       /\ TQ!Represents(q, n, s)
       /\ R = {s[i] : i \in 1..n}
       /\ f # Nil => n > 0 /\ s[1] = f

LEMMA InsertTailQueueOf ==
  ASSUME NEW q, NEW R, NEW f, QueueOf(q, R, f), NEW e \in Slots \ R
  PROVE  QueueOf(TQ!InsertTail(q, e), R \cup {e}, f)
<1>1. PICK n \in Nat : \E s \in [1..n -> Slots] :
        /\ TQ!Represents(q, n, s) /\ R = {s[i] : i \in 1..n}
        /\ f # Nil => n > 0 /\ s[1] = f
  BY DEF QueueOf
<1>2. PICK s \in [1..n -> Slots] :
        /\ TQ!Represents(q, n, s) /\ R = {s[i] : i \in 1..n}
        /\ f # Nil => n > 0 /\ s[1] = f
  BY <1>1
<1> DEFINE t == WithLast(n, s, e)
<1>3. TQ!Represents(TQ!InsertTail(q, e), n + 1, t)
  <2>1. \A i \in 1..n : s[i] # e
    BY <1>2
  <2> QED BY <1>2, <2>1, InsertTailRepresents DEF QueueOf
<1>4. t \in [1..n + 1 -> Slots] /\ t[n + 1] = e /\ \A i \in 1..n : t[i] = s[i]
  BY <1>2 DEF WithLast
<1>5. R \cup {e} = {t[i] : i \in 1..n + 1}
  <2>1. \A i \in 1..n + 1 : i \in 1..n \/ i = n + 1
    OBVIOUS
  <2>2. \A i \in 1..n : i \in 1..n + 1
    OBVIOUS
  <2>3. n + 1 \in 1..n + 1
    OBVIOUS
  <2> HIDE DEF t
  <2> QED BY <1>2, <1>4, <2>1, <2>2, <2>3
<1>6. f # Nil => n + 1 > 0 /\ t[1] = f
  BY <1>2, <1>4
<1>7. TQ!InsertTail(q, e) \in TQ!Queue /\ n + 1 \in Nat /\ n + 1 > 0
  BY QueueTypes DEF QueueOf
<1> HIDE DEF t
<1> QED BY <1>3, <1>4, <1>5, <1>6, <1>7 DEF QueueOf

LEMMA InsertHeadQueueOf ==
  ASSUME NEW q, NEW R, NEW f, QueueOf(q, R, f), NEW e \in Slots \ R
  PROVE  QueueOf(TQ!InsertHead(q, e), R \cup {e}, e)
<1>1. PICK n \in Nat : \E s \in [1..n -> Slots] :
        TQ!Represents(q, n, s) /\ R = {s[i] : i \in 1..n}
  BY DEF QueueOf
<1>2. PICK s \in [1..n -> Slots] : TQ!Represents(q, n, s) /\ R = {s[i] : i \in 1..n}
  BY <1>1
<1> DEFINE t == WithFirst(n, s, e)
<1>3. TQ!Represents(TQ!InsertHead(q, e), n + 1, t)
  <2>1. \A i \in 1..n : s[i] # e
    BY <1>2
  <2> QED BY <1>2, <2>1, InsertHeadRepresents DEF QueueOf
<1>4. t \in [1..n + 1 -> Slots] /\ t[1] = e /\ \A i \in 1..n : t[i + 1] = s[i]
  BY <1>2 DEF WithFirst
<1>5. R \cup {e} = {t[i] : i \in 1..n + 1}
  <2>1. \A i \in 1..n + 1 : i = 1 \/ \E j \in 1..n : i = j + 1
    <3> TAKE i \in 1..n + 1
    <3>1. i = 1 \/ (i - 1 \in 1..n /\ i = (i - 1) + 1)
      OBVIOUS
    <3> QED BY <3>1
  <2>2. \A i \in 1..n : i + 1 \in 1..n + 1
    OBVIOUS
  <2>3. 1 \in 1..n + 1
    OBVIOUS
  <2> HIDE DEF t
  <2> QED BY <1>2, <1>4, <2>1, <2>2, <2>3
<1>7. TQ!InsertHead(q, e) \in TQ!Queue /\ n + 1 \in Nat /\ n + 1 > 0
  BY QueueTypes DEF QueueOf
<1> HIDE DEF t
<1> QED BY <1>3, <1>4, <1>5, <1>7 DEF QueueOf

(* The first element's tqe_prev is never NULL, so taking it off cannot     *)
(* fault. *)
LEMMA RemoveQueueOf ==
  ASSUME NEW q, NEW R, NEW f, QueueOf(q, R, f), NEW e \in R
  PROVE  /\ QueueOf(TQ!Remove(q, e), R \ {e}, IF f = e THEN Nil ELSE f)
         /\ ~TQ!RemoveFaults(q, e)
<1>1. PICK n \in Nat : \E s \in [1..n -> Slots] :
        /\ TQ!Represents(q, n, s) /\ R = {s[i] : i \in 1..n}
        /\ f # Nil => n > 0 /\ s[1] = f
  BY DEF QueueOf
<1>2. PICK s \in [1..n -> Slots] :
        /\ TQ!Represents(q, n, s) /\ R = {s[i] : i \in 1..n}
        /\ f # Nil => n > 0 /\ s[1] = f
  BY <1>1
<1>3. PICK k \in 1..n : s[k] = e
  BY <1>2
<1> DEFINE t == Without(n, s, k)
<1>4. TQ!Represents(TQ!Remove(q, e), n - 1, t)
  BY <1>2, <1>3, RemoveRepresents DEF QueueOf
<1>5. t \in [1..n - 1 -> Slots] /\ \A i \in 1..n - 1 : t[i] = IF i < k THEN s[i] ELSE s[i + 1]
  BY <1>2 DEF Without
<1>6. \A i, j \in 1..n : s[i] = s[j] => i = j
  BY <1>2 DEF TQ!Represents
<1>7. R \ {e} = {t[i] : i \in 1..n - 1}
  <2> HIDE DEF t
  <2>1. ASSUME NEW i \in 1..n - 1 PROVE t[i] \in R \ {e}
    <3>1. i \in 1..n /\ i + 1 \in 1..n
      OBVIOUS
    <3>2. \A j \in 1..n : s[j] \in R
      BY <1>2
    <3> QED BY <1>3, <1>5, <1>6, <3>1, <3>2
  <2>2. ASSUME NEW x \in R \ {e} PROVE \E i \in 1..n - 1 : t[i] = x
    <3>1. PICK j \in 1..n : s[j] = x /\ j # k
      BY <1>2, <1>3
    <3>2. CASE j < k
      BY <3>1, <3>2, <1>5
    <3>3. CASE j > k
      <4>1. j - 1 \in 1..n - 1 /\ ~(j - 1 < k) /\ (j - 1) + 1 = j
        BY <3>3
      <4> QED BY <4>1, <3>1, <1>5
    <3> QED BY <3>1, <3>2, <3>3
  <2> QED BY <2>1, <2>2
<1>8. ASSUME f # Nil, f # e PROVE n - 1 > 0 /\ t[1] = f
  <2>1. k # 1
    BY <1>2, <1>3, <1>8
  <2> QED BY <1>2, <1>5, <1>8, <2>1
<1>9. q.prev[e] # Nil
  <2>1. CASE k = 1
    BY <2>1, <1>2, <1>3, NullAssumption DEF TQ!Represents
  <2>2. CASE k > 1
    <3>1. k - 1 \in 1..n /\ k - 1 < n /\ (k - 1) + 1 = k
      BY <2>2
    <3>2. q.prev[s[k]] = s[k - 1] /\ s[k - 1] \in Slots
      BY <3>1, <1>2 DEF TQ!Represents
    <3> QED BY <3>2, <1>3, NullAssumption
  <2> QED BY <2>1, <2>2
<1>10. TQ!Remove(q, e) \in TQ!Queue /\ n - 1 \in Nat
  BY <1>2, QueueTypes DEF QueueOf
<1> HIDE DEF t
<1> QED BY <1>4, <1>5, <1>7, <1>8, <1>9, <1>10 DEF QueueOf, TQ!RemoveFaults

(* TAILQ_FIRST. *)
LEMMA FirstQueueOf ==
  ASSUME NEW q, NEW R, NEW f, QueueOf(q, R, f)
  PROVE  /\ TQ!First(q) = Nil <=> R = {}
         /\ R # {} => TQ!First(q) \in R /\ QueueOf(q, R, TQ!First(q))
         /\ R \subseteq Slots
         /\ f # Nil => TQ!First(q) = f /\ f \in R
         /\ QueueOf(q, R, Nil)
<1>1. PICK n \in Nat : \E s \in [1..n -> Slots] :
        /\ TQ!Represents(q, n, s) /\ R = {s[i] : i \in 1..n}
        /\ f # Nil => n > 0 /\ s[1] = f
  BY DEF QueueOf
<1>2. PICK s \in [1..n -> Slots] :
        /\ TQ!Represents(q, n, s) /\ R = {s[i] : i \in 1..n}
        /\ f # Nil => n > 0 /\ s[1] = f
  BY <1>1
<1>3. TQ!First(q) = IF n = 0 THEN Nil ELSE s[1]
  BY <1>2 DEF TQ!First, TQ!Represents
<1>4. n > 0 => s[1] \in R
  BY <1>2
<1>5. R \subseteq Slots /\ (n = 0 <=> R = {})
  BY <1>2, <1>4
<1>6. QueueOf(q, R, Nil) /\ (n > 0 => QueueOf(q, R, s[1]))
  BY <1>2 DEF QueueOf
<1> QED BY <1>2, <1>3, <1>4, <1>5, <1>6, NullAssumption

LEMMA RequeueQueueOf ==
  ASSUME NEW q, NEW R, NEW f, QueueOf(q, R, f), NEW e \in R
  PROVE  QueueOf(TQ!Requeue(q, e), R, Nil)
<1>1. QueueOf(TQ!Remove(q, e), R \ {e}, Nil)
  BY RemoveQueueOf, FirstQueueOf
<1>2. e \in Slots \ (R \ {e}) /\ (R \ {e}) \cup {e} = R
  BY FirstQueueOf
<1>3. QueueOf(TQ!InsertTail(TQ!Remove(q, e), e), R, Nil)
  BY <1>1, <1>2, InsertTailQueueOf
<1> QED BY <1>3 DEF TQ!Requeue

----------------------------------------------------------------------------
(* Types. *)
LEMMA ScheduleType ==
  ASSUME TypeOK, NEW yield, NEW q \in TQ!Queue, NEW st, NEW cur \in Slots \cup {Nil},
         Schedule(yield, q, st, cur)
  PROVE  /\ env_sched_list' \in TQ!Queue /\ curenv' \in Slots \cup {Nil}
         /\ count' \in Int /\ panicked' \in BOOLEAN
         /\ env_ran' \in [Slots -> BOOLEAN]
<1> DEFINE runnable == cur # Nil /\ st[cur] = "RUNNABLE"
           keep == ~yield /\ count # 1 /\ runnable
           q1 == IF runnable THEN TQ!Requeue(q, cur) ELSE q
           e == IF keep THEN cur ELSE TQ!First(q1)
<1>1. q1 \in TQ!Queue
  BY QueueTypes
<1>2. TQ!First(q1) \in Slots \cup {Nil}
  BY <1>1 DEF TQ!First, TQ!Queue, TQ!Cells
<1>3. e \in Slots \cup {Nil}
  BY <1>2
<1>4. env_sched_list' \in TQ!Queue
  BY <1>1 DEF Schedule
<1>5. CASE e = Nil
  <2>1. panicked' = TRUE /\ curenv' = cur /\ count' = count - 1 /\ env_ran' = env_ran
    BY <1>5 DEF Schedule
  <2>2. count \in Int /\ env_ran \in [Slots -> BOOLEAN]
    BY DEF TypeOK
  <2> HIDE DEF e, q1, keep, runnable
  <2> QED BY <1>4, <2>1, <2>2
<1>6. CASE e # Nil
  <2>1. /\ count' = IF keep THEN count - 1 ELSE env_pri[e]
        /\ \/ curenv' = e /\ env_ran' = [env_ran EXCEPT ![e] = TRUE] /\ panicked' = panicked
           \/ panicked' = TRUE /\ curenv' = cur /\ env_ran' = env_ran
    BY <1>6 DEF Schedule
  <2>2. count \in Int /\ panicked \in BOOLEAN /\ env_ran \in [Slots -> BOOLEAN]
    BY DEF TypeOK
  <2> HIDE DEF e, q1, keep, runnable
  <2>3. env_pri[e] \in Pris \cup {0}
    BY <1>3, <1>6 DEF TypeOK
  <2>4. env_pri[e] \in Int
    <3>1. Pris \cup {0} \subseteq Int
      BY EnvAssumption
    <3> QED BY <2>3, <3>1, Zenon
  <2>5. count' \in Int
    BY <2>1, <2>2, <2>4
  <2>6. curenv' \in Slots \cup {Nil} /\ panicked' \in BOOLEAN /\ env_ran' \in [Slots -> BOOLEAN]
    BY <1>3, <2>1, <2>2
  <2> QED BY <1>4, <2>5, <2>6
<1> QED BY <1>5, <1>6

LEMMA mkenvidType ==
  ASSUME NEW g \in Nat, NEW e \in Slots
  PROVE  mkenvid(g, e) \in EnvIds
BY EnvAssumption DEF mkenvid, EnvIds

LEMMA envid2envType ==
  ASSUME TypeOK, NEW envid \in EnvIds, NEW checkperm, Running,
         NEW e \in envid2env(envid, checkperm)
  PROVE  e \in Slots /\ (e = curenv \/ Live(e))
BY DEF envid2env, EnvIds, Running, TypeOK, ENVX

LEMMA InitType == Init => TypeOK
<1> SUFFICES ASSUME Init PROVE TypeOK
  OBVIOUS
<1>1. NoEnvId \in EnvIds /\ 0 \in ASIDs /\ 0 \in Slots
  BY EnvAssumption DEF NoEnvId, EnvIds, ASIDs, Slots
<1>2. env_free_list \in Seq(Slots)
  <2>1. \A i \in 1..NENV : i - 1 \in Slots
    BY EnvAssumption DEF Slots
  <2>2. [i \in 1..NENV |-> i - 1] \in [1..NENV -> Slots] /\ NENV \in Nat
    BY <2>1, EnvAssumption
  <2> QED BY <2>2 DEF Init
<1>3. env_sched_list \in TQ!Queue
  BY QueueTypes DEF Init
<1>4. gen \in 0..MaxForks /\ count \in Int /\ asid_bitmap \subseteq ASIDs
  BY EnvAssumption DEF Init
<1>5. env_status \in [Slots -> Status] /\ curenv \in Slots \cup {Nil} /\ panicked \in BOOLEAN
  BY DEF Init, Status
<1>6. /\ env_id \in [Slots -> EnvIds] /\ env_parent_id \in [Slots -> EnvIds]
      /\ env_ipc_from \in [Slots -> EnvIds]
  BY <1>1 DEF Init
<1>7. /\ env_pri \in [Slots -> Pris \cup {0}] /\ env_asid \in [Slots -> ASIDs]
      /\ env_ran \in [Slots -> BOOLEAN] /\ env_ipc_recving \in [Slots -> BOOLEAN]
  BY <1>1 DEF Init
<1> QED BY <1>2, <1>3, <1>4, <1>5, <1>6, <1>7 DEF TypeOK

LEMMA AllocType ==
  ASSUME TypeOK, gen < MaxForks, env_free_list # <<>>, NEW parent_id \in EnvIds
  PROVE  /\ env_free_list[1] \in Slots
         /\ Number(env_free_list[1]) => /\ gen' \in 0..MaxForks
                                         /\ env_id' \in [Slots -> EnvIds]
                                         /\ env_ran' \in [Slots -> BOOLEAN]
         /\ env_alloc(env_free_list[1], parent_id) =>
               /\ env_asid' \in [Slots -> ASIDs]
               /\ asid_bitmap' \subseteq ASIDs
               /\ env_parent_id' \in [Slots -> EnvIds]
               /\ env_free_list' \in Seq(Slots)
<1>1. env_free_list[1] \in Slots
  BY DEF TypeOK
<1>2. gen + 1 \in 0..MaxForks /\ gen + 1 \in Nat
  BY EnvAssumption DEF TypeOK
<1>3. mkenvid(gen + 1, env_free_list[1]) \in EnvIds
  BY <1>1, <1>2, mkenvidType
<1>4. Number(env_free_list[1]) => /\ gen' \in 0..MaxForks
                                  /\ env_id' \in [Slots -> EnvIds]
                                  /\ env_ran' \in [Slots -> BOOLEAN]
  BY <1>1, <1>2, <1>3 DEF Number, TypeOK
<1>5. ASSUME env_alloc(env_free_list[1], parent_id)
      PROVE  /\ env_asid' \in [Slots -> ASIDs]
             /\ asid_bitmap' \subseteq ASIDs
             /\ env_parent_id' \in [Slots -> EnvIds]
             /\ env_free_list' \in Seq(Slots)
  <2>1. FreeASID \in ASIDs
    BY <1>5, FreeASIDIsFree DEF env_alloc
  <2> QED BY <1>1, <1>5, <2>1 DEF env_alloc, TypeOK
<1> QED BY <1>1, <1>4, <1>5

(* Whatever a user program calls, the kernel's variables keep their types. *)
LEMMA NextType == TypeOK /\ [SysNext]_vars => TypeOK'
<1> SUFFICES ASSUME TypeOK, [SysNext]_vars PROVE TypeOK'
  OBVIOUS
<1> USE DEF envVars, ipcVars, allocVars, cpuVars
<1>0. NoEnvId \in EnvIds /\ {"RUNNABLE", "NOT_RUNNABLE", "FREE"} \subseteq Status
  BY EnvAssumption DEF NoEnvId, EnvIds, Slots, Status
<1>1. ASSUME Boot \/ TimerInterrupt \/ sys_yield PROVE TypeOK'
  <2>1. \E yield, cur \in Slots \cup {Nil, TRUE, FALSE} :
           Schedule(yield, env_sched_list, env_status, IF cur \in Slots THEN cur ELSE Nil)
    BY <1>1 DEF Boot, TimerInterrupt, sys_yield, Running, TypeOK
  <2>2. PICK yield, cur \in Slots \cup {Nil, TRUE, FALSE} :
           Schedule(yield, env_sched_list, env_status, IF cur \in Slots THEN cur ELSE Nil)
    BY <2>1
  <2>3. env_sched_list \in TQ!Queue
    BY DEF TypeOK
  <2>4. /\ env_sched_list' \in TQ!Queue /\ curenv' \in Slots \cup {Nil}
        /\ count' \in Int /\ panicked' \in BOOLEAN
        /\ env_ran' \in [Slots -> BOOLEAN]
    BY <2>2, <2>3, ScheduleType
  <2> QED BY <1>1, <2>4 DEF Boot, TimerInterrupt, sys_yield, TypeOK
<1>2. ASSUME NEW pri \in Pris, env_create(pri) PROVE TypeOK'
  <2>1. gen < MaxForks /\ env_free_list # <<>>
    BY <1>2, EnvAssumption DEF env_create, env_alloc, TypeOK
  <2>2. env_alloc(env_free_list[1], NoEnvId) /\ Number(env_free_list[1])
    BY <1>2 DEF env_create, env_alloc
  <2>3. env_sched_list' \in TQ!Queue
    BY <1>2, <2>1, AllocType, <1>0, QueueTypes DEF env_create, TypeOK
  <2>4. env_pri' \in [Slots -> Pris \cup {0}] /\ env_status' \in [Slots -> Status]
    BY <1>2, <2>1, AllocType, <1>0 DEF env_create, TypeOK
  <2> QED BY <1>2, <2>1, <2>2, <2>3, <2>4, AllocType, <1>0 DEF env_create, TypeOK
<1>3. ASSUME sys_exofork PROVE TypeOK'
  <2>1. gen < MaxForks /\ env_free_list # <<>> /\ env_id[curenv] \in EnvIds /\ curenv \in Slots
    BY <1>3 DEF sys_exofork, Running, TypeOK
  <2>2. CASE env_alloc(env_free_list[1], env_id[curenv])
    <3>1. env_pri' \in [Slots -> Pris \cup {0}] /\ env_status' \in [Slots -> Status]
      BY <1>3, <2>1, AllocType, <1>0 DEF sys_exofork, TypeOK
    <3> QED BY <1>3, <2>1, <2>2, <3>1, AllocType DEF sys_exofork, env_alloc, TypeOK
  <2>3. CASE ~env_alloc(env_free_list[1], env_id[curenv])
    BY <1>3, <2>1, <2>3, AllocType DEF sys_exofork, TypeOK
  <2> QED BY <2>2, <2>3
<1>4. ASSUME sys_ipc_recv PROVE TypeOK'
  <2> DEFINE st == [env_status EXCEPT ![curenv] = "NOT_RUNNABLE"]
  <2>1. curenv \in Slots /\ env_sched_list \in TQ!Queue
    BY <1>4 DEF sys_ipc_recv, Running, TypeOK
  <2>2. TQ!Remove(env_sched_list, curenv) \in TQ!Queue
    BY <2>1, QueueTypes
  <2>3. Schedule(TRUE, TQ!Remove(env_sched_list, curenv), st, curenv)
    BY <1>4 DEF sys_ipc_recv
  <2>4. /\ env_sched_list' \in TQ!Queue /\ curenv' \in Slots \cup {Nil}
        /\ count' \in Int /\ panicked' \in BOOLEAN
        /\ env_ran' \in [Slots -> BOOLEAN]
    BY <2>1, <2>2, <2>3, ScheduleType
  <2> QED BY <1>4, <2>1, <2>4, <1>0 DEF sys_ipc_recv, Receiving, TypeOK
<1>5. ASSUME NEW envid \in EnvIds, sys_env_destroy(envid) PROVE TypeOK'
  <2>0. Running
    BY <1>5 DEF sys_env_destroy
  <2>1. PICK e \in envid2env(envid, TRUE) :
          LET st == [env_status EXCEPT ![e] = "FREE"]
              q  == TQ!Remove(env_sched_list, e)
          IN /\ env_status' = st
             /\ asid_bitmap' = asid_free(e)
             /\ env_free_list' = ReturnSlot(e)
             /\ IF TQ!RemoveFaults(env_sched_list, e) THEN KernelFault
                ELSE IF e = curenv THEN Schedule(TRUE, q, st, Nil) ELSE Return(q)
    BY <1>5 DEF sys_env_destroy
  <2>2. e \in Slots /\ env_sched_list \in TQ!Queue
    BY <2>0, envid2envType DEF TypeOK
  <2>3. TQ!Remove(env_sched_list, e) \in TQ!Queue
    BY <2>2, QueueTypes
  <2>4. /\ env_sched_list' \in TQ!Queue /\ curenv' \in Slots \cup {Nil}
        /\ count' \in Int /\ panicked' \in BOOLEAN
        /\ env_ran' \in [Slots -> BOOLEAN]
    <3>1. CASE TQ!RemoveFaults(env_sched_list, e)
      BY <2>1, <3>1 DEF KernelFault, TypeOK
    <3>2. CASE ~TQ!RemoveFaults(env_sched_list, e) /\ e = curenv
      BY <2>1, <2>3, <3>2, ScheduleType
    <3>3. CASE ~TQ!RemoveFaults(env_sched_list, e) /\ e # curenv
      BY <2>1, <2>3, <3>3 DEF Return, TypeOK
    <3> QED BY <3>1, <3>2, <3>3
  <2>5. env_free_list' \in Seq(Slots)
    BY <2>1, <2>2 DEF ReturnSlot, TypeOK
  <2> QED BY <1>5, <2>1, <2>2, <2>4, <2>5, <1>0 DEF sys_env_destroy, asid_free, TypeOK
<1>6. ASSUME NEW envid \in EnvIds, sys_ipc_try_send(envid) PROVE TypeOK'
  <2>0. Running /\ curenv \in Slots
    BY <1>6 DEF sys_ipc_try_send, Running, TypeOK
  <2>1. PICK e \in envid2env(envid, FALSE) :
          /\ env_ipc_from' = [env_ipc_from EXCEPT ![e] = env_id[curenv]]
          /\ env_ipc_recving' = Receiving(e, FALSE)
          /\ env_status' = [env_status EXCEPT ![e] = "RUNNABLE"]
          /\ Return(TQ!InsertTail(env_sched_list, e))
    BY <1>6 DEF sys_ipc_try_send
  <2>2. e \in Slots /\ env_sched_list \in TQ!Queue
    BY <2>0, envid2envType DEF TypeOK
  <2>3. TQ!InsertTail(env_sched_list, e) \in TQ!Queue
    BY <2>2, QueueTypes
  <2> QED BY <1>6, <2>0, <2>1, <2>2, <2>3, <1>0 DEF sys_ipc_try_send, Receiving, Return, TypeOK
<1>7. ASSUME NEW envid \in EnvIds, NEW status \in {"RUNNABLE", "NOT_RUNNABLE"},
             sys_set_env_status(envid, status)
      PROVE  TypeOK'
  <2>0. Running
    BY <1>7 DEF sys_set_env_status
  <2>1. PICK e \in envid2env(envid, TRUE) :
          LET st == [env_status EXCEPT ![e] = status]
              q  == IF status = "RUNNABLE" /\ env_status[e] # "RUNNABLE"
                    THEN TQ!InsertTail(env_sched_list, e)
                    ELSE IF status = "NOT_RUNNABLE" /\ env_status[e] # "NOT_RUNNABLE"
                    THEN TQ!Remove(env_sched_list, e)
                    ELSE env_sched_list
          IN /\ env_status' = st
             /\ IF e = curenv THEN Schedule(TRUE, q, st, curenv) ELSE Return(q)
    BY <1>7 DEF sys_set_env_status
  <2>2. e \in Slots /\ env_sched_list \in TQ!Queue /\ curenv \in Slots \cup {Nil}
    BY <2>0, envid2envType DEF TypeOK
  <2> DEFINE q == IF status = "RUNNABLE" /\ env_status[e] # "RUNNABLE"
                  THEN TQ!InsertTail(env_sched_list, e)
                  ELSE IF status = "NOT_RUNNABLE" /\ env_status[e] # "NOT_RUNNABLE"
                  THEN TQ!Remove(env_sched_list, e)
                  ELSE env_sched_list
  <2>3. q \in TQ!Queue
    BY <2>2, QueueTypes
  <2>4. /\ env_sched_list' \in TQ!Queue /\ curenv' \in Slots \cup {Nil}
        /\ count' \in Int /\ panicked' \in BOOLEAN
        /\ env_ran' \in [Slots -> BOOLEAN]
    <3>1. CASE e = curenv
      BY <2>1, <2>2, <2>3, <3>1, ScheduleType
    <3>2. CASE e # curenv
      BY <2>1, <2>3, <3>2 DEF Return, TypeOK
    <3> QED BY <3>1, <3>2
  <2> QED BY <1>7, <2>1, <2>2, <2>4, <1>0 DEF sys_set_env_status, TypeOK
<1>8. ASSUME UNCHANGED vars PROVE TypeOK'
  BY <1>8 DEF vars, TypeOK
<1> QED BY <1>1, <1>2, <1>3, <1>4, <1>5, <1>6, <1>7, <1>8 DEF SysNext, Halted

(* The kernel's variables keep their types, whatever user programs call.   *)
THEOREM TypeCorrect == SysSpec => []TypeOK
BY InitType, NextType, PTL DEF SysSpec

----------------------------------------------------------------------------
(* Slots and asids. *)
CurRunnable == Running => env_status[curenv] = "RUNNABLE"

Accounts == FreeListIffFree /\ AsidsExact

(* schedule gives the CPU to a runnable env or panics. *)
LEMMA ScheduleRunnable ==
  ASSUME NEW yield, NEW q, NEW st, NEW cur, Schedule(yield, q, st, cur),
         panicked \in BOOLEAN, panicked' = FALSE
  PROVE  curenv' # Nil /\ st[curenv'] = "RUNNABLE"
<1> DEFINE runnable == cur # Nil /\ st[cur] = "RUNNABLE"
           keep == ~yield /\ count # 1 /\ runnable
           q1 == IF runnable THEN TQ!Requeue(q, cur) ELSE q
           e == IF keep THEN cur ELSE TQ!First(q1)
<1>1. e # Nil /\ st[e] = "RUNNABLE" /\ curenv' = e
  BY DEF Schedule
<1> QED BY <1>1

(* A step that makes no env FREE and frees none. *)
LEMMA AccountsKept ==
  ASSUME TypeOK, Accounts, UNCHANGED <<env_asid, env_free_list, asid_bitmap>>,
         \A e \in Slots : env_status'[e] = "FREE" <=> env_status[e] = "FREE"
  PROVE  Accounts'
BY DEF Accounts, FreeListIffFree, AsidsExact, Live

(* A sequence without repetition, and the set of its elements. *)
Distinct(f) == \A i, j \in 1..Len(f) : f[i] = f[j] => i = j
Elements(f) == {f[i] : i \in 1..Len(f)}

LEMMA TailElements ==
  ASSUME NEW S, NEW f \in Seq(S), f # <<>>, Distinct(f)
  PROVE  /\ Distinct(Tail(f)) /\ Elements(Tail(f)) = Elements(f) \ {f[1]}
         /\ f[1] \in Elements(f)
<1> DEFINE t == Tail(f)
<1>1. /\ Len(t) = Len(f) - 1 /\ Len(f) \in Nat /\ Len(f) > 0
      /\ \A i \in 1..Len(t) : t[i] = f[i + 1] /\ i + 1 \in 1..Len(f)
  OBVIOUS
<1> HIDE DEF t
<1>2. Distinct(t)
  BY <1>1 DEF Distinct
<1>3. ASSUME NEW i \in 1..Len(t) PROVE t[i] \in Elements(f) \ {f[1]}
  <2>1. 1 \in 1..Len(f) /\ i + 1 \in 1..Len(f) /\ i + 1 # 1 /\ t[i] = f[i + 1]
    BY <1>1
  <2> QED BY <2>1 DEF Distinct, Elements
<1>4. ASSUME NEW j \in 1..Len(f), f[j] # f[1] PROVE f[j] \in Elements(t)
  <2>1. j - 1 \in 1..Len(t) /\ (j - 1) + 1 = j
    BY <1>1, <1>4
  <2>2. t[j - 1] = f[j]
    BY <1>1, <2>1
  <2> QED BY <2>1, <2>2 DEF Elements
<1>5. f[1] \in Elements(f)
  BY <1>1 DEF Elements
<1> QED BY <1>2, <1>3, <1>4, <1>5 DEF Elements, t

LEMMA ConsElements ==
  ASSUME NEW S, NEW f \in Seq(S), NEW e \in S, Distinct(f), e \notin Elements(f)
  PROVE  Distinct(<<e>> \o f) /\ Elements(<<e>> \o f) = Elements(f) \cup {e}
<1> DEFINE t == <<e>> \o f
<1>1. /\ Len(t) = Len(f) + 1 /\ Len(f) \in Nat /\ t[1] = e
      /\ \A i \in 1..Len(f) : t[i + 1] = f[i] /\ i + 1 \in 1..Len(t)
  OBVIOUS
<1> HIDE DEF t
<1>2. ASSUME NEW i \in 1..Len(t), i # 1
      PROVE  i - 1 \in 1..Len(f) /\ t[i] = f[i - 1] /\ t[i] # e
  <2>1. i - 1 \in 1..Len(f) /\ (i - 1) + 1 = i
    BY <1>1, <1>2
  <2>2. t[i] = f[i - 1]
    BY <1>1, <2>1
  <2> QED BY <2>1, <2>2 DEF Elements
<1>3. ASSUME NEW i \in 1..Len(t), NEW j \in 1..Len(t), t[i] = t[j] PROVE i = j
  <2>1. CASE i = 1 \/ j = 1
    BY <2>1, <1>1, <1>2, <1>3
  <2>2. CASE i # 1 /\ j # 1
    <3>1. i - 1 = j - 1
      BY <2>2, <1>2, <1>3 DEF Distinct
    <3> QED BY <3>1
  <2> QED BY <2>1, <2>2
<1>4. \A i \in 1..Len(t) : t[i] \in Elements(f) \cup {e}
  BY <1>1, <1>2 DEF Elements
<1>5. \A x \in Elements(f) \cup {e} : \E i \in 1..Len(t) : t[i] = x
  <2>1. 1 \in 1..Len(t)
    BY <1>1
  <2> QED BY <2>1, <1>1 DEF Elements
<1>6. Elements(t) = Elements(f) \cup {e}
  BY <1>4, <1>5 DEF Elements
<1> QED BY <1>3, <1>6 DEF Distinct, t

(* env_alloc, by env_create or exofork. *)
LEMMA AccountsAlloc ==
  ASSUME TypeOK, Accounts, NEW parent, NEW status, status # "FREE",
         env_alloc(env_free_list[1], parent),
         env_status' = [env_status EXCEPT ![env_free_list[1]] = status]
  PROVE  Accounts'
<1> DEFINE fl == env_free_list
           e == env_free_list[1]
<1>1. /\ fl \in Seq(Slots) /\ fl # <<>> /\ e \in Slots /\ fl' = Tail(fl)
      /\ env_status \in [Slots -> Status] /\ env_asid \in [Slots -> ASIDs]
  BY DEF env_alloc, TypeOK
<1>2. FreeASID \in ASIDs \ asid_bitmap
  BY FreeASIDIsFree DEF env_alloc
<1>3. \A d \in Slots : Live(d)' <=> (d = e \/ Live(d))
  BY <1>1 DEF Live
<1>4. Distinct(fl) /\ Elements(fl) = {d \in Slots : ~Live(d)}
  BY DEF Accounts, FreeListIffFree, Distinct, Elements
<1>5. FreeListIffFree'
  <2>1. Distinct(Tail(fl)) /\ Elements(Tail(fl)) = Elements(fl) \ {e}
    BY <1>1, <1>4, TailElements
  <2> DEFINE F == {d \in Slots : ~Live(d)'}
  <2>2. F = {d \in Slots : ~Live(d)} \ {e}
    BY <1>3
  <2>3. Distinct(fl') /\ Elements(fl') = F
    BY <1>1, <1>4, <2>1, <2>2
  <2> QED BY <2>3 DEF FreeListIffFree, Distinct, Elements
<1>6. AsidsExact'
  <2>0. ~Live(e)
    BY <1>1, <1>4, TailElements
  <2>1. /\ env_asid' = [env_asid EXCEPT ![e] = FreeASID]
        /\ asid_bitmap' = asid_bitmap \cup {FreeASID}
    BY DEF env_alloc
  <2>2. env_asid'[e] = FreeASID /\ \A d \in Slots : d # e => env_asid'[d] = env_asid[d]
    BY <1>1, <2>1
  <2>3. asid_bitmap = {env_asid[d] : d \in {c \in Slots : Live(c)}}
    BY DEF Accounts, AsidsExact
  <2>4. \A d \in Slots : Live(d) => env_asid[d] # FreeASID
    BY <1>2, <2>3
  <2>5. \A c, d \in Slots : Live(c) /\ Live(d) /\ env_asid[c] = env_asid[d] => c = d
    BY DEF Accounts, AsidsExact
  <2> HIDE DEF e
  <2>6. \A c, d \in Slots : Live(c)' /\ Live(d)' /\ env_asid'[c] = env_asid'[d] => c = d
    BY <1>3, <2>2, <2>4, <2>5
  <2>7. asid_bitmap' = {env_asid'[d] : d \in {c \in Slots : Live(c)'}}
    BY <1>1, <1>3, <2>0, <2>1, <2>2, <2>3
  <2> QED BY <2>6, <2>7 DEF AsidsExact
<1> QED BY <1>5, <1>6 DEF Accounts

(* env_free. *)
LEMMA AccountsFree ==
  ASSUME TypeOK, Accounts, NEW e \in Slots, Live(e),
         env_status' = [env_status EXCEPT ![e] = "FREE"],
         asid_bitmap' = asid_free(e), env_free_list' = ReturnSlot(e), UNCHANGED env_asid
  PROVE  Accounts'
<1> DEFINE fl == env_free_list
<1>1. fl \in Seq(Slots) /\ fl' = <<e>> \o fl /\ env_status \in [Slots -> Status]
  BY DEF ReturnSlot, TypeOK
<1>2. \A d \in Slots : Live(d)' <=> (d # e /\ Live(d))
  BY <1>1 DEF Live
<1>3. FreeListIffFree'
  <2>1. Distinct(fl) /\ Elements(fl) = {d \in Slots : ~Live(d)}
    BY DEF Accounts, FreeListIffFree, Distinct, Elements
  <2>2. Distinct(<<e>> \o fl) /\ Elements(<<e>> \o fl) = Elements(fl) \cup {e}
    BY <1>1, <2>1, ConsElements
  <2> DEFINE F == {d \in Slots : ~Live(d)'}
  <2>3. F = {d \in Slots : ~Live(d)} \cup {e}
    BY <1>2
  <2>4. Distinct(fl') /\ Elements(fl') = F
    BY <1>1, <2>1, <2>2, <2>3
  <2> QED BY <2>4 DEF FreeListIffFree, Distinct, Elements
<1>4. AsidsExact'
  <2>1. asid_bitmap = {env_asid[d] : d \in {c \in Slots : Live(c)}}
    BY DEF Accounts, AsidsExact
  <2>2. \A c, d \in Slots : Live(c) /\ Live(d) /\ env_asid[c] = env_asid[d] => c = d
    BY DEF Accounts, AsidsExact
  <2>3. asid_bitmap' = asid_bitmap \ {env_asid[e]}
    BY DEF asid_free
  <2>4. asid_bitmap' = {env_asid[d] : d \in {c \in Slots : Live(c)'}}
    BY <1>2, <2>1, <2>2, <2>3
  <2> QED BY <1>2, <2>2, <2>4 DEF AsidsExact
<1> QED BY <1>3, <1>4 DEF Accounts

SlotsInv == TypeOK /\ CurRunnable /\ Accounts

LEMMA SlotsInit == Init => SlotsInv
<1> SUFFICES ASSUME Init PROVE SlotsInv
  OBVIOUS
<1>1. TypeOK
  BY InitType
<1>2. CurRunnable
  BY DEF Init, CurRunnable, Running
<1>3. \A e \in Slots : ~Live(e)
  BY DEF Init, Live
<1>4. AsidsExact
  BY <1>3 DEF Init, AsidsExact
<1>5. FreeListIffFree
  <2> DEFINE f == [i \in 1..NENV |-> i - 1]
  <2>1. NENV \in Nat
    BY EnvAssumption
  <2>2. Len(f) = NENV /\ \A i \in 1..NENV : f[i] = i - 1
    BY <2>1
  <2>3. \A i \in 1..NENV : i - 1 \in Slots
    BY <2>1 DEF Slots
  <2>4. \A d \in Slots : d + 1 \in 1..NENV /\ (d + 1) - 1 = d
    BY <2>1 DEF Slots
  <2>5. env_free_list = f
    BY DEF Init
  <2> HIDE DEF f
  <2>6. {f[i] : i \in 1..Len(f)} = Slots
    BY <2>2, <2>3, <2>4
  <2>7. \A i, j \in 1..Len(f) : f[i] = f[j] => i = j
    BY <2>1, <2>2
  <2> QED BY <2>5, <2>6, <2>7, <1>3 DEF FreeListIffFree
<1> QED BY <1>1, <1>2, <1>4, <1>5 DEF SlotsInv, Accounts

LEMMA SlotsStep == SlotsInv /\ [SysNext]_vars => SlotsInv'
<1> SUFFICES ASSUME SlotsInv, [SysNext]_vars PROVE SlotsInv'
  OBVIOUS
<1> USE DEF envVars, ipcVars, allocVars, cpuVars
<1>0. TypeOK' /\ TypeOK /\ Accounts /\ panicked \in BOOLEAN /\ env_status \in [Slots -> Status]
  BY NextType DEF SlotsInv, TypeOK
<1>a. ASSUME NEW yield, NEW q, NEW st, NEW cur, Schedule(yield, q, st, cur), env_status' = st
      PROVE  CurRunnable'
  BY <1>a, <1>0, ScheduleRunnable DEF CurRunnable, Running, TypeOK
<1>b. ASSUME NEW q, Return(q), Running, env_status'[curenv] = "RUNNABLE"
      PROVE  CurRunnable'
  BY <1>b DEF Return, CurRunnable, Running
<1>c. Running => curenv \in Slots /\ env_status[curenv] = "RUNNABLE" /\ Live(curenv)
  BY <1>0 DEF SlotsInv, CurRunnable, Running, TypeOK, Live
<1>d. ASSUME Running, NEW envid \in EnvIds, NEW checkperm, NEW e \in envid2env(envid, checkperm)
      PROVE  e \in Slots /\ Live(e)
  BY <1>0, <1>c, <1>d, envid2envType DEF envid2env
<1>1. ASSUME Boot \/ TimerInterrupt \/ sys_yield PROVE SlotsInv'
  <2>1. Accounts'
    BY <1>0, <1>1, AccountsKept DEF Boot, TimerInterrupt, sys_yield
  <2>2. CurRunnable'
    BY <1>1, <1>a DEF Boot, TimerInterrupt, sys_yield
  <2> QED BY <1>0, <2>1, <2>2 DEF SlotsInv
<1>2. ASSUME NEW pri \in Pris, env_create(pri) PROVE SlotsInv'
  <2>1. Accounts'
    BY <1>0, <1>2, AccountsAlloc DEF env_create
  <2>2. CurRunnable'
    BY <1>2 DEF env_create, CurRunnable, Running
  <2> QED BY <1>0, <2>1, <2>2 DEF SlotsInv
<1>3. ASSUME sys_exofork PROVE SlotsInv'
  <2> DEFINE e == env_free_list[1]
  <2>1. /\ Running /\ e \in Slots /\ ~Live(e) /\ UNCHANGED <<curenv, panicked>>
    <3>1. Distinct(env_free_list) /\ Elements(env_free_list) = {d \in Slots : ~Live(d)}
      BY <1>0 DEF Accounts, FreeListIffFree, Distinct, Elements
    <3>2. env_free_list \in Seq(Slots) /\ env_free_list # <<>>
      BY <1>0, <1>3 DEF TypeOK, sys_exofork
    <3>3. e \in Elements(env_free_list)
      BY <3>1, <3>2, TailElements
    <3> QED BY <1>3, <3>1, <3>3 DEF sys_exofork
  <2>2. CASE env_alloc(e, env_id[curenv]) /\ env_status' = [env_status EXCEPT ![e] = "NOT_RUNNABLE"]
    <3>1. Accounts'
      BY <1>0, <2>2, AccountsAlloc
    <3>2. CurRunnable'
      BY <1>0, <1>c, <2>1, <2>2 DEF CurRunnable, Running, Live
    <3> QED BY <1>0, <3>1, <3>2 DEF SlotsInv
  <2>3. CASE UNCHANGED <<env_status, env_asid, env_free_list, asid_bitmap>>
    <3>1. Accounts'
      BY <1>0, <2>3, AccountsKept
    <3>2. CurRunnable'
      BY <1>c, <2>1, <2>3 DEF CurRunnable, Running
    <3> QED BY <1>0, <3>1, <3>2 DEF SlotsInv
  <2> QED BY <1>3, <2>2, <2>3 DEF sys_exofork
<1>4. ASSUME sys_ipc_recv PROVE SlotsInv'
  <2>1. Running /\ env_status' = [env_status EXCEPT ![curenv] = "NOT_RUNNABLE"]
        /\ UNCHANGED <<env_asid, env_free_list, asid_bitmap>>
    BY <1>4 DEF sys_ipc_recv
  <2>2. Accounts'
    BY <1>0, <1>c, <2>1, AccountsKept DEF Live
  <2>3. CurRunnable'
    BY <1>4, <1>a DEF sys_ipc_recv
  <2> QED BY <1>0, <2>2, <2>3 DEF SlotsInv
<1>5. ASSUME NEW envid \in EnvIds, sys_env_destroy(envid) PROVE SlotsInv'
  <2>1. Running /\ UNCHANGED env_asid
    BY <1>5 DEF sys_env_destroy
  <2>2. PICK e \in envid2env(envid, TRUE) :
          LET st == [env_status EXCEPT ![e] = "FREE"]
              q  == TQ!Remove(env_sched_list, e)
          IN /\ env_status' = st
             /\ asid_bitmap' = asid_free(e)
             /\ env_free_list' = ReturnSlot(e)
             /\ IF TQ!RemoveFaults(env_sched_list, e) THEN KernelFault
                ELSE IF e = curenv THEN Schedule(TRUE, q, st, Nil) ELSE Return(q)
    BY <1>5 DEF sys_env_destroy
  <2>3. e \in Slots /\ Live(e)
    BY <1>d, <2>1
  <2>4. Accounts'
    BY <1>0, <2>1, <2>2, <2>3, AccountsFree
  <2>5. CurRunnable'
    <3>1. CASE KernelFault
      BY <3>1 DEF KernelFault, CurRunnable, Running
    <3>2. CASE Schedule(TRUE, TQ!Remove(env_sched_list, e), [env_status EXCEPT ![e] = "FREE"], Nil)
      BY <2>2, <3>2, <1>a
    <3>3. CASE e # curenv /\ Return(TQ!Remove(env_sched_list, e))
      BY <1>0, <1>b, <1>c, <2>1, <2>2, <3>3
    <3> QED BY <2>2, <3>1, <3>2, <3>3
  <2> QED BY <1>0, <2>4, <2>5 DEF SlotsInv
<1>6. ASSUME NEW envid \in EnvIds, sys_ipc_try_send(envid) PROVE SlotsInv'
  <2>1. Running /\ UNCHANGED <<env_asid, env_free_list, asid_bitmap>>
    BY <1>6 DEF sys_ipc_try_send
  <2>2. PICK e \in envid2env(envid, FALSE) :
          /\ env_status' = [env_status EXCEPT ![e] = "RUNNABLE"]
          /\ Return(TQ!InsertTail(env_sched_list, e))
    BY <1>6 DEF sys_ipc_try_send
  <2>3. e \in Slots /\ Live(e)
    BY <1>d, <2>1
  <2>4. Accounts'
    BY <1>0, <2>1, <2>2, <2>3, AccountsKept DEF Live
  <2>5. CurRunnable'
    BY <1>0, <1>b, <1>c, <2>1, <2>2, <2>3
  <2> QED BY <1>0, <2>4, <2>5 DEF SlotsInv
<1>7. ASSUME NEW envid \in EnvIds, NEW status \in {"RUNNABLE", "NOT_RUNNABLE"},
             sys_set_env_status(envid, status)
      PROVE  SlotsInv'
  <2>1. Running /\ UNCHANGED <<env_asid, env_free_list, asid_bitmap>>
    BY <1>7 DEF sys_set_env_status
  <2>2. PICK e \in envid2env(envid, TRUE) : \E q :
          /\ env_status' = [env_status EXCEPT ![e] = status]
          /\ IF e = curenv THEN Schedule(TRUE, q, [env_status EXCEPT ![e] = status], curenv)
             ELSE Return(q)
    BY <1>7 DEF sys_set_env_status
  <2>3. e \in Slots /\ Live(e)
    BY <1>d, <2>1
  <2>4. Accounts'
    BY <1>0, <2>1, <2>2, <2>3, AccountsKept DEF Live
  <2>5. CurRunnable'
    <3>1. CASE e = curenv
      BY <2>2, <3>1, <1>a
    <3>2. CASE e # curenv
      BY <1>0, <1>b, <1>c, <2>1, <2>2, <2>3, <3>2
    <3> QED BY <3>1, <3>2
  <2> QED BY <1>0, <2>4, <2>5 DEF SlotsInv
<1>8. ASSUME UNCHANGED vars PROVE SlotsInv'
  <2>1. Accounts'
    BY <1>0, <1>8, AccountsKept DEF vars
  <2>2. CurRunnable'
    BY <1>8 DEF vars, SlotsInv, CurRunnable, Running
  <2> QED BY <1>0, <2>1, <2>2 DEF SlotsInv
<1> QED BY <1>1, <1>2, <1>3, <1>4, <1>5, <1>6, <1>7, <1>8 DEF SysNext, Halted

(* Whatever user programs call, env_free_list holds the FREE slots.        *)
THEOREM SlotsAccounted == SysSpec => []FreeListIffFree
<1>1. SlotsInv => FreeListIffFree
  BY DEF SlotsInv, Accounts
<1> QED BY <1>1, SlotsInit, SlotsStep, PTL DEF SysSpec

(* Whatever user programs call, asid_bitmap holds the asids of the live    *)
(* envs, which are all different.                                          *)
THEOREM AsidsAccounted == SysSpec => []AsidsExact
<1>1. SlotsInv => AsidsExact
  BY DEF SlotsInv, Accounts
<1> QED BY <1>1, SlotsInit, SlotsStep, PTL DEF SysSpec

-----------------------------------------------------------------------------
(* With the calls of user/lib the run queue holds the runnable envs, the   *)
(* first of it has the CPU, and blocking and waking up lose no env and no  *)
(* message.  The calls are the steps of one FIFO.                          *)

FirstIfRunning == IF Running THEN curenv ELSE Nil

(* The inductive invariant, on top of SlotsInv.                            *)
Queued   == QueueOf(env_sched_list, Runnable, FirstIfRunning)
OwnSlot  == \A e \in Slots : Live(e) => ENVX(env_id[e]) = e
HasRun   == Running => env_ran[curenv]
Sleeping == \A e \in Slots :
              env_ipc_recving[e] <=> env_status[e] = "NOT_RUNNABLE" /\ env_ran[e]

LibInv == SlotsInv /\ Queued /\ OwnSlot /\ HasRun /\ Sleeping /\ PanicOnlyWhenIdle

(* The library's calls are system calls. *)
LEMMA LibIsSys ==
  ASSUME TypeOK, LibNext
  PROVE  SysNext
<1>1. NoEnvId \in EnvIds /\ \A e \in Slots : env_id[e] \in EnvIds
  <2>1. NoEnvId \in EnvIds
    BY EnvAssumption DEF NoEnvId, EnvIds, Slots
  <2> QED BY <2>1 DEF TypeOK
<1>2. ASSUME NEW e \in Slots, StartChild(e) PROVE SysNext
  <2>1. sys_set_env_status(env_id[e], "RUNNABLE")
    BY <1>2 DEF StartChild
  <2> QED BY <1>1, <2>1 DEF SysNext
<1>3. ASSUME NEW e \in Slots, Send(e) PROVE SysNext
  BY <1>1, <1>3 DEF Send, SysNext
<1>4. ASSUME Exit PROVE SysNext
  BY <1>1, <1>4 DEF Exit, SysNext
<1> QED BY <1>2, <1>3, <1>4 DEF LibNext, SysNext

(* schedule: from a queue that holds the envs runnable under st, it picks  *)
(* the first of the queue it leaves. *)
LEMMA ScheduleQueue ==
  ASSUME TypeOK, ~panicked, NEW yield, NEW q, NEW st, NEW cur \in Slots \cup {Nil},
         NEW R, R = {e \in Slots : st[e] = "RUNNABLE"},
         QueueOf(q, R, IF cur # Nil /\ st[cur] = "RUNNABLE" THEN cur ELSE Nil),
         Schedule(yield, q, st, cur)
  PROVE  \/ /\ panicked' = TRUE /\ R = {} /\ env_ran' = env_ran
            /\ QueueOf(env_sched_list', R, Nil)
         \/ /\ panicked' = FALSE /\ curenv' \in R
            /\ env_ran' = [env_ran EXCEPT ![curenv'] = TRUE]
            /\ QueueOf(env_sched_list', R, curenv')
<1> DEFINE runnable == cur # Nil /\ st[cur] = "RUNNABLE"
           keep == ~yield /\ count # 1 /\ runnable
           q1 == IF runnable THEN TQ!Requeue(q, cur) ELSE q
           q2 == IF keep THEN q ELSE q1
           e == IF keep THEN cur ELSE TQ!First(q1)
<1>1. /\ env_sched_list' = q2
      /\ \/ e = Nil /\ panicked' = TRUE /\ env_ran' = env_ran
         \/ /\ e # Nil /\ st[e] = "RUNNABLE"
            /\ curenv' = e /\ env_ran' = [env_ran EXCEPT ![e] = TRUE] /\ panicked' = panicked
         \/ e # Nil /\ st[e] # "RUNNABLE"
  BY DEF Schedule
<1>2. runnable => cur \in R
  OBVIOUS
<1>3. keep => QueueOf(q2, R, e) /\ e \in R /\ e # Nil
  BY <1>2, NullAssumption
<1>4. ~keep => (e = Nil <=> R = {}) /\ (e # Nil => e \in R /\ QueueOf(q2, R, e)) /\ QueueOf(q2, R, Nil)
  <2>1. QueueOf(q, R, IF runnable THEN cur ELSE Nil)
    OBVIOUS
  <2>2. QueueOf(q1, R, Nil)
    <3>1. CASE runnable
      BY <2>1, <1>2, <3>1, RequeueQueueOf
    <3>2. CASE ~runnable
      BY <2>1, <3>2
    <3> QED BY <3>1, <3>2
  <2> HIDE DEF q1, runnable
  <2> QED BY <2>2, FirstQueueOf
<1>5. e # Nil => st[e] = "RUNNABLE"
  BY <1>3, <1>4
<1> HIDE DEF e, q2, q1, keep, runnable
<1>6. panicked = FALSE
  BY DEF TypeOK
<1> QED BY <1>1, <1>3, <1>4, <1>5, <1>6

LEMMA LibInit == Init => LibInv
<1> SUFFICES ASSUME Init PROVE LibInv
  OBVIOUS
<1>1. SlotsInv
  BY SlotsInit
<1>2. Runnable = {} /\ FirstIfRunning = Nil
  BY DEF Init, Runnable, FirstIfRunning, Running
<1>3. QueueOf(TQ!EmptyQueue, {}, Nil)
  <2> DEFINE s == [i \in 1..0 |-> Nil]
  <2>1. TQ!Represents(TQ!EmptyQueue, 0, s)
    BY EmptyRepresents
  <2>2. s \in [1..0 -> Slots] /\ {} = {s[i] : i \in 1..0}
    OBVIOUS
  <2> HIDE DEF s
  <2> QED BY <2>1, <2>2, QueueTypes DEF QueueOf
<1>4. Queued
  BY <1>2, <1>3 DEF Queued, Init
<1>5. OwnSlot /\ HasRun /\ Sleeping /\ PanicOnlyWhenIdle
  BY DEF Init, OwnSlot, HasRun, Sleeping, PanicOnlyWhenIdle, Live, Running
<1> QED BY <1>1, <1>4, <1>5 DEF LibInv

LEMMA FreeFirst ==
  ASSUME SlotsInv, env_free_list # <<>>
  PROVE  env_free_list[1] \in Slots /\ ~Live(env_free_list[1])
<1>1. Distinct(env_free_list) /\ Elements(env_free_list) = {d \in Slots : ~Live(d)}
  BY DEF SlotsInv, Accounts, FreeListIffFree, Distinct, Elements
<1>2. env_free_list \in Seq(Slots)
  BY DEF SlotsInv, TypeOK
<1>3. env_free_list[1] \in Elements(env_free_list)
  BY <1>1, <1>2, TailElements
<1> QED BY <1>1, <1>3

LEMMA LibStep == LibInv /\ [LibNext]_vars => LibInv'
<1> SUFFICES ASSUME LibInv, [LibNext]_vars PROVE LibInv'
  OBVIOUS
<1> USE DEF envVars, ipcVars, allocVars, cpuVars
<1>0. /\ TypeOK /\ SlotsInv /\ SlotsInv' /\ panicked \in BOOLEAN /\ Queued /\ OwnSlot /\ HasRun
      /\ Sleeping /\ env_status \in [Slots -> Status] /\ env_ran \in [Slots -> BOOLEAN]
      /\ env_ipc_recving \in [Slots -> BOOLEAN] /\ env_id \in [Slots -> EnvIds]
  <2>1. TypeOK /\ SlotsInv
    BY DEF LibInv, SlotsInv
  <2>2. [SysNext]_vars
    BY <2>1, LibIsSys
  <2> QED BY <2>1, <2>2, SlotsStep DEF LibInv, TypeOK
<1>a. ASSUME NEW yield, NEW q, NEW st, NEW cur \in Slots \cup {Nil}, ~panicked,
             Schedule(yield, q, st, cur), env_status' = st,
             QueueOf(q, {e \in Slots : st[e] = "RUNNABLE"},
                     IF cur # Nil /\ st[cur] = "RUNNABLE" THEN cur ELSE Nil)
      PROVE  /\ Queued' /\ HasRun' /\ PanicOnlyWhenIdle'
             /\ \A e \in Slots : env_ran'[e] = env_ran[e] \/ st[e] = "RUNNABLE"
  <2> DEFINE R == {e \in Slots : st[e] = "RUNNABLE"}
  <2>1. \/ /\ panicked' = TRUE /\ R = {} /\ env_ran' = env_ran
           /\ QueueOf(env_sched_list', R, Nil)
        \/ /\ panicked' = FALSE /\ curenv' \in R
           /\ env_ran' = [env_ran EXCEPT ![curenv'] = TRUE]
           /\ QueueOf(env_sched_list', R, curenv')
    BY <1>0, <1>a, ScheduleQueue
  <2>2. Runnable' = R /\ R \subseteq Slots
    BY <1>a DEF Runnable
  <2>3. panicked' = TRUE => FirstIfRunning' = Nil
    BY DEF FirstIfRunning, Running
  <2>4. panicked' = FALSE /\ curenv' \in R => FirstIfRunning' = curenv'
    BY <2>2, NullAssumption DEF FirstIfRunning, Running
  <2>5. Queued'
    BY <2>1, <2>2, <2>3, <2>4 DEF Queued
  <2>6. HasRun' /\ PanicOnlyWhenIdle'
    BY <1>0, <2>1, <2>2 DEF HasRun, PanicOnlyWhenIdle, Running
  <2>7. \A e \in Slots : env_ran'[e] = env_ran[e] \/ st[e] = "RUNNABLE"
    BY <1>0, <2>1
  <2> QED BY <2>5, <2>6, <2>7
<1>b. ASSUME NEW q, Running, Return(q), QueueOf(q, Runnable', curenv)
      PROVE  Queued' /\ HasRun' /\ PanicOnlyWhenIdle' /\ env_ran' = env_ran
  <2>1. UNCHANGED <<curenv, panicked, env_ran>> /\ env_sched_list' = q
    BY <1>b DEF Return
  <2>2. Running' /\ FirstIfRunning' = curenv
    BY <1>b, <2>1 DEF Running, FirstIfRunning
  <2> QED BY <1>0, <1>b, <2>1, <2>2 DEF Queued, HasRun, PanicOnlyWhenIdle, Running
<1>c. Running => /\ ~panicked /\ curenv \in Slots /\ env_status[curenv] = "RUNNABLE"
                 /\ QueueOf(env_sched_list, Runnable, curenv) /\ curenv \in Runnable
  BY <1>0 DEF SlotsInv, CurRunnable, Running, TypeOK, Queued, FirstIfRunning, Runnable
<1>1. ASSUME Boot \/ TimerInterrupt \/ sys_yield PROVE LibInv'
  <2>1. UNCHANGED <<env_status, env_id, ipcVars>> /\ ~panicked
    BY <1>1 DEF Boot, TimerInterrupt, sys_yield, Running
  <2> DEFINE cur == IF Running THEN curenv ELSE Nil
  <2>2. \E yield \in BOOLEAN : Schedule(yield, env_sched_list, env_status, cur)
    <3>1. CASE Boot
      <4>1. cur = Nil /\ Schedule(FALSE, env_sched_list, env_status, Nil)
        BY <3>1 DEF Boot, Running
      <4> HIDE DEF cur
      <4> QED BY <4>1
    <3>2. CASE TimerInterrupt \/ sys_yield
      <4>1. cur = curenv /\ \E yield \in BOOLEAN : Schedule(yield, env_sched_list, env_status, curenv)
        BY <3>2 DEF TimerInterrupt, sys_yield
      <4> HIDE DEF cur
      <4> QED BY <4>1
    <3> QED BY <1>1, <3>1, <3>2
  <2>3. /\ cur \in Slots \cup {Nil}
        /\ QueueOf(env_sched_list, {e \in Slots : env_status[e] = "RUNNABLE"},
                   IF cur # Nil /\ env_status[cur] = "RUNNABLE" THEN cur ELSE Nil)
    BY <1>0, <1>c DEF Queued, FirstIfRunning, Runnable
  <2> HIDE DEF cur
  <2>4. /\ Queued' /\ HasRun' /\ PanicOnlyWhenIdle'
        /\ \A e \in Slots : env_ran'[e] = env_ran[e] \/ env_status[e] = "RUNNABLE"
    BY <2>1, <2>2, <2>3, <1>a
  <2>5. OwnSlot' /\ Sleeping'
    BY <1>0, <2>1, <2>4 DEF OwnSlot, Sleeping, Live
  <2> QED BY <1>0, <2>4, <2>5 DEF LibInv
<1>2. ASSUME NEW pri \in Pris, env_create(pri) PROVE LibInv'
  <2> DEFINE e == env_free_list[1]
  <2>1. /\ env_free_list # <<>> /\ ~panicked /\ curenv = Nil /\ UNCHANGED <<ipcVars, curenv, panicked>>
        /\ Number(e) /\ env_status' = [env_status EXCEPT ![e] = "RUNNABLE"]
        /\ env_sched_list' = TQ!InsertHead(env_sched_list, e)
    BY <1>2 DEF env_create, env_alloc
  <2>2. e \in Slots /\ ~Live(e)
    BY <1>0, <2>1, FreeFirst
  <2>3. QueueOf(env_sched_list, Runnable, Nil) /\ e \in Slots \ Runnable
    BY <1>0, <2>1, <2>2 DEF Queued, FirstIfRunning, Running, Runnable, Live
  <2>4. QueueOf(env_sched_list', Runnable \cup {e}, e)
    BY <2>1, <2>3, InsertHeadQueueOf
  <2>5. Runnable' = Runnable \cup {e} /\ FirstIfRunning' = Nil
    BY <1>0, <2>1, <2>2 DEF Runnable, FirstIfRunning, Running
  <2>6. Queued'
    BY <2>4, <2>5, FirstQueueOf DEF Queued
  <2>7. HasRun' /\ PanicOnlyWhenIdle'
    BY <1>0, <2>1 DEF HasRun, Running, PanicOnlyWhenIdle
  <2>8. OwnSlot'
    BY <1>0, <2>1, <2>2 DEF OwnSlot, Live, Number, mkenvid, ENVX
  <2>9. Sleeping'
    BY <1>0, <2>1, <2>2 DEF Sleeping, Live, Number
  <2> QED BY <1>0, <2>6, <2>7, <2>8, <2>9 DEF LibInv
<1>3. ASSUME sys_exofork PROVE LibInv'
  <2> DEFINE e == env_free_list[1]
  <2>1. /\ env_free_list # <<>> /\ Running /\ UNCHANGED <<ipcVars, curenv, panicked, env_sched_list>>
        /\ Number(e)
        /\ env_status' = env_status \/ env_status' = [env_status EXCEPT ![e] = "NOT_RUNNABLE"]
    BY <1>3 DEF sys_exofork, env_alloc
  <2>2. e \in Slots /\ ~Live(e)
    BY <1>0, <2>1, FreeFirst
  <2>3. Runnable' = Runnable /\ FirstIfRunning' = FirstIfRunning
    BY <1>0, <2>1, <2>2 DEF Runnable, FirstIfRunning, Running, Live
  <2>4. Queued' /\ PanicOnlyWhenIdle'
    BY <1>0, <2>1, <2>3 DEF Queued, PanicOnlyWhenIdle, Running
  <2>5. HasRun'
    BY <1>0, <1>c, <2>1, <2>2 DEF HasRun, Running, Number, Live
  <2>6. OwnSlot'
    BY <1>0, <2>1, <2>2 DEF OwnSlot, Live, Number, mkenvid, ENVX
  <2>7. Sleeping'
    BY <1>0, <2>1, <2>2 DEF Sleeping, Live, Number
  <2> QED BY <1>0, <2>4, <2>5, <2>6, <2>7 DEF LibInv
<1>4. ASSUME sys_ipc_recv PROVE LibInv'
  <2> DEFINE st == [env_status EXCEPT ![curenv] = "NOT_RUNNABLE"]
             q == TQ!Remove(env_sched_list, curenv)
  <2>1. /\ Running /\ env_status' = st /\ UNCHANGED env_id
        /\ env_ipc_recving' = [env_ipc_recving EXCEPT ![curenv] = TRUE]
        /\ Schedule(TRUE, q, st, curenv)
    BY <1>4 DEF sys_ipc_recv, Receiving
  <2>2. /\ ~panicked /\ curenv \in Slots /\ curenv # Nil /\ st[curenv] = "NOT_RUNNABLE"
        /\ {e \in Slots : st[e] = "RUNNABLE"} = Runnable \ {curenv}
    BY <1>0, <1>c, <2>1 DEF Runnable, Running
  <2>3. QueueOf(q, Runnable \ {curenv}, Nil)
    BY <1>c, <2>1, RemoveQueueOf
  <2> HIDE DEF st, q
  <2>4. /\ Queued' /\ HasRun' /\ PanicOnlyWhenIdle'
        /\ \A e \in Slots : env_ran'[e] = env_ran[e] \/ st[e] = "RUNNABLE"
    BY <2>1, <2>2, <2>3, <1>a
  <2>5. st = [env_status EXCEPT ![curenv] = "NOT_RUNNABLE"]
    BY DEF st
  <2>6. OwnSlot'
    BY <1>0, <1>c, <2>1, <2>2, <2>5 DEF OwnSlot, Live
  <2>7. ASSUME NEW e \in Slots
        PROVE  env_ipc_recving'[e] <=> env_status'[e] = "NOT_RUNNABLE" /\ env_ran'[e]
    <3>1. CASE e = curenv
      BY <1>0, <2>1, <2>2, <2>4, <3>1 DEF HasRun
    <3>2. CASE e # curenv
      <4>1. env_status'[e] = env_status[e] /\ env_ipc_recving'[e] = env_ipc_recving[e]
        BY <1>0, <2>1, <2>2, <2>5, <3>2
      <4>2. env_ran'[e] = env_ran[e] \/ env_status[e] = "RUNNABLE"
        BY <2>1, <2>4, <4>1
      <4> QED BY <1>0, <4>1, <4>2 DEF Sleeping
    <3> QED BY <3>1, <3>2
  <2>8. Sleeping'
    BY <2>7 DEF Sleeping
  <2> QED BY <1>0, <2>4, <2>6, <2>8 DEF LibInv
<1>5. ASSUME Exit PROVE LibInv'
  <2> DEFINE st == [env_status EXCEPT ![curenv] = "FREE"]
             q == TQ!Remove(env_sched_list, curenv)
  <2>1. /\ Running /\ env_status' = st /\ UNCHANGED <<env_id, ipcVars>>
        /\ IF TQ!RemoveFaults(env_sched_list, curenv) THEN KernelFault
           ELSE Schedule(TRUE, q, st, Nil)
    BY <1>5 DEF Exit, sys_env_destroy, envid2env
  <2>2. /\ ~panicked /\ curenv \in Slots
        /\ {e \in Slots : st[e] = "RUNNABLE"} = Runnable \ {curenv}
    BY <1>0, <1>c, <2>1 DEF Runnable, Running
  <2>3. QueueOf(q, Runnable \ {curenv}, Nil) /\ ~TQ!RemoveFaults(env_sched_list, curenv)
    BY <1>c, <2>1, RemoveQueueOf
  <2> HIDE DEF st, q
  <2>4. /\ Queued' /\ HasRun' /\ PanicOnlyWhenIdle'
        /\ \A e \in Slots : env_ran'[e] = env_ran[e] \/ st[e] = "RUNNABLE"
    BY <2>1, <2>2, <2>3, <1>a
  <2>5. OwnSlot' /\ Sleeping'
    BY <1>0, <1>c, <2>1, <2>2, <2>4 DEF OwnSlot, Sleeping, Live, st
  <2> QED BY <1>0, <2>4, <2>5 DEF LibInv
<1>6. ASSUME NEW d \in Slots, Send(d) PROVE LibInv'
  <2>1. Running /\ UNCHANGED env_id
    BY <1>6 DEF Send, sys_ipc_try_send
  <2>2. PICK e \in envid2env(env_id[d], FALSE) :
          /\ env_ipc_recving[e]
          /\ env_ipc_recving' = [env_ipc_recving EXCEPT ![e] = FALSE]
          /\ env_status' = [env_status EXCEPT ![e] = "RUNNABLE"]
          /\ Return(TQ!InsertTail(env_sched_list, e))
    BY <1>6 DEF Send, sys_ipc_try_send, Receiving
  <2>3. e \in Slots
    BY <1>0, <2>1, envid2envType
  <2>4. e \in Slots \ Runnable /\ Runnable' = Runnable \cup {e}
    BY <1>0, <2>2, <2>3 DEF Sleeping, Runnable
  <2>5. QueueOf(TQ!InsertTail(env_sched_list, e), Runnable', curenv)
    BY <1>c, <2>1, <2>4, InsertTailQueueOf
  <2>6. Queued' /\ HasRun' /\ PanicOnlyWhenIdle' /\ env_ran' = env_ran
    BY <1>b, <2>1, <2>2, <2>5
  <2>7. OwnSlot' /\ Sleeping'
    BY <1>0, <2>1, <2>2, <2>3, <2>6 DEF OwnSlot, Sleeping, Live
  <2> QED BY <1>0, <2>6, <2>7 DEF LibInv
<1>7. ASSUME NEW d \in Slots, StartChild(d) PROVE LibInv'
  <2>1. Running /\ UNCHANGED <<env_id, ipcVars>> /\ Embryo(d)
    BY <1>7 DEF StartChild, sys_set_env_status
  <2>2. PICK e \in envid2env(env_id[d], TRUE) :
          LET st == [env_status EXCEPT ![e] = "RUNNABLE"]
              q  == IF env_status[e] # "RUNNABLE" THEN TQ!InsertTail(env_sched_list, e)
                    ELSE env_sched_list
          IN env_status' = st
             /\ IF e = curenv THEN Schedule(TRUE, q, st, curenv) ELSE Return(q)
    BY <1>7 DEF StartChild, sys_set_env_status
  <2>3. e = curenv \/ e = d
    BY <1>0, <2>1 DEF envid2env, OwnSlot, Embryo, Live
  <2>4. CASE e = curenv
    <3>1. env_status' = env_status
      BY <1>0, <1>c, <2>1, <2>2, <2>4
    <3>2. Schedule(TRUE, env_sched_list, env_status, curenv)
      BY <1>0, <1>c, <2>1, <2>2, <2>4, <3>1
    <3>3. QueueOf(env_sched_list, {c \in Slots : env_status[c] = "RUNNABLE"},
                  IF curenv # Nil /\ env_status[curenv] = "RUNNABLE" THEN curenv ELSE Nil)
      BY <1>c, <2>1 DEF Runnable, Running
    <3>4. /\ Queued' /\ HasRun' /\ PanicOnlyWhenIdle'
          /\ \A c \in Slots : env_ran'[c] = env_ran[c] \/ env_status[c] = "RUNNABLE"
      BY <1>a, <1>c, <2>1, <3>1, <3>2, <3>3
    <3>5. OwnSlot' /\ Sleeping'
      BY <1>0, <2>1, <3>1, <3>4 DEF OwnSlot, Sleeping, Live
    <3> QED BY <1>0, <3>4, <3>5 DEF LibInv
  <2>5. CASE e # curenv
    <3>1. e = d /\ env_status[d] = "NOT_RUNNABLE" /\ ~env_ran[d]
      BY <2>1, <2>3, <2>5 DEF Embryo
    <3>2. /\ env_status' = [env_status EXCEPT ![d] = "RUNNABLE"]
          /\ Return(TQ!InsertTail(env_sched_list, d))
      BY <2>2, <2>5, <3>1
    <3>3. d \in Slots \ Runnable /\ Runnable' = Runnable \cup {d}
      BY <1>0, <3>1, <3>2 DEF Runnable
    <3>4. QueueOf(TQ!InsertTail(env_sched_list, d), Runnable', curenv)
      BY <1>c, <2>1, <3>3, InsertTailQueueOf
    <3>5. Queued' /\ HasRun' /\ PanicOnlyWhenIdle' /\ env_ran' = env_ran
      BY <1>b, <2>1, <3>2, <3>4
    <3>6. OwnSlot' /\ Sleeping'
      BY <1>0, <2>1, <3>1, <3>2, <3>5 DEF OwnSlot, Sleeping, Live
    <3> QED BY <1>0, <3>5, <3>6 DEF LibInv
  <2> QED BY <2>4, <2>5
<1>8. ASSUME UNCHANGED vars PROVE LibInv'
  BY <1>0, <1>8 DEF vars, LibInv, Queued, OwnSlot, HasRun, Sleeping, PanicOnlyWhenIdle,
                    Runnable, FirstIfRunning, Running, Live
<1> QED BY <1>1, <1>2, <1>3, <1>4, <1>5, <1>6, <1>7, <1>8 DEF LibNext, Halted

----------------------------------------------------------------------------
(* No chain is longer than there are slots. *)
LEMMA ChainBounded ==
  ASSUME NEW q, NEW n \in Nat, NEW s, TQ!Represents(q, n, s)
  PROVE  n <= NENV
<1> SUFFICES ASSUME ~(n <= NENV) PROVE FALSE
  OBVIOUS
<1>1. IsFiniteSet(1..n) /\ Cardinality(1..n) = n
  BY FS_Interval
<1>2. IsFiniteSet(Slots) /\ Cardinality(Slots) = NENV
  BY EnvAssumption, FS_Interval DEF Slots
<1>3. Cardinality(Slots) < Cardinality(1..n)
  BY <1>1, <1>2, EnvAssumption
<1>4. s \in [1..n -> Slots]
  BY DEF TQ!Represents
<1>5. \E i, j \in 1..n : i # j /\ s[i] = s[j]
  BY <1>1, <1>2, <1>3, <1>4, FS_PigeonHole
<1> QED BY <1>5 DEF TQ!Represents

(* A chain through a set of slots has at most NENV elements.               *)
LEMMA QueueOfBounded ==
  ASSUME NEW q, NEW R, NEW f, QueueOf(q, R, f)
  PROVE  \E n \in 0..NENV : \E s \in [1..n -> R] :
           R = {s[i] : i \in 1..n} /\ TQ!Represents(q, n, s)
<1>1. PICK n \in Nat : \E s \in [1..n -> Slots] :
        TQ!Represents(q, n, s) /\ R = {s[i] : i \in 1..n}
  BY DEF QueueOf
<1>2. PICK s \in [1..n -> Slots] : TQ!Represents(q, n, s) /\ R = {s[i] : i \in 1..n}
  BY <1>1
<1>3. n <= NENV
  BY <1>2, ChainBounded
<1>4. s \in [1..n -> R] /\ n \in 0..NENV
  BY <1>2, <1>3, EnvAssumption
<1> QED BY <1>2, <1>4

LEMMA LibInvariant == LibSpec => []LibInv
BY LibInit, LibStep, PTL DEF LibSpec

(* env.c:14, for the calls of user/lib: env_sched_list is one chain        *)
(* through exactly the RUNNABLE envs. *)
THEOREM RunQueueIntact == LibSpec => []SchedListIffRunnable
<1>1. LibInv => SchedListIffRunnable
  BY QueueOfBounded DEF LibInv, Queued, SchedListIffRunnable
<1> QED BY <1>1, LibInvariant, PTL

(* schedule's rotation is round-robin: whoever has the CPU is first in the *)
(* queue, and RUNNABLE. *)
THEOREM FirstHasTheCpu == LibSpec => []CurenvIsFirst
<1>1. LibInv => CurenvIsFirst
  <2> SUFFICES ASSUME LibInv, Running PROVE TQ!First(env_sched_list) = curenv /\ env_status[curenv] = "RUNNABLE"
    BY DEF CurenvIsFirst
  <2>1. QueueOf(env_sched_list, Runnable, curenv) /\ curenv # Nil
    BY DEF LibInv, Queued, FirstIfRunning, Running
  <2>2. TQ!First(env_sched_list) = curenv /\ curenv \in Runnable
    BY <2>1, FirstQueueOf
  <2> QED BY <2>2 DEF Runnable
<1> QED BY <1>1, LibInvariant, PTL

(* ipc_recv and ipc_try_send lose no sleeper: who has run and sleeps can be *)
(* woken by a message. *)
THEOREM NobodySleepsUnheard == LibSpec => []NoLostSleeper
<1>1. LibInv => NoLostSleeper
  BY DEF LibInv, Sleeping, NoLostSleeper
<1> QED BY <1>1, LibInvariant, PTL

(* The panics of schedule, env_run and the list macros are out of reach,   *)
(* but for the one that says there is nothing left to run (sched.c:45).    *)
THEOREM PanicMeansIdle == LibSpec => []PanicOnlyWhenIdle
<1>1. LibInv => PanicOnlyWhenIdle
  BY DEF LibInv
<1> QED BY <1>1, LibInvariant, PTL

(* A woken receiver finds the message it was woken by: a second sender is  *)
(* refused until the next ipc_recv. *)
THEOREM MessageKept == LibSpec => MessageNotOverwritten
<1>1. ASSUME LibInv, LibNext
      PROVE  \A e \in Slots : env_status[e] = "RUNNABLE" => env_ipc_from'[e] = env_ipc_from[e]
  <2>1. ASSUME NEW d \in Slots, Send(d), NEW e \in Slots, env_status[e] = "RUNNABLE"
        PROVE  env_ipc_from'[e] = env_ipc_from[e]
    <3>1. PICK c \in envid2env(env_id[d], FALSE) :
            env_ipc_recving[c] /\ env_ipc_from' = [env_ipc_from EXCEPT ![c] = env_id[curenv]]
      BY <2>1 DEF Send, sys_ipc_try_send
    <3>2. Running /\ TypeOK
      BY <1>1, <2>1 DEF Send, sys_ipc_try_send, LibInv, SlotsInv
    <3>3. c \in Slots
      BY <3>2, envid2envType DEF TypeOK
    <3>4. e # c
      BY <1>1, <2>1, <3>1, <3>3 DEF LibInv, Sleeping
    <3> QED BY <3>1, <3>2, <3>4 DEF TypeOK
  <2>2. CASE UNCHANGED env_ipc_from
    BY <2>2
  <2>3. (\E d \in Slots : Send(d)) \/ UNCHANGED env_ipc_from
    BY <1>1 DEF LibNext, Boot, env_create, TimerInterrupt, sys_yield, sys_exofork, sys_ipc_recv,
                Halted, Exit, StartChild, sys_env_destroy, sys_set_env_status, ipcVars, vars
  <2> QED BY <2>1, <2>2, <2>3
<1>2. UNCHANGED vars => [\A e \in Slots : env_status[e] = "RUNNABLE" => env_ipc_from'[e] = env_ipc_from[e]]_vars
  OBVIOUS
<1>3. LibInv /\ [LibNext]_vars =>
        [\A e \in Slots : env_status[e] = "RUNNABLE" => env_ipc_from'[e] = env_ipc_from[e]]_vars
  BY <1>1, <1>2
<1> QED BY <1>3, LibInvariant, PTL DEF LibSpec, MessageNotOverwritten

----------------------------------------------------------------------------
(* The queue as a sequence. *)
(* The walk of QueueOrder visits a chain in its order. *)
LEMMA OrderOf ==
  ASSUME NEW q, NEW n \in Nat, NEW s, TQ!Represents(q, n, s)
  PROVE  QueueOrder(q) = s
<1> DEFINE Walk(f) == [i \in 0..NENV |-> IF i = 0 THEN TqHead
                                         ELSE IF f[i - 1] = Nil THEN Nil
                                         ELSE q.next[f[i - 1]]]
           at == CHOOSE f : f = Walk(f)
           g == [i \in 0..NENV |-> IF i = 0 THEN TqHead ELSE IF i <= n THEN s[i] ELSE Nil]
<1>1. n \in 0..NENV /\ NENV \in Nat
  BY ChainBounded, EnvAssumption
<1>2. /\ s \in [1..n -> Slots] /\ (n > 0 => q.next[s[n]] = Nil)
      /\ q.next[TqHead] = IF n = 0 THEN Nil ELSE s[1]
      /\ \A i \in 1..n : i < n => q.next[s[i]] = s[i + 1]
  BY DEF TQ!Represents
<1>3. /\ \A i \in 1..n : g[i] = s[i] /\ g[i] # Nil
      /\ \A i \in 1..NENV : i > n => g[i] = Nil
      /\ g[0] = TqHead /\ g[0] # Nil
  BY <1>1, <1>2, NullAssumption
<1>4. ASSUME NEW i \in 1..NENV
      PROVE  g[i] = IF g[i - 1] = Nil THEN Nil ELSE q.next[g[i - 1]]
  <2>1. CASE i = 1
    BY <1>1, <1>2, <1>3, <2>1
  <2>2. CASE i > 1 /\ i <= n
    <3>1. i - 1 \in 1..n /\ i - 1 < n /\ (i - 1) + 1 = i /\ i \in 1..n
      BY <1>1, <2>2
    <3>2. q.next[s[i - 1]] = s[i]
      BY <1>2, <3>1
    <3> QED BY <1>3, <3>1, <3>2
  <2>3. CASE i > 1 /\ i = n + 1
    <3>1. i - 1 = n /\ n \in 1..n
      BY <1>1, <2>3
    <3> QED BY <1>2, <1>3, <2>3, <3>1
  <2>4. CASE i > n + 1
    <3>1. i - 1 \in 1..NENV /\ i - 1 > n
      BY <1>1, <2>4
    <3> QED BY <1>3, <2>4, <3>1
  <2> QED BY <1>1, <2>1, <2>2, <2>3, <2>4
<1>5. \E f : f = Walk(f)
  <2>1. g = Walk(g)
    <3> DEFINE w == Walk(g)
    <3>1. w = [i \in 0..NENV |-> w[i]] /\ g = [i \in 0..NENV |-> g[i]]
      OBVIOUS
    <3>2. \A i \in 0..NENV : w[i] = g[i]
      <4> HIDE DEF g
      <4>1. \A i \in 0..NENV : i = 0 \/ i \in 1..NENV
        BY <1>1
      <4> QED BY <1>3, <1>4, <4>1
    <3>3. g = w
      <4> HIDE DEF w, g
      <4> QED BY <3>1, <3>2
    <3> QED BY <3>3
  <2> QED BY <2>1
<1>6. at = Walk(at)
  BY <1>5, Zenon
<1>7. \A i \in 0..NENV : at[i] = g[i]
  <2> DEFINE Bad == {i \in 0..NENV : at[i] # g[i]}
             R == {ss \in Nat \X Nat : ss[1] < ss[2]}
  <2>1. at[0] = TqHead /\ \A i \in 1..NENV : at[i] = IF at[i - 1] = Nil THEN Nil ELSE q.next[at[i - 1]]
    <3> HIDE DEF at
    <3>1. \A i \in 0..NENV : at[i] = IF i = 0 THEN TqHead ELSE IF at[i - 1] = Nil THEN Nil ELSE q.next[at[i - 1]]
      BY <1>6
    <3>2. 0 \in 0..NENV /\ \A i \in 1..NENV : i \in 0..NENV /\ i # 0
      BY <1>1
    <3> QED BY <3>1, <3>2
  <2> HIDE DEF at, g
  <2> SUFFICES ASSUME Bad # {} PROVE FALSE
    OBVIOUS
  <2>2. PICK x \in Bad : \A y \in Bad : ~(<<y, x>> \in R)
    <3>1. IsWellFoundedOn(R, Nat)
      BY NatLessThanWellFounded, Zenon DEF R, OpToRel
    <3>2. Bad \subseteq Nat
      BY <1>1
    <3> HIDE DEF Bad, R
    <3> QED BY <3>1, <3>2, WFMin
  <2>3. x \in 1..NENV /\ x - 1 \in 0..NENV
    BY <1>1, <1>3, <2>1, <2>2
  <2>4. x - 1 \notin Bad
    <3>1. x - 1 \in Nat /\ x \in Nat /\ x - 1 < x
      BY <1>1, <2>3
    <3>2. <<x - 1, x>> \in R
      BY <3>1
    <3> QED BY <2>2, <3>2
  <2>5. at[x - 1] = g[x - 1]
    BY <2>3, <2>4
  <2>6. at[x] = g[x]
    BY <1>4, <2>1, <2>3, <2>5
  <2> QED BY <2>2, <2>6
<1>8. {j \in 1..NENV : at[j] # Nil} = 1..n
  <2> HIDE DEF at, g
  <2>1. \A j \in 1..NENV : at[j] # Nil <=> j \in 1..n
    BY <1>1, <1>3, <1>7
  <2>2. 1..n \subseteq 1..NENV
    BY <1>1
  <2> QED BY <2>1, <2>2
<1>9. Cardinality(1..n) = n
  BY FS_Interval
<1>10. QueueOrder(q) = [i \in 1..Cardinality({j \in 1..NENV : at[j] # Nil}) |-> at[i]]
  BY Zenon DEF QueueOrder
<1>11. QueueOrder(q) = [i \in 1..n |-> at[i]]
  BY <1>8, <1>9, <1>10
<1>12. \A i \in 1..n : at[i] = s[i]
  <2> HIDE DEF at, g
  <2> QED BY <1>1, <1>3, <1>7
<1> HIDE DEF at, g
<1> QED BY <1>2, <1>11, <1>12


LEMMA QueueOrderOf ==
  ASSUME NEW q, NEW R, NEW f, QueueOf(q, R, f)
  PROVE  /\ QueueOrder(q) \in Seq(Slots)
         /\ R = {QueueOrder(q)[i] : i \in DOMAIN QueueOrder(q)}
         /\ QueueOrder(q) = <<>> <=> R = {}
         /\ f # Nil => QueueOrder(q) # <<>> /\ QueueOrder(q)[1] = f
<1>1. PICK n \in Nat : \E s \in [1..n -> Slots] :
        /\ TQ!Represents(q, n, s) /\ R = {s[i] : i \in 1..n}
        /\ f # Nil => n > 0 /\ s[1] = f
  BY DEF QueueOf
<1>2. PICK s \in [1..n -> Slots] :
        /\ TQ!Represents(q, n, s) /\ R = {s[i] : i \in 1..n}
        /\ f # Nil => n > 0 /\ s[1] = f
  BY <1>1
<1>3. QueueOrder(q) = s
  BY <1>2, OrderOf
<1>4. s \in Seq(Slots) /\ DOMAIN s = 1..n /\ Len(s) = n /\ (s = <<>> <=> n = 0)
  <2>1. s \in Seq(Slots) /\ DOMAIN s = 1..n /\ Len(s) = n
    OBVIOUS
  <2> QED BY <2>1, EmptySeq
<1>5. n = 0 <=> R = {}
  <2>1. n # 0 => s[1] \in R
    BY <1>2
  <2>2. n = 0 => R = {}
    BY <1>2
  <2> QED BY <2>1, <2>2
<1>6. R = {s[i] : i \in DOMAIN s}
  BY <1>2, <1>4
<1>7. R = {QueueOrder(q)[i] : i \in DOMAIN QueueOrder(q)}
  BY <1>3, <1>6, Zenon
<1>8. QueueOrder(q) \in Seq(Slots) /\ (QueueOrder(q) = <<>> <=> R = {})
  BY <1>3, <1>4, <1>5
<1>9. f # Nil => QueueOrder(q) # <<>> /\ QueueOrder(q)[1] = f
  BY <1>2, <1>3, <1>4
<1> QED BY <1>7, <1>8, <1>9

(* What the calls do to the order: who is started or woken goes last. *)
LEMMA OrderInsertTail ==
  ASSUME NEW q, NEW R, NEW f, QueueOf(q, R, f), NEW e \in Slots \ R
  PROVE  QueueOrder(TQ!InsertTail(q, e)) = Append(QueueOrder(q), e)
<1>1. PICK n \in Nat : \E s \in [1..n -> Slots] : TQ!Represents(q, n, s) /\ R = {s[i] : i \in 1..n}
  BY DEF QueueOf
<1>2. PICK s \in [1..n -> Slots] : TQ!Represents(q, n, s) /\ R = {s[i] : i \in 1..n}
  BY <1>1
<1>3. TQ!Represents(TQ!InsertTail(q, e), n + 1, WithLast(n, s, e))
  <2>1. \A i \in 1..n : s[i] # e
    BY <1>2
  <2> QED BY <1>2, <2>1, InsertTailRepresents DEF QueueOf
<1>4. WithLast(n, s, e) = Append(s, e)
  <2> DEFINE w == WithLast(n, s, e)
  <2>1. s \in Seq(Slots) /\ Len(s) = n
    OBVIOUS
  <2>2. /\ Append(s, e) \in Seq(Slots) /\ Len(Append(s, e)) = n + 1
        /\ \A i \in 1..n + 1 : Append(s, e)[i] = IF i <= n THEN s[i] ELSE e
    BY <2>1, AppendProperties
  <2>3. w \in Seq(Slots) /\ Len(w) = n + 1 /\ \A i \in 1..n + 1 : w[i] = IF i <= n THEN s[i] ELSE e
    BY DEF WithLast
  <2> HIDE DEF w
  <2>4. \A i \in 1..Len(w) : w[i] = Append(s, e)[i]
    BY <2>2, <2>3
  <2>5. w = Append(s, e)
    BY <2>2, <2>3, <2>4, SeqEqual
  <2> QED BY <2>5 DEF w
<1>5. QueueOrder(q) = s /\ QueueOrder(TQ!InsertTail(q, e)) = WithLast(n, s, e)
  <2>1. n + 1 \in Nat
    OBVIOUS
  <2> QED BY <1>2, <1>3, <2>1, OrderOf
<1> QED BY <1>4, <1>5

(* mips_init puts an env before the others. *)
LEMMA OrderInsertHead ==
  ASSUME NEW q, NEW R, NEW f, QueueOf(q, R, f), NEW e \in Slots \ R
  PROVE  QueueOrder(TQ!InsertHead(q, e)) = <<e>> \o QueueOrder(q)
<1>1. PICK n \in Nat : \E s \in [1..n -> Slots] : TQ!Represents(q, n, s) /\ R = {s[i] : i \in 1..n}
  BY DEF QueueOf
<1>2. PICK s \in [1..n -> Slots] : TQ!Represents(q, n, s) /\ R = {s[i] : i \in 1..n}
  BY <1>1
<1>3. TQ!Represents(TQ!InsertHead(q, e), n + 1, WithFirst(n, s, e))
  <2>1. \A i \in 1..n : s[i] # e
    BY <1>2
  <2> QED BY <1>2, <2>1, InsertHeadRepresents DEF QueueOf
<1>4. WithFirst(n, s, e) = <<e>> \o s
  <2>1. s \in Seq(Slots) /\ Len(s) = n /\ <<e>> \in Seq(Slots) /\ Len(<<e>>) = 1 /\ <<e>>[1] = e
    OBVIOUS
  <2> DEFINE c == <<e>> \o s
             w == WithFirst(n, s, e)
  <2>2. /\ c \in Seq(Slots) /\ Len(c) = n + 1
        /\ \A i \in 1..n + 1 : c[i] = IF i <= 1 THEN e ELSE s[i - 1]
    BY <2>1, ConcatProperties
  <2>3. w \in Seq(Slots) /\ Len(w) = n + 1 /\ \A i \in 1..n + 1 : w[i] = IF i = 1 THEN e ELSE s[i - 1]
    BY DEF WithFirst
  <2> HIDE DEF c, w
  <2>4. \A i \in 1..Len(w) : w[i] = c[i]
    BY <2>2, <2>3
  <2>5. w = c
    BY <2>2, <2>3, <2>4, SeqEqual
  <2> QED BY <2>5 DEF c, w
<1>5. QueueOrder(q) = s /\ QueueOrder(TQ!InsertHead(q, e)) = WithFirst(n, s, e)
  <2>1. n + 1 \in Nat
    OBVIOUS
  <2> QED BY <1>2, <1>3, <2>1, OrderOf
<1> QED BY <1>4, <1>5

(* Only the first leaves. *)
LEMMA OrderRemove ==
  ASSUME NEW q, NEW R, NEW f, QueueOf(q, R, f), f # Nil
  PROVE  QueueOrder(TQ!Remove(q, f)) = Tail(QueueOrder(q))
<1>1. PICK n \in Nat : \E s \in [1..n -> Slots] :
        TQ!Represents(q, n, s) /\ R = {s[i] : i \in 1..n} /\ n > 0 /\ s[1] = f
  BY DEF QueueOf
<1>2. PICK s \in [1..n -> Slots] :
        TQ!Represents(q, n, s) /\ R = {s[i] : i \in 1..n} /\ n > 0 /\ s[1] = f
  BY <1>1
<1>3. TQ!Represents(TQ!Remove(q, f), n - 1, Without(n, s, 1))
  <2>1. 1 \in 1..n
    BY <1>2
  <2> QED BY <1>2, <2>1, RemoveRepresents DEF QueueOf
<1>4. Without(n, s, 1) = Tail(s)
  <2> DEFINE w == Without(n, s, 1)
  <2>1. s \in Seq(Slots) /\ Len(s) = n /\ s # <<>>
    BY <1>2, EmptySeq
  <2>2. /\ Tail(s) \in Seq(Slots) /\ Len(Tail(s)) = n - 1
        /\ \A i \in 1..n - 1 : Tail(s)[i] = s[i + 1]
    BY <2>1, HeadTailProperties
  <2>3. w \in Seq(Slots) /\ Len(w) = n - 1 /\ \A i \in 1..n - 1 : w[i] = s[i + 1]
    BY <1>2 DEF Without
  <2> HIDE DEF w
  <2>4. \A i \in 1..Len(w) : w[i] = Tail(s)[i]
    BY <2>2, <2>3
  <2>5. w = Tail(s)
    BY <2>2, <2>3, <2>4, SeqEqual
  <2> QED BY <2>5 DEF w
<1>5. QueueOrder(q) = s /\ QueueOrder(TQ!Remove(q, f)) = Without(n, s, 1)
  <2>1. n - 1 \in Nat
    BY <1>2
  <2> QED BY <1>2, <1>3, <2>1, OrderOf
<1> QED BY <1>4, <1>5

----------------------------------------------------------------------------
(* The refinement of RunQueue. *)
OnCpu == IF panicked THEN Nil ELSE curenv

LEMMA CurrentFirst ==
  ASSUME LibInv, Running
  PROVE  /\ ~panicked /\ curenv \in Slots /\ curenv # Nil /\ env_status[curenv] = "RUNNABLE"
         /\ QueueOf(env_sched_list, Runnable, curenv) /\ curenv \in Runnable
         /\ RunOrder # <<>> /\ RunOrder[1] = curenv /\ OnCpu = curenv
<1>1. /\ ~panicked /\ curenv \in Slots /\ curenv # Nil /\ env_status[curenv] = "RUNNABLE"
      /\ QueueOf(env_sched_list, Runnable, curenv) /\ curenv \in Runnable
  BY DEF LibInv, SlotsInv, CurRunnable, Running, TypeOK, Queued, FirstIfRunning, Runnable
<1> QED BY <1>1, QueueOrderOf DEF RunOrder, OnCpu

(* The env that schedule picks is the first of the queue it leaves.        *)
LEMMA ScheduleDispatches ==
  ASSUME TypeOK, ~panicked, NEW yield, NEW q, NEW st, NEW cur \in Slots \cup {Nil},
         NEW R, R = {e \in Slots : st[e] = "RUNNABLE"},
         QueueOf(q, R, IF cur # Nil /\ st[cur] = "RUNNABLE" THEN cur ELSE Nil),
         Schedule(yield, q, st, cur)
  PROVE  OnCpu' = IF RunOrder' = <<>> THEN Nil ELSE RunOrder'[1]
<1>1. \/ panicked' = TRUE /\ R = {} /\ QueueOf(env_sched_list', R, Nil)
      \/ panicked' = FALSE /\ curenv' \in R /\ QueueOf(env_sched_list', R, curenv')
  BY ScheduleQueue
<1>2. RunOrder' = QueueOrder(env_sched_list')
  BY DEF RunOrder
<1>3. CASE panicked' = TRUE
  <2>1. RunOrder' = <<>>
    BY <1>1, <1>2, <1>3, QueueOrderOf
  <2> QED BY <1>3, <2>1 DEF OnCpu
<1>4. CASE panicked' = FALSE
  <2>1. curenv' # Nil /\ QueueOf(env_sched_list', R, curenv')
    BY <1>1, <1>4, NullAssumption
  <2>2. RunOrder' # <<>> /\ RunOrder'[1] = curenv'
    BY <1>2, <2>1, QueueOrderOf
  <2> QED BY <1>4, <2>2 DEF OnCpu
<1> QED BY <1>1, <1>3, <1>4

(* A tick or a yield goes on with the env or rotates the queue.            *)
LEMMA RotateOrStay ==
  ASSUME LibInv, Running, NEW yield, Schedule(yield, env_sched_list, env_status, curenv)
  PROVE  RQ!Rotate \/ UNCHANGED <<RunOrder, OnCpu>>
<1>1. /\ ~panicked /\ curenv \in Slots /\ curenv # Nil /\ env_status[curenv] = "RUNNABLE"
      /\ QueueOf(env_sched_list, Runnable, curenv) /\ curenv \in Runnable
      /\ RunOrder # <<>> /\ RunOrder[1] = curenv /\ OnCpu = curenv
  BY CurrentFirst
<1>2. TypeOK
  BY DEF LibInv, SlotsInv
<1>3. OnCpu' = IF RunOrder' = <<>> THEN Nil ELSE RunOrder'[1]
  BY <1>1, <1>2, ScheduleDispatches DEF Runnable
<1>4. CASE env_sched_list' = env_sched_list
  <2>1. RunOrder' = RunOrder
    BY <1>4 DEF RunOrder
  <2> QED BY <1>1, <1>3, <2>1
<1>5. CASE env_sched_list' = TQ!Requeue(env_sched_list, curenv)
  <2> DEFINE r == TQ!Remove(env_sched_list, curenv)
  <2>1. QueueOf(r, Runnable \ {curenv}, Nil) /\ curenv \in Slots \ (Runnable \ {curenv})
    BY <1>1, RemoveQueueOf
  <2>2. RunOrder' = QueueOrder(TQ!InsertTail(r, curenv))
    BY <1>5 DEF RunOrder, TQ!Requeue
  <2>3. QueueOrder(TQ!InsertTail(r, curenv)) = Append(QueueOrder(r), curenv)
    BY <2>1, OrderInsertTail
  <2>4. QueueOrder(r) = Tail(RunOrder)
    BY <1>1, OrderRemove DEF RunOrder
  <2>5. RunOrder' = Append(Tail(RunOrder), curenv)
    BY <2>2, <2>3, <2>4
  <2> QED BY <1>1, <1>3, <2>5 DEF RQ!Rotate, RQ!Dispatch, OnCpu
<1>6. env_sched_list' = env_sched_list \/ env_sched_list' = TQ!Requeue(env_sched_list, curenv)
  BY <1>1 DEF Schedule
<1> QED BY <1>4, <1>5, <1>6

(* The env that blocks or exits leaves the front. *)
LEMMA LeaveFront ==
  ASSUME LibInv, Running, NEW v, v # "RUNNABLE", NEW st, st = [env_status EXCEPT ![curenv] = v],
         NEW cur \in {curenv, Nil},
         Schedule(TRUE, TQ!Remove(env_sched_list, curenv), st, cur)
  PROVE  RQ!Leave
<1> DEFINE r == TQ!Remove(env_sched_list, curenv)
<1>1. /\ ~panicked /\ curenv \in Slots /\ curenv # Nil
      /\ QueueOf(env_sched_list, Runnable, curenv) /\ curenv \in Runnable
      /\ OnCpu = curenv
  BY CurrentFirst
<1>2. TypeOK /\ env_status \in [Slots -> Status]
  BY DEF LibInv, SlotsInv, TypeOK
<1>3. QueueOf(r, Runnable \ {curenv}, Nil)
  BY <1>1, RemoveQueueOf
<1>4. Runnable \ {curenv} = {e \in Slots : st[e] = "RUNNABLE"} /\ ~(cur # Nil /\ st[cur] = "RUNNABLE")
  BY <1>1, <1>2 DEF Runnable
<1>5. env_sched_list' = r
  BY <1>4 DEF Schedule
<1>6. RunOrder' = Tail(RunOrder)
  BY <1>1, <1>5, OrderRemove DEF RunOrder
<1> HIDE DEF r
<1>7. OnCpu' = IF RunOrder' = <<>> THEN Nil ELSE RunOrder'[1]
  BY <1>1, <1>2, <1>3, <1>4, ScheduleDispatches DEF r
<1> QED BY <1>1, <1>6, <1>7 DEF RQ!Leave, RQ!Dispatch, OnCpu

(* Who is started or woken enters at the end. *)
LEMMA EnterLast ==
  ASSUME LibInv, Running, NEW e \in Slots \ Runnable, Return(TQ!InsertTail(env_sched_list, e))
  PROVE  RQ!Enter
<1>1. QueueOf(env_sched_list, Runnable, curenv) /\ OnCpu = curenv /\ curenv # Nil
  BY CurrentFirst
<1>2. RunOrder' = Append(RunOrder, e)
  BY <1>1, OrderInsertTail DEF RunOrder, Return
<1>3. Runnable = RQ!Waiting
  BY <1>1, QueueOrderOf DEF RunOrder, RQ!Waiting
<1>4. OnCpu' = OnCpu
  BY DEF Return, OnCpu
<1> QED BY <1>1, <1>2, <1>3, <1>4 DEF RQ!Enter, OnCpu

LEMMA LibImplements ==
  ASSUME LibInv, LibNext
  PROVE  RQ!Next \/ UNCHANGED <<RunOrder, OnCpu>>
<1>1. TypeOK /\ SlotsInv /\ Queued /\ OwnSlot /\ Sleeping /\ env_status \in [Slots -> Status]
  BY DEF LibInv, SlotsInv, TypeOK
<1>2. CASE Boot
  <2>1. /\ ~panicked /\ curenv = Nil /\ Schedule(FALSE, env_sched_list, env_status, Nil)
    BY <1>2 DEF Boot
  <2>2. QueueOf(env_sched_list, Runnable, Nil)
    BY <1>1, <2>1 DEF Queued, FirstIfRunning, Running
  <2>3. env_sched_list' = env_sched_list
    BY <2>1 DEF Schedule
  <2>4. RunOrder' = RunOrder
    BY <2>3 DEF RunOrder
  <2>5. OnCpu' = IF RunOrder' = <<>> THEN Nil ELSE RunOrder'[1]
    BY <1>1, <2>1, <2>2, ScheduleDispatches DEF Runnable
  <2>6. OnCpu = Nil
    BY <2>1 DEF OnCpu
  <2> QED BY <2>4, <2>5, <2>6 DEF RQ!Next, RQ!Boot, RQ!Dispatch, OnCpu
<1>3. ASSUME NEW pri \in Pris, env_create(pri) PROVE RQ!Create
  <2> DEFINE e == env_free_list[1]
  <2>1. /\ env_free_list # <<>> /\ ~panicked /\ curenv = Nil /\ UNCHANGED <<curenv, panicked>>
        /\ env_sched_list' = TQ!InsertHead(env_sched_list, e)
    BY <1>3 DEF env_create, env_alloc
  <2>2. e \in Slots \ Runnable
    BY <1>1, <2>1, FreeFirst DEF Runnable, Live
  <2>3. QueueOf(env_sched_list, Runnable, Nil)
    BY <1>1, <2>1 DEF Queued, FirstIfRunning, Running
  <2> HIDE DEF e
  <2>4. RunOrder' = <<e>> \o RunOrder
    BY <2>1, <2>2, <2>3, OrderInsertHead DEF RunOrder
  <2>5. Runnable = RQ!Waiting
    BY <2>3, QueueOrderOf DEF RunOrder, RQ!Waiting
  <2>6. OnCpu = Nil /\ OnCpu' = OnCpu
    BY <2>1 DEF OnCpu
  <2> QED BY <2>2, <2>4, <2>5, <2>6 DEF RQ!Create, OnCpu
<1>4. CASE TimerInterrupt \/ sys_yield
  BY <1>4, RotateOrStay DEF TimerInterrupt, sys_yield, RQ!Next
<1>5. CASE sys_exofork \/ Halted
  <2>1. UNCHANGED <<env_sched_list, curenv, panicked>>
    BY <1>5 DEF sys_exofork, Halted, vars, cpuVars
  <2> QED BY <2>1 DEF RunOrder, OnCpu
<1>6. CASE sys_ipc_recv
  <2>1. Running /\ Schedule(TRUE, TQ!Remove(env_sched_list, curenv), [env_status EXCEPT ![curenv] = "NOT_RUNNABLE"], curenv)
    BY <1>6 DEF sys_ipc_recv
  <2> QED BY <2>1, LeaveFront DEF RQ!Next
<1>7. CASE Exit
  <2>1. /\ Running
        /\ IF TQ!RemoveFaults(env_sched_list, curenv) THEN KernelFault
           ELSE Schedule(TRUE, TQ!Remove(env_sched_list, curenv), [env_status EXCEPT ![curenv] = "FREE"], Nil)
    BY <1>7 DEF Exit, sys_env_destroy, envid2env
  <2>2. ~TQ!RemoveFaults(env_sched_list, curenv)
    BY <2>1, CurrentFirst, RemoveQueueOf
  <2> QED BY <2>1, <2>2, LeaveFront DEF RQ!Next
<1>8. ASSUME NEW d \in Slots, Send(d) PROVE RQ!Enter
  <2>1. PICK e \in envid2env(env_id[d], FALSE) :
          Running /\ env_ipc_recving[e] /\ Return(TQ!InsertTail(env_sched_list, e))
    BY <1>8 DEF Send, sys_ipc_try_send
  <2>2. env_id[d] \in EnvIds /\ e \in Slots
    BY <1>1, <2>1, envid2envType DEF TypeOK
  <2>3. e \in Slots \ Runnable
    BY <1>1, <2>1, <2>2 DEF Sleeping, Runnable
  <2> QED BY <2>1, <2>3, EnterLast
<1>9. ASSUME NEW d \in Slots, StartChild(d) PROVE RQ!Enter \/ RQ!Rotate \/ UNCHANGED <<RunOrder, OnCpu>>
  <2>1. Running /\ Embryo(d)
    BY <1>9 DEF StartChild, sys_set_env_status
  <2>2. PICK e \in envid2env(env_id[d], TRUE) :
          LET st == [env_status EXCEPT ![e] = "RUNNABLE"]
              q  == IF env_status[e] # "RUNNABLE" THEN TQ!InsertTail(env_sched_list, e)
                    ELSE env_sched_list
          IN env_status' = st
             /\ IF e = curenv THEN Schedule(TRUE, q, st, curenv) ELSE Return(q)
    BY <1>9 DEF StartChild, sys_set_env_status
  <2>3. e = curenv \/ e = d
    BY <1>1, <2>1 DEF envid2env, OwnSlot, Embryo, Live
  <2>4. CASE e = curenv
    <3>1. env_status[curenv] = "RUNNABLE" /\ curenv \in Slots
      BY <2>1, CurrentFirst
    <3>2. [env_status EXCEPT ![e] = "RUNNABLE"] = env_status
      BY <1>1, <2>4, <3>1
    <3>3. Schedule(TRUE, env_sched_list, env_status, curenv)
      BY <2>2, <2>4, <3>1, <3>2
    <3> QED BY <2>1, <3>3, RotateOrStay
  <2>5. CASE e # curenv
    <3>1. e \in Slots \ Runnable /\ Return(TQ!InsertTail(env_sched_list, e))
      BY <2>1, <2>2, <2>3, <2>5 DEF Embryo, Runnable
    <3> QED BY <2>1, <3>1, EnterLast
  <2> QED BY <2>4, <2>5
<1> QED BY <1>2, <1>3, <1>4, <1>5, <1>6, <1>7, <1>8, <1>9 DEF LibNext, RQ!Next

(* sched.c and its callers are one FIFO: nobody overtakes, is queued twice *)
(* or drops out, whatever order the calls of user/lib come in. *)
THEOREM LibIsARunQueue == LibSpec => ImplementsRunQueue
<1>1. Init => RQ!Init
  <2> SUFFICES ASSUME Init PROVE RQ!Init
    OBVIOUS
  <2>1. Queued /\ Runnable = {} /\ FirstIfRunning = Nil
    BY LibInit DEF LibInv, Init, Runnable, FirstIfRunning, Running
  <2>2. RunOrder = <<>>
    BY <2>1, QueueOrderOf DEF Queued, RunOrder
  <2> QED BY <2>2 DEF RQ!Init, Init
<1>2. LibInv /\ [LibNext]_vars => [RQ!Next]_<<RunOrder, IF panicked THEN Nil ELSE curenv>>
  <2>1. UNCHANGED vars => UNCHANGED <<RunOrder, OnCpu>>
    BY DEF vars, cpuVars, RunOrder, OnCpu
  <2> QED BY <2>1, LibImplements DEF OnCpu
<1> QED BY <1>1, <1>2, LibInvariant, PTL DEF LibSpec, ImplementsRunQueue, RQ!Spec
----------------------------------------------------------------------------
(* The kernel's own promises: any program, any call, any id.               *)
StatusKept(e) == \/ env_status'[e] = env_status[e]
                 \/ e = curenv \/ env_parent_id[e] = env_id[curenv]
                 \/ env_ipc_recving[e] /\ env_status'[e] = "RUNNABLE"

LEMMA PermittedOnly ==
  ASSUME TypeOK, Running, NEW envid \in EnvIds, NEW e \in envid2env(envid, TRUE)
  PROVE  e \in Slots /\ (e = curenv \/ env_parent_id[e] = env_id[curenv])
<1>1. e \in Slots
  BY envid2envType
<1>2. e = curenv \/ env_parent_id[e] = env_id[curenv]
  BY DEF envid2env
<1> QED BY <1>1, <1>2

LEMMA FreeFirstOnly ==
  ASSUME SlotsInv, env_free_list # <<>>, NEW e \in Slots, Live(e), NEW v,
         env_status' = [env_status EXCEPT ![env_free_list[1]] = v]
  PROVE  StatusKept(e)
<1>1. e # env_free_list[1]
  BY FreeFirst
<1> QED BY <1>1 DEF StatusKept, SlotsInv, TypeOK

LEMMA OthersConfined ==
  ASSUME SlotsInv, SysNext, NEW e \in Slots, Live(e)
  PROVE  StatusKept(e)
<1>0. TypeOK /\ env_status \in [Slots -> Status]
  BY DEF SlotsInv, TypeOK
<1>1. CASE env_status' = env_status
  BY <1>1 DEF StatusKept
<1>2. ASSUME NEW pri \in Pris, env_create(pri) PROVE StatusKept(e)
  <2>1. env_free_list # <<>> /\ env_status' = [env_status EXCEPT ![env_free_list[1]] = "RUNNABLE"]
    BY <1>2 DEF env_create, env_alloc
  <2> QED BY <2>1, FreeFirstOnly
<1>3. CASE sys_exofork
  <2>1. env_free_list # <<>>
    BY <1>3 DEF sys_exofork
  <2>2. \/ env_status' = env_status
        \/ env_status' = [env_status EXCEPT ![env_free_list[1]] = "NOT_RUNNABLE"]
    BY <1>3 DEF sys_exofork
  <2> QED BY <2>1, <2>2, <1>1, FreeFirstOnly
<1>4. CASE sys_ipc_recv
  <2>1. env_status' = [env_status EXCEPT ![curenv] = "NOT_RUNNABLE"]
    BY <1>4 DEF sys_ipc_recv
  <2> QED BY <1>0, <2>1 DEF StatusKept
<1>5. ASSUME NEW envid \in EnvIds, sys_env_destroy(envid) PROVE StatusKept(e)
  <2>1. PICK d \in envid2env(envid, TRUE) : env_status' = [env_status EXCEPT ![d] = "FREE"]
    BY <1>5 DEF sys_env_destroy
  <2>2. d \in Slots /\ (d = curenv \/ env_parent_id[d] = env_id[curenv])
    BY <1>0, <1>5, <2>1, PermittedOnly DEF sys_env_destroy
  <2> QED BY <1>0, <2>1, <2>2 DEF StatusKept
<1>6. ASSUME NEW envid \in EnvIds, sys_ipc_try_send(envid) PROVE StatusKept(e)
  <2>1. PICK d \in envid2env(envid, FALSE) :
          env_ipc_recving[d] /\ env_status' = [env_status EXCEPT ![d] = "RUNNABLE"]
    BY <1>6 DEF sys_ipc_try_send
  <2>2. d \in Slots
    BY <1>0, <1>6, <2>1, envid2envType DEF sys_ipc_try_send
  <2> QED BY <1>0, <2>1, <2>2 DEF StatusKept
<1>7. ASSUME NEW envid \in EnvIds, NEW status, sys_set_env_status(envid, status)
      PROVE  StatusKept(e)
  <2>1. PICK d \in envid2env(envid, TRUE) : env_status' = [env_status EXCEPT ![d] = status]
    BY <1>7 DEF sys_set_env_status
  <2>2. d \in Slots /\ (d = curenv \/ env_parent_id[d] = env_id[curenv])
    BY <1>0, <1>7, <2>1, PermittedOnly DEF sys_set_env_status
  <2> QED BY <1>0, <2>1, <2>2 DEF StatusKept
<1>8. Boot \/ TimerInterrupt \/ sys_yield \/ Halted => env_status' = env_status
  BY DEF Boot, TimerInterrupt, sys_yield, Halted, vars, envVars
<1> QED BY <1>1, <1>2, <1>3, <1>4, <1>5, <1>6, <1>7, <1>8 DEF SysNext

(* set_env_status and env_destroy reach the caller and its children, and   *)
(* try_send only who waits: whatever programs run. *)
THEOREM Confined == SysSpec => Confinement
<1> DEFINE P(e) == Live(e) /\ env_status'[e] # env_status[e] =>
                     \/ e = curenv \/ env_parent_id[e] = env_id[curenv]
                     \/ env_ipc_recving[e] /\ env_status'[e] = "RUNNABLE"
<1>1. ASSUME SlotsInv, SysNext PROVE \A e \in Slots : P(e)
  BY <1>1, OthersConfined DEF StatusKept
<1>2. SlotsInv /\ [SysNext]_vars => [\A e \in Slots : P(e)]_vars
  BY <1>1
<1>3. Confinement <=> [][\A e \in Slots : P(e)]_vars
  BY DEF Confinement
<1> HIDE DEF P
<1> QED BY <1>2, <1>3, SlotsInit, SlotsStep, PTL DEF SysSpec

(* The ids of live envs: the generation above, the slot below; none is the *)
(* 0 that names the caller. *)
IdsOwn == \A e \in Slots : Live(e) => ENVX(env_id[e]) = e /\ env_id[e] # NoEnvId

(* A new id is 0 only if the generations have run out (mkenvid's shift     *)
(* drops the high bits).                                                   *)
LEMMA NewIdOwn ==
  ASSUME MaxForks < Gens, NEW g \in 0..MaxForks - 1, NEW e \in Slots
  PROVE  ENVX(mkenvid(g + 1, e)) = e /\ mkenvid(g + 1, e) # NoEnvId
<1>1. (g + 1) % Gens = g + 1 /\ g + 1 # 0
  <2>1. g \in Int /\ Gens \in Int /\ 0 <= g /\ g + 1 < Gens
    BY EnvAssumption
  <2> QED BY <2>1
<1> QED BY <1>1 DEF mkenvid, NoEnvId, ENVX

LEMMA IdsOwnStep ==
  ASSUME MaxForks < Gens, SlotsInv, IdsOwn, [SysNext]_vars
  PROVE  IdsOwn'
<1>0. TypeOK /\ env_status \in [Slots -> Status] /\ env_id \in [Slots -> EnvIds]
  BY DEF SlotsInv, TypeOK
<1>a. ASSUME env_id' = env_id, NEW d \in Slots, Live(d), NEW v,
             env_status' = [env_status EXCEPT ![d] = v]
      PROVE  IdsOwn'
  BY <1>0, <1>a DEF IdsOwn, Live
<1>b. ASSUME env_free_list # <<>>, gen < MaxForks, Number(env_free_list[1]),
             \/ env_status' = env_status
             \/ \E v \in Status : env_status' = [env_status EXCEPT ![env_free_list[1]] = v]
      PROVE  IdsOwn'
  <2> DEFINE f == env_free_list[1]
  <2>1. f \in Slots /\ ~Live(f)
    BY <1>b, FreeFirst
  <2>2. env_id' = [env_id EXCEPT ![f] = mkenvid(gen + 1, f)]
    BY <1>b DEF Number
  <2>3. gen \in 0..MaxForks - 1
    BY <1>0, <1>b, EnvAssumption DEF TypeOK
  <2>4. ENVX(mkenvid(gen + 1, f)) = f /\ mkenvid(gen + 1, f) # NoEnvId
    BY <2>1, <2>3, NewIdOwn
  <2> HIDE DEF f
  <2>5. ASSUME NEW e \in Slots, Live(e)' PROVE ENVX(env_id'[e]) = e /\ env_id'[e] # NoEnvId
    <3>1. CASE e = f
      BY <1>0, <2>2, <2>4, <3>1
    <3>2. CASE e # f
      <4>1. env_status'[e] = env_status[e]
        BY <1>0, <1>b, <3>2 DEF f
      <4>2. Live(e) /\ env_id'[e] = env_id[e]
        BY <1>0, <2>2, <2>5, <3>2, <4>1 DEF Live
      <4> QED BY <4>2 DEF IdsOwn
    <3> QED BY <3>1, <3>2
  <2> QED BY <2>5 DEF IdsOwn
<1>1. CASE env_status' = env_status /\ env_id' = env_id
  BY <1>1 DEF IdsOwn, Live
<1>2. ASSUME NEW pri \in Pris, env_create(pri) PROVE IdsOwn'
  BY <1>2, <1>b, EnvAssumption DEF env_create, env_alloc, Status, SlotsInv, TypeOK
<1>3. CASE sys_exofork
  BY <1>3, <1>b DEF sys_exofork, env_alloc, Status
<1>4. CASE sys_ipc_recv
  <2>1. /\ env_status' = [env_status EXCEPT ![curenv] = "NOT_RUNNABLE"] /\ env_id' = env_id
        /\ Running
    BY <1>4 DEF sys_ipc_recv
  <2>2. curenv \in Slots /\ Live(curenv)
    BY <1>0, <2>1 DEF SlotsInv, CurRunnable, Live, Running, TypeOK
  <2> QED BY <2>1, <2>2, <1>a
<1>5. ASSUME NEW envid \in EnvIds, NEW b, NEW d \in envid2env(envid, b), Running, NEW v,
             env_status' = [env_status EXCEPT ![d] = v], env_id' = env_id
      PROVE  IdsOwn'
  <2>1. d \in Slots /\ (d = curenv \/ Live(d))
    BY <1>0, <1>5, envid2envType
  <2>2. Live(curenv)
    BY <1>5 DEF SlotsInv, CurRunnable, Live
  <2> QED BY <2>1, <2>2, <1>5, <1>a
<1>6. ASSUME NEW envid \in EnvIds, sys_env_destroy(envid) PROVE IdsOwn'
  BY <1>5, <1>6 DEF sys_env_destroy
<1>7. ASSUME NEW envid \in EnvIds, sys_ipc_try_send(envid) PROVE IdsOwn'
  BY <1>5, <1>7 DEF sys_ipc_try_send
<1>8. ASSUME NEW envid \in EnvIds, NEW status, sys_set_env_status(envid, status)
      PROVE  IdsOwn'
  BY <1>5, <1>8 DEF sys_set_env_status
<1>9. Boot \/ TimerInterrupt \/ sys_yield \/ Halted \/ UNCHANGED vars =>
        env_status' = env_status /\ env_id' = env_id
  BY DEF Boot, TimerInterrupt, sys_yield, Halted, vars, envVars
<1> QED BY <1>1, <1>2, <1>3, <1>4, <1>6, <1>7, <1>8, <1>9 DEF SysNext

(* envid2env finds a live env by its id, and no other, as long as the      *)
(* generations of env ids last. *)
THEOREM IdsAreNames == ASSUME MaxForks < Gens PROVE SysSpec => []IdNamesItsEnv
<1>1. Init => IdsOwn
  BY DEF Init, IdsOwn, Live
<1>2. SlotsInv /\ IdsOwn /\ [SysNext]_vars => IdsOwn'
  BY IdsOwnStep
<1>3. IdsOwn => IdNamesItsEnv
  BY DEF IdsOwn, IdNamesItsEnv, envid2env
<1> QED BY <1>1, <1>2, <1>3, SlotsInit, SlotsStep, PTL DEF SysSpec
=============================================================================
