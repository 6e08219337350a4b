------------------------------ MODULE Memories ------------------------------
(***************************************************************************)
(* What user/lib/fork.c promises: each env has a memory of its own.  A     *)
(* store changes the memory of the env that makes it, and of the others    *)
(* where the page is shared; a child starts with what its parent has.      *)
(***************************************************************************)
EXTENDS Naturals

CONSTANTS Envs, Root,
          Addr, Shared, \* addresses, and those of shared pages
          Stack,        \* the address of the stack
          Words, Dead,  \* the parts of a page; the part below the frame of fork's caller
          Values, Blank

VARIABLES alive, own

Init ==
  /\ alive = {Root}
  /\ own = [e \in Envs |-> [v \in Addr |-> [w \in Words |-> Blank]]]

Store(e, v, w) ==
  /\ e \in alive
  /\ \E x \in Values :
       own' = [f \in Envs |-> [u \in Addr |->
                 IF u = v /\ (f = e \/ (v \in Shared /\ f \in alive))
                 THEN [own[f][u] EXCEPT ![w] = x]
                 ELSE own[f][u]]]
  /\ UNCHANGED alive

(* Nothing that fork's caller can see differs. *)
Fork(e, c) ==
  /\ e \in alive /\ c \notin alive
  /\ alive' = alive \cup {c}
  /\ \E x \in Values :
       own' = [own EXCEPT ![c] = [v \in Addr |->
                 IF v = Stack THEN [own[e][v] EXCEPT ![Dead] = x] ELSE own[e][v]]]

Next ==
  \E e \in Envs :
    \/ \E v \in Addr, w \in Words : Store(e, v, w)
    \/ \E c \in Envs : Fork(e, c)

Spec == Init /\ [][Next]_<<alive, own>>
=============================================================================
