------------------------------ MODULE Channel ------------------------------
(***************************************************************************)
(* What user/lib/pipe.c promises of the bytes: those that were written are *)
(* read once each, in order, and at most Capacity of them wait.  Bytes are *)
(* numbered in the order they are written.                                 *)
(***************************************************************************)
EXTENDS Naturals, Sequences

CONSTANT Capacity

VARIABLES given,    \* number of bytes written
          waiting,  \* the bytes in the pipe
          taken     \* the bytes read

Init == given = 0 /\ waiting = <<>> /\ taken = <<>>

Give ==
  /\ Len(waiting) < Capacity
  /\ given' = given + 1
  /\ waiting' = Append(waiting, given')
  /\ UNCHANGED taken

Take ==
  /\ waiting # <<>>
  /\ taken' = Append(taken, Head(waiting))
  /\ waiting' = Tail(waiting)
  /\ UNCHANGED given

Next == Give \/ Take

Spec == Init /\ [][Next]_<<given, waiting, taken>>
============================================================================
