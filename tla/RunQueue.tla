------------------------------ MODULE RunQueue ------------------------------
(***************************************************************************)
(* What kern/sched.c and its callers promise: runnable envs wait in one    *)
(* FIFO, the first one has the CPU, and no env leaves the line, enters it  *)
(* or overtakes another except by one of the steps below.                  *)
(***************************************************************************)
EXTENDS Sequences

CONSTANTS Envs, None

VARIABLES ready, running

Waiting == {ready[i] : i \in DOMAIN ready}

(* schedule's choice: the first in line, or nobody (it panics).            *)
Dispatch == running' = IF ready' = <<>> THEN None ELSE ready'[1]

Init == ready = <<>> /\ running = None

(* mips_init creates envs at the front, then gives the CPU to the first.   *)
Create == /\ running = None
          /\ \E e \in Envs \ Waiting : ready' = <<e>> \o ready
          /\ UNCHANGED running

Boot == running = None /\ ready # <<>> /\ UNCHANGED ready /\ Dispatch

(* The slices are used up, or the env yields. *)
Rotate == running # None /\ ready' = Append(Tail(ready), running) /\ Dispatch

(* The env blocks or exits. *)
Leave == running # None /\ ready' = Tail(ready) /\ Dispatch

(* The running env starts a child or wakes a receiver. *)
Enter == /\ running # None
         /\ \E e \in Envs \ Waiting : ready' = Append(ready, e)
         /\ UNCHANGED running

Next == Create \/ Boot \/ Rotate \/ Leave \/ Enter

Spec == Init /\ [][Next]_<<ready, running>>
=============================================================================
