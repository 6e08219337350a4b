------------------------------- MODULE MosEnv -------------------------------
(***************************************************************************)
(* Environments, the round-robin scheduler and IPC of the MOS kernel:      *)
(* kern/env.c, kern/sched.c and the syscalls of kern/syscall_all.c that    *)
(* create, start, stop and destroy environments or pass messages.          *)
(*                                                                         *)
(* The kernel runs with interrupts off on one CPU, so a system call or a   *)
(* clock tick is one action, up to and including the schedule() it ends    *)
(* in.  Between two actions the current env executes user code, which the  *)
(* kernel can neither see nor trust: SysNext lets it make any call, LibNext *)
(* only the calls of user/lib.                                             *)
(*                                                                         *)
(* Address spaces are left out (a page directory that cannot be allocated  *)
(* goes unnoticed in env_alloc, and the page an IPC carries is mapped      *)
(* after the state below is set).  A message is its sender: env_ipc_from   *)
(* stands for env_ipc_from, env_ipc_value and env_ipc_perm, always written *)
(* together.  env_ran is env_runs # 0.                                     *)
(***************************************************************************)
EXTENDS Integers, Sequences, FiniteSets

CONSTANTS NENV,     \* env slots: 1024 in env.h
          NASID,    \* address space ids: 256 in mmu.h
          Gens,     \* generations an env id can hold: 2^(32-1-LOG2NENV)
          NInit,    \* envs mips_init creates
          Pris,     \* priorities in use
          MaxForks, \* bound: envs created in a behaviour
          TqHead, Nil \* tqh_first of env_sched_list, and NULL

ASSUME EnvAssumption ==
  /\ NENV \in Nat \ {0} /\ NASID \in Nat \ {0}
  /\ Gens \in Nat \ {0} /\ MaxForks \in Nat
  /\ NInit \in 1..NENV /\ NInit <= NASID /\ NInit < Gens /\ NInit <= MaxForks
  /\ Pris \subseteq Nat \ {0} /\ Pris # {}

Slots == 0..NENV - 1
ASIDs == 0..NASID - 1

ASSUME NullAssumption == TqHead \notin Slots /\ Nil \notin Slots \cup {TqHead}

TQ == INSTANCE Tailq WITH Elems <- Slots

VARIABLES
  env_status, env_id, env_parent_id, env_pri, env_asid, env_ran,
  env_ipc_recving, env_ipc_from,
  env_free_list,  \* slots, first to last
  env_sched_list, \* a queue of module Tailq
  asid_bitmap,    \* the asids taken
  gen,            \* mkenvid's static counter
  curenv,         \* a slot, or Nil
  count,          \* schedule's static counter
  panicked

envVars   == <<env_status, env_id, env_parent_id, env_pri, env_asid, env_ran>>
ipcVars   == <<env_ipc_recving, env_ipc_from>>
allocVars == <<env_free_list, asid_bitmap, gen>>
cpuVars   == <<env_sched_list, curenv, count, panicked>>
vars      == <<envVars, ipcVars, allocVars, cpuVars>>

Status == {"FREE", "RUNNABLE", "NOT_RUNNABLE"}

(* An env id: the generation in the high bits, the slot in the low ones.   *)
EnvIds == (0..Gens - 1) \X Slots
NoEnvId == <<0, 0>>
ENVX(envid) == envid[2]
mkenvid_SlotOnly(g, e) == <<0, e>> \* faulty: the generation is not shifted in
mkenvid(g, e) == <<g % Gens, e>>

Live(e) == env_status[e] # "FREE"

(* envid2env: the envs the id denotes for the current env (none: -E_BAD_ENV). *)
envid2env_AnyCaller(envid, checkperm) == \* faulty: checkperm is not looked at
  IF envid = NoEnvId THEN {curenv}
  ELSE {e \in {ENVX(envid)} : Live(e) /\ env_id[e] = envid}

envid2env(envid, checkperm) ==
  IF envid = NoEnvId THEN {curenv}
  ELSE {e \in {ENVX(envid)} :
          /\ Live(e) /\ env_id[e] = envid
          /\ checkperm => e = curenv \/ env_parent_id[e] = env_id[curenv]}

----------------------------------------------------------------------------
(* env_init, on zeroed envs. *)
Init ==
  /\ env_status = [e \in Slots |-> "FREE"]
  /\ env_id = [e \in Slots |-> NoEnvId]
  /\ env_parent_id = [e \in Slots |-> NoEnvId]
  /\ env_pri = [e \in Slots |-> 0]
  /\ env_asid = [e \in Slots |-> 0]
  /\ env_ran = [e \in Slots |-> FALSE]
  /\ env_ipc_recving = [e \in Slots |-> FALSE]
  /\ env_ipc_from = [e \in Slots |-> NoEnvId]
  /\ env_free_list = [i \in 1..NENV |-> i - 1]
  /\ env_sched_list = TQ!EmptyQueue
  /\ asid_bitmap = {}
  /\ gen = 0
  /\ curenv = Nil
  /\ count = 0
  /\ panicked = FALSE

----------------------------------------------------------------------------
(* The small updates the operations share, each with its faulty variants.  *)
FreeASID == CHOOSE a \in ASIDs \ asid_bitmap : \A b \in ASIDs \ asid_bitmap : a <= b

asid_free_Never(e) == asid_bitmap                          \* faulty
asid_free(e) == asid_bitmap \ {env_asid[e]}

ReturnSlot_Lost(e) == env_free_list \* faulty: not put back
ReturnSlot(e) == <<e>> \o env_free_list

Receiving_Unmarked(e, b) == env_ipc_recving                         \* faulty
Receiving_Sticky(e, b) == [env_ipc_recving EXCEPT ![e] = @ \/ b]    \* faulty
Receiving(e, b) == [env_ipc_recving EXCEPT ![e] = b]

(* schedule(yield), entered with the queue q, the statuses st and curenv   *)
(* already as cur; sets what schedule and env_run set.  It panics when the *)
(* queue is empty, and env_run asserts that what it runs is RUNNABLE.      *)
Schedule(yield, q, st, cur) ==
  LET runnable == cur # Nil /\ st[cur] = "RUNNABLE"
      keep     == ~yield /\ count # 1 /\ runnable
      q1       == IF runnable THEN TQ!Requeue(q, cur) ELSE q
      e        == IF keep THEN cur ELSE TQ!First(q1)
  IN /\ env_sched_list' = IF keep THEN q ELSE q1
     /\ \/ /\ e = Nil
           /\ panicked' = TRUE /\ curenv' = cur /\ count' = count - 1
           /\ UNCHANGED env_ran
        \/ /\ e # Nil
           /\ count' = IF keep THEN count - 1 ELSE env_pri[e]
           /\ IF st[e] = "RUNNABLE"
              THEN /\ curenv' = e /\ env_ran' = [env_ran EXCEPT ![e] = TRUE]
                   /\ UNCHANGED panicked
              ELSE panicked' = TRUE /\ curenv' = cur /\ UNCHANGED env_ran

(* The call returns to the current env. *)
Return(q) ==
  /\ env_sched_list' = q
  /\ UNCHANGED <<curenv, count, panicked, env_ran>>

(* A write through a NULL link: the TLB refill of address 0 panics.        *)
KernelFault ==
  /\ panicked' = TRUE
  /\ UNCHANGED <<env_sched_list, curenv, count, env_ran>>

Running == ~panicked /\ curenv # Nil

(* env_alloc takes the first free env; it numbers it before it asks for an *)
(* asid, and leaves it on the free list when there is none. *)
Number(e) ==
  /\ gen' = gen + 1
  /\ env_id' = [env_id EXCEPT ![e] = mkenvid(gen + 1, e)]
  /\ env_ran' = [env_ran EXCEPT ![e] = FALSE]

env_alloc(e, parent_id) ==
  /\ env_free_list # <<>>
  /\ ~(ASIDs \subseteq asid_bitmap)
  /\ Number(e)
  /\ env_asid' = [env_asid EXCEPT ![e] = FreeASID]
  /\ asid_bitmap' = asid_bitmap \cup {FreeASID}
  /\ env_parent_id' = [env_parent_id EXCEPT ![e] = parent_id]
  /\ env_free_list' = Tail(env_free_list)

(* mips_init creates NInit envs, then calls schedule(0). *)
env_create(pri) ==
  /\ ~panicked /\ curenv = Nil /\ gen < NInit
  /\ LET e == env_free_list[1]
     IN /\ env_alloc(e, NoEnvId)
        /\ env_pri' = [env_pri EXCEPT ![e] = pri]
        /\ env_status' = [env_status EXCEPT ![e] = "RUNNABLE"]
        /\ env_sched_list' = TQ!InsertHead(env_sched_list, e)
  /\ UNCHANGED <<ipcVars, curenv, count, panicked>>

Boot ==
  /\ ~panicked /\ curenv = Nil /\ gen = NInit
  /\ Schedule(FALSE, env_sched_list, env_status, Nil)
  /\ UNCHANGED <<env_status, env_id, env_parent_id, env_pri, env_asid, ipcVars, allocVars>>

TimerInterrupt ==
  /\ Running
  /\ Schedule(FALSE, env_sched_list, env_status, curenv)
  /\ UNCHANGED <<env_status, env_id, env_parent_id, env_pri, env_asid, ipcVars, allocVars>>

sys_yield ==
  /\ Running
  /\ Schedule(TRUE, env_sched_list, env_status, curenv)
  /\ UNCHANGED <<env_status, env_id, env_parent_id, env_pri, env_asid, ipcVars, allocVars>>

sys_exofork ==
  /\ Running
  /\ env_free_list # <<>>
  /\ gen < MaxForks
  /\ LET e == env_free_list[1]
     IN \/ /\ ASIDs \subseteq asid_bitmap
           /\ Number(e)
           /\ UNCHANGED <<env_status, env_parent_id, env_pri, env_asid,
                          asid_bitmap, env_free_list>>
        \/ /\ env_alloc(e, env_id[curenv])
           /\ env_status' = [env_status EXCEPT ![e] = "NOT_RUNNABLE"]
           /\ env_pri' = [env_pri EXCEPT ![e] = env_pri[curenv]]
  /\ UNCHANGED <<ipcVars, env_sched_list, curenv, count, panicked>>

sys_set_env_status(envid, status) ==
  /\ Running
  /\ \E e \in envid2env(envid, TRUE) :
       LET st == [env_status EXCEPT ![e] = status]
           q  == IF status = "RUNNABLE" /\ env_status[e] # "RUNNABLE"
                 THEN TQ!InsertTail(env_sched_list, e)
                 ELSE IF status = "NOT_RUNNABLE" /\ env_status[e] # "NOT_RUNNABLE"
                 THEN TQ!Remove(env_sched_list, e)
                 ELSE env_sched_list
       IN /\ env_status' = st
          /\ IF e = curenv THEN Schedule(TRUE, q, st, curenv) ELSE Return(q)
  /\ UNCHANGED <<env_id, env_parent_id, env_pri, env_asid, ipcVars, allocVars>>

(* env_destroy: env_free takes e off env_sched_list whatever its status;   *)
(* its IPC fields stay as they are. *)
sys_env_destroy(envid) ==
  /\ Running
  /\ \E e \in envid2env(envid, TRUE) :
       LET st == [env_status EXCEPT ![e] = "FREE"]
           q  == TQ!Remove(env_sched_list, e)
       IN /\ env_status' = st
          /\ asid_bitmap' = asid_free(e)
          /\ env_free_list' = ReturnSlot(e)
          /\ IF TQ!RemoveFaults(env_sched_list, e) THEN KernelFault
             ELSE IF e = curenv THEN Schedule(TRUE, q, st, Nil) ELSE Return(q)
  /\ UNCHANGED <<env_id, env_parent_id, env_pri, env_asid, ipcVars, gen>>

sys_ipc_recv ==
  /\ Running
  /\ LET st == [env_status EXCEPT ![curenv] = "NOT_RUNNABLE"]
     IN /\ env_status' = st
        /\ env_ipc_recving' = Receiving(curenv, TRUE)
        /\ Schedule(TRUE, TQ!Remove(env_sched_list, curenv), st, curenv)
  /\ UNCHANGED <<env_id, env_parent_id, env_pri, env_asid, env_ipc_from, allocVars>>

sys_ipc_try_send(envid) ==
  /\ Running
  /\ \E e \in envid2env(envid, FALSE) :
       /\ env_ipc_recving[e]
       /\ env_ipc_from' = [env_ipc_from EXCEPT ![e] = env_id[curenv]]
       /\ env_ipc_recving' = Receiving(e, FALSE)
       /\ env_status' = [env_status EXCEPT ![e] = "RUNNABLE"]
       /\ Return(TQ!InsertTail(env_sched_list, e))
  /\ UNCHANGED <<env_id, env_parent_id, env_pri, env_asid, allocVars>>

(* panic() halts. *)
Halted == panicked /\ UNCHANGED vars

----------------------------------------------------------------------------
(* Any user program: every call with every id.                             *)
SysNext ==
  \/ Boot \/ (\E pri \in Pris : env_create(pri)) \/ TimerInterrupt
  \/ sys_yield \/ sys_exofork \/ sys_ipc_recv \/ Halted
  \/ \E envid \in EnvIds :
       \/ sys_env_destroy(envid)
       \/ sys_ipc_try_send(envid)
       \/ \E status \in {"RUNNABLE", "NOT_RUNNABLE"} : sys_set_env_status(envid, status)

(* The calls of user/lib.  fork and spawn start a child that has not run   *)
(* yet; exit destroys the caller. *)
Embryo(e) == env_status[e] = "NOT_RUNNABLE" /\ ~env_ran[e]

StartChild(e) == Embryo(e) /\ sys_set_env_status(env_id[e], "RUNNABLE")

Exit == sys_env_destroy(NoEnvId)

Send(e) == sys_ipc_try_send(env_id[e])

LibNext ==
  \/ Boot \/ (\E pri \in Pris : env_create(pri)) \/ TimerInterrupt
  \/ sys_yield \/ sys_exofork \/ sys_ipc_recv \/ Halted
  \/ Exit
  \/ \E e \in Slots : StartChild(e) \/ Send(e)

(* The error path of spawn: destroy the child instead of starting it.      *)
SpawnError(e) ==
  Running /\ Embryo(e) /\ env_parent_id[e] = env_id[curenv] /\ sys_env_destroy(env_id[e])

LibSpec == Init /\ [][LibNext]_vars

(* mips_init goes through, then the clock keeps ticking.  Nothing is assumed *)
(* of the envs: each may spin for ever. *)
FairLibSpec ==
  LibSpec /\ WF_vars(\E pri \in Pris : env_create(pri)) /\ WF_vars(Boot) /\ WF_vars(TimerInterrupt)

SysSpec == Init /\ [][SysNext]_vars

SpawnErrorSpec == Init /\ [][LibNext \/ \E e \in Slots : SpawnError(e)]_vars

----------------------------------------------------------------------------
TypeOK ==
  /\ env_status \in [Slots -> Status]
  /\ env_id \in [Slots -> EnvIds]
  /\ env_parent_id \in [Slots -> EnvIds]
  /\ env_pri \in [Slots -> Pris \cup {0}]
  /\ env_asid \in [Slots -> ASIDs]
  /\ env_ran \in [Slots -> BOOLEAN]
  /\ env_ipc_recving \in [Slots -> BOOLEAN]
  /\ env_ipc_from \in [Slots -> EnvIds]
  /\ env_free_list \in Seq(Slots)
  /\ env_sched_list \in TQ!Queue
  /\ asid_bitmap \subseteq ASIDs
  /\ gen \in 0..MaxForks
  /\ curenv \in Slots \cup {Nil}
  /\ count \in Int
  /\ panicked \in BOOLEAN

Runnable == {e \in Slots : env_status[e] = "RUNNABLE"}

(* env.c:14: an env is in env_sched_list iff its status is RUNNABLE; the   *)
(* links form one chain from tqh_first to tqh_last, with no env twice.     *)
SchedListIffRunnable ==
  \E n \in 0..NENV : \E s \in [1..n -> Runnable] :
    /\ Runnable = {s[i] : i \in 1..n}
    /\ TQ!Represents(env_sched_list, n, s)

(* The env that executes is the first of env_sched_list: that is why       *)
(* rotating it to the tail when its slices are used up is round-robin, and *)
(* why nothing a wakeup or a start inserts can overtake the queue.         *)
CurenvIsFirst ==
  Running => TQ!First(env_sched_list) = curenv /\ env_status[curenv] = "RUNNABLE"

(* env_free_list holds every FREE slot once, and no other.                 *)
FreeListIffFree ==
  /\ \A i, j \in 1..Len(env_free_list) : env_free_list[i] = env_free_list[j] => i = j
  /\ {env_free_list[i] : i \in 1..Len(env_free_list)} = {e \in Slots : ~Live(e)}

(* No two live envs share an asid (their TLB entries would mix), and an    *)
(* asid is taken exactly while a live env has it. *)
AsidsExact ==
  /\ \A d, e \in Slots : Live(d) /\ Live(e) /\ env_asid[d] = env_asid[e] => d = e
  /\ asid_bitmap = {env_asid[e] : e \in {d \in Slots : Live(d)}}

(* mkenvid: the id of a live env is its own, envid2env finds the env by it *)
(* whoever asks.                                                           *)
IdNamesItsEnv ==
  \A e \in Slots : Live(e) => envid2env(env_id[e], FALSE) = {e}

(* An env that has run and is not RUNNABLE is waiting for a message: no    *)
(* env of the library sleeps where ipc_try_send cannot wake it.            *)
NoLostSleeper ==
  \A e \in Slots : env_status[e] = "NOT_RUNNABLE" /\ env_ran[e] => env_ipc_recving[e]

(* The kernel panics only because nothing is left to run (sched.c:45).     *)
PanicOnlyWhenIdle == panicked => Runnable = {}

(* From the wakeup on, the message a receiver reads in env_ipc_from and    *)
(* env_ipc_value stays until it asks for the next one.                     *)
MessageNotOverwritten ==
  [][\A e \in Slots : env_status[e] = "RUNNABLE" => env_ipc_from'[e] = env_ipc_from[e]]_vars

(* Whatever a user program calls, an env stops or dies only by its own     *)
(* hand or its parent's, and starts only by those or by a message it       *)
(* waited for. *)
Confinement ==
  [][\A e \in Slots : Live(e) /\ env_status'[e] # env_status[e] =>
        \/ e = curenv \/ env_parent_id[e] = env_id[curenv]
        \/ env_ipc_recving[e] /\ env_status'[e] = "RUNNABLE"]_vars

(* Round-robin: a runnable env gets the CPU, however many calls, forks     *)
(* and wakeups the others make, unless it is stopped. *)
EveryRunnableRuns ==
  \A e \in Slots : env_status[e] = "RUNNABLE" ~> curenv = e \/ env_status[e] # "RUNNABLE"

(* A queue as a sequence, by walking the links from tqh_first.             *)
QueueOrder(q) ==
  LET at[i \in 0..NENV] == IF i = 0 THEN TqHead
                           ELSE IF at[i - 1] = Nil THEN Nil
                           ELSE q.next[at[i - 1]]
  IN [i \in 1..Cardinality({j \in 1..NENV : at[j] # Nil}) |-> at[i]]

RunOrder == QueueOrder(env_sched_list)

(* With it, the library's calls are steps of the abstract run queue.       *)
RQ == INSTANCE RunQueue WITH
        Envs <- Slots, None <- Nil, ready <- RunOrder,
        running <- IF panicked THEN Nil ELSE curenv

ImplementsRunQueue == RQ!Spec
============================================================================
