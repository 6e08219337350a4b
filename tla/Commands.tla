------------------------------ MODULE Commands ------------------------------
(***************************************************************************)
(* user/sh.c: how the shell runs a command line, with exit, wait, ipc_send *)
(* and ipc_recv of user/lib and the file server's side of fsipc.           *)
(*                                                                         *)
(* An env has one mailbox.  It carries the answers of the file server and  *)
(* the exit statuses of all children, and it takes a message only while    *)
(* its owner sleeps in ipc_recv.  A step is one system call; what runs     *)
(* between two calls is part of the step that ends in the call.            *)
(***************************************************************************)
EXTENDS Integers, Sequences, FiniteSets, FiniteSetsExt

CONSTANTS
  NProc,    \* envs besides the file server
  Lines,    \* the command lines: sequences of commands and operators
  Builtin,  \* the exit status of each built-in command
  Programs, \* commands that are spawned, and read their input to its end
  Prompt    \* TRUE: a child is slower than the calls its parent makes before it
            \* receives from the child or waits for it

Shell == 1
Procs == 1..NProc
FS == 0            \* envs[1] of the code
Commands == DOMAIN Builtin \cup Programs
Nobody == -1
Console == -1
File == 0

ASSUME CommandsAssumption ==
  /\ NProc \in Nat \ {0}
  /\ Commands \cap {"&&", "||", ";", "|", ">"} = {}
  /\ Lines \subseteq Seq(Commands \cup {"&&", "||", ";", "|", ">"})
  /\ Builtin \in [DOMAIN Builtin -> Int]
  /\ Prompt \in BOOLEAN

VARIABLES
  line,      \* the command line
  pc,        \* where each env is; "none" before it is created, "gone" after
  mem,       \* what each env has in memory; fork copies it:
             \*   todo       the tokens it has not parsed
             \*   argv       the words, "" for the NULL that ; leaves
             \*   argc       what the innermost parsecmd counts
             \*   excu       the shell's global excu
             \*   child      the env it waits for in && and ||, or has spawned
             \*   leftenv, rightpipe
             \*   inp        its standard input: Console, or the env whose pipe it is
             \*   out        its standard output: Console, File, or that of a pipe
             \*   then       where it goes on after an fsipc
             \*   status     the argument of exit
  parent,    \* env_parent_id
  recving,   \* env_ipc_recving
  mail,      \* env_ipc_from and env_ipc_value
  serving,   \* the env whose request the file server handles, or Nobody
  panicked,  \* the file server's user_assert has failed, and it has exited
  ran        \* history: the commands that were executed, in order

vars == <<line, pc, mem, parent, recving, mail, serving, panicked, ran>>
ipc == <<recving, mail, serving, panicked>>

Init ==
  /\ line \in Lines
  /\ pc = [p \in Procs |-> IF p = Shell THEN "prompt" ELSE "none"]
  /\ mem = [p \in Procs |->
       [todo |-> <<>>, argv |-> <<>>, argc |-> 0, excu |-> TRUE, child |-> Nobody,
        leftenv |-> Nobody, rightpipe |-> Nobody, inp |-> Console, out |-> Console, then |-> "", status |-> 0]]
  /\ parent = [p \in Procs |-> FS]
  /\ recving = [p \in Procs |-> FALSE]
  /\ mail = [p \in Procs |-> [from |-> Nobody, value |-> 0]]
  /\ serving = Nobody /\ panicked = FALSE
  /\ ran = <<>>

Gone(p) == p # Nobody => pc[p] = "gone"
Goto(p, l) == pc' = [pc EXCEPT ![p] = l]
Set(p, m) == mem' = [mem EXCEPT ![p] = m]

-----------------------------------------------------------------------------
(* System calls.                                                            *)

Spare == \E p \in Procs : pc[p] = "none"
New == Min({p \in Procs : pc[p] = "none"})

(* fork: p goes on at l with memory m, the child c at lc with mc. *)
fork(p, l, m, c, lc, mc) ==
  /\ pc' = [pc EXCEPT ![p] = l, ![c] = lc]
  /\ mem' = [mem EXCEPT ![p] = m, ![c] = mc]
  /\ parent' = [parent EXCEPT ![c] = p]
  /\ UNCHANGED <<line, ipc>>

sys_ipc_recv(p, l) == recving' = [recving EXCEPT ![p] = TRUE] /\ Goto(p, l)

(* sys_ipc_try_send to an env that is in ipc_recv. *)
Delivered(to, from, value) ==
  /\ recving' = [recving EXCEPT ![to] = FALSE]
  /\ mail' = [mail EXCEPT ![to] = [from |-> from, value |-> value]]

(* fsipc: send when the server is in ipc_recv, then sleep for the answer;   *)
(* one exchange stands for all that an open or a close needs.               *)
Ask(p, m, l) == Goto(p, "send") /\ Set(p, [m EXCEPT !.then = l])

fsipc_send(p) ==
  /\ pc[p] = "send" /\ serving = Nobody /\ ~panicked
  /\ serving' = p
  /\ Goto(p, "recv")
  /\ UNCHANGED <<line, mem, parent, recving, mail, panicked, ran>>

fsipc_recv(p) ==
  /\ pc[p] = "recv"
  /\ sys_ipc_recv(p, "reply")
  /\ UNCHANGED <<line, mem, parent, mail, serving, panicked, ran>>

fsipc_return(p) ==
  /\ pc[p] = "reply" /\ ~recving[p]
  /\ Goto(p, mem[p].then)
  /\ UNCHANGED <<line, mem, parent, ipc, ran>>

(* The server's ipc_send: again and again until the client receives; an     *)
(* env that is gone fails the assertion of ipc.c:17.  (The model stops at   *)
(* the server's exit: who calls it later is left in "send".) *)
serve_reply_twice ==   \* faulty: the answer may be sent again
  /\ serving # Nobody /\ recving[serving]
  /\ Delivered(serving, FS, 0)
  /\ UNCHANGED <<line, pc, mem, parent, serving, panicked, ran>>

serve_reply ==
  /\ serving # Nobody /\ ~panicked
  /\ IF Gone(serving) THEN panicked' = TRUE /\ UNCHANGED <<recving, mail, serving>>
     ELSE /\ recving[serving]
          /\ Delivered(serving, FS, 0)
          /\ serving' = Nobody
          /\ UNCHANGED panicked
  /\ UNCHANGED <<line, pc, mem, parent, ran>>

-----------------------------------------------------------------------------
(* parsecmd, from one system call to the next.                              *)

Is(p, t) == pc[p] = "parse" /\ mem[p].todo # <<>> /\ Head(mem[p].todo) = t
Rest(p) == [mem[p] EXCEPT !.todo = Tail(@)]

word(p) ==
  \E w \in Commands :
    /\ Is(p, w)
    /\ Set(p, [Rest(p) EXCEPT !.argv = Append(@, w), !.argc = @ + 1])
    /\ UNCHANGED <<line, pc, parent, ipc, ran>>

(* > opens a file and dups it onto descriptor 1. *)
redirect(p) ==
  /\ Is(p, ">")
  /\ Ask(p, [Rest(p) EXCEPT !.out = File], "parse")
  /\ UNCHANGED <<line, parent, ipc, ran>>

pipeline_open(p) ==   \* faulty: the right side keeps the end it should close
  /\ Is(p, "|") /\ Spare
  /\ fork(p, IF mem[p].out = File THEN "send" ELSE "leftover",
          [mem[p] EXCEPT !.todo = <<>>, !.rightpipe = New, !.out = New, !.then = "leftover"],
          New, "parse",
          [Rest(p) EXCEPT !.argv = <<>>, !.argc = 0, !.rightpipe = Nobody, !.inp = New, !.out = New])
  /\ UNCHANGED ran

(* The left side keeps its words and runs, with the pipe in the place of    *)
(* its standard output, which dup closes; the child parses the right side.  *)
pipeline(p) ==
  /\ Is(p, "|") /\ Spare
  /\ fork(p, IF mem[p].out = File THEN "send" ELSE "leftover",
          [mem[p] EXCEPT !.todo = <<>>, !.rightpipe = New, !.out = New, !.then = "leftover"],
          New, "parse",
          [Rest(p) EXCEPT !.argv = <<>>, !.argc = 0, !.rightpipe = Nobody, !.inp = New])
  /\ UNCHANGED ran

(* The child runs what is on the left; the parent parses on behind a NULL   *)
(* in the same array, and counts from there.  (A right side with more words *)
(* than the left side reads the NULL as a word and faults: Lines has none.) *)
semicolon(p) ==
  /\ Is(p, ";") /\ Spare
  /\ fork(p, "parse", [Rest(p) EXCEPT !.argv = Append(@, ""), !.argc = 0, !.leftenv = New],
          New, "leftover", [mem[p] EXCEPT !.leftenv = Nobody])
  /\ UNCHANGED ran

andor_always(p) ==   \* faulty: the child does not look at excu
  /\ Is(p, "&&") \/ Is(p, "||")
  /\ Spare
  /\ fork(p, "forked",
          [mem[p] EXCEPT !.argv = SubSeq(@, 1, Len(@) - mem[p].argc), !.argc = 0, !.child = New],
          New, "leftover", mem[p])
  /\ UNCHANGED ran

andor_async(p) ==   \* faulty: the parent does not wait for the status
  /\ Is(p, "&&") \/ Is(p, "||")
  /\ Spare
  /\ fork(p, "parse",
          [Rest(p) EXCEPT !.argv = SubSeq(@, 1, Len(@) - mem[p].argc), !.argc = 0, !.child = New],
          New, IF mem[p].excu THEN "leftover" ELSE "exit", [mem[p] EXCEPT !.status = 0])
  /\ UNCHANGED ran

(* && and ||: the child runs what is on the left, or exits with 0; the      *)
(* parent takes one message, waits for the child and reads the message.     *)
andor(p) ==
  /\ Is(p, "&&") \/ Is(p, "||")
  /\ Spare
  /\ fork(p, "forked",
          [mem[p] EXCEPT !.argv = SubSeq(@, 1, Len(@) - mem[p].argc), !.argc = 0, !.child = New],
          New, IF mem[p].excu THEN "leftover" ELSE "exit", [mem[p] EXCEPT !.status = 0])
  /\ UNCHANGED ran

andor_recv(p) ==
  /\ pc[p] = "forked"
  /\ sys_ipc_recv(p, "asleep")
  /\ UNCHANGED <<line, mem, parent, mail, serving, panicked, ran>>

andor_wait(p) ==
  /\ pc[p] = "asleep" /\ ~recving[p] /\ Gone(mem[p].child)
  /\ Goto(p, "parse")
  /\ Set(p, [Rest(p) EXCEPT !.excu = (mail[p].value = 0) = (Head(mem[p].todo) = "&&")])
  /\ UNCHANGED <<line, parent, ipc, ran>>

parsed(p) ==
  /\ pc[p] = "parse" /\ mem[p].todo = <<>>
  /\ Goto(p, "leftover")
  /\ UNCHANGED <<line, mem, parent, ipc, ran>>

-----------------------------------------------------------------------------
(* The rest of runcmd.  It runs argv[0], the first word of the whole array. *)

Command(p) == mem[p].argv[1]
Ready(p) == pc[p] = "leftover" /\ Gone(mem[p].leftenv)
Runs(p, S) == Ready(p) /\ mem[p].argc > 0 /\ mem[p].excu /\ Command(p) \in S
exit(p, status) == Goto(p, "exit") /\ Set(p, [mem[p] EXCEPT !.status = status])

(* No command, or excu is 0: runcmd returns, and main calls exit(-1). *)
runcmd_nothing(p) ==
  /\ Ready(p) /\ (mem[p].argc = 0 \/ ~mem[p].excu)
  /\ exit(p, -1)
  /\ UNCHANGED <<line, parent, ipc, ran>>

runcmd_builtin(p) ==
  /\ Runs(p, DOMAIN Builtin)
  /\ ran' = Append(ran, Command(p))
  /\ exit(p, Builtin[Command(p)])
  /\ UNCHANGED <<line, parent, ipc>>

(* spawn opens and reads the program's file before it creates the env. *)
runcmd_spawn(p) ==
  /\ Runs(p, Programs)
  /\ Ask(p, mem[p], "exofork")
  /\ UNCHANGED <<line, parent, ipc, ran>>

spawn(p) ==
  /\ pc[p] = "exofork" /\ Spare
  /\ fork(p, "spawned", [mem[p] EXCEPT !.child = New], New, "program", mem[p])
  /\ UNCHANGED ran

(* close_all: a request when standard output is a file. *)
close_all(p, l) ==
  LET m == [mem[p] EXCEPT !.inp = Console, !.out = Console]
  IN IF mem[p].out = File THEN Ask(p, m, l) ELSE Goto(p, l) /\ Set(p, m)

runcmd_close(p) ==
  /\ pc[p] = "spawned"
  /\ close_all(p, "wait")
  /\ UNCHANGED <<line, parent, ipc, ran>>

(* wait for the program, then for the right side of the pipe; its status is *)
(* not looked at: the env exits with exitcode, which nothing has set. *)
runcmd_wait(p) ==
  /\ pc[p] = "wait" /\ Gone(mem[p].child) /\ Gone(mem[p].rightpipe)
  /\ exit(p, 0)
  /\ UNCHANGED <<line, parent, ipc, ran>>

(* main of the program: it reads until no env has the other end of its      *)
(* input, and may exit with any status. *)
program(p) ==
  /\ pc[p] = "program"
  /\ mem[p].inp # Console => \A q \in Procs : mem[q].out # mem[p].inp
  /\ ran' = Append(ran, Command(p))
  /\ \E status \in {0, 1} : exit(p, status)
  /\ UNCHANGED <<line, parent, ipc>>

-----------------------------------------------------------------------------
(* exit: close_all, one ipc_try_send to the parent, env_destroy.            *)

exit_close(p) ==
  /\ pc[p] = "exit"
  /\ close_all(p, "tell")
  /\ UNCHANGED <<line, parent, ipc, ran>>

Busy(p) ==
  \/ pc[p] \in {"forked", "spawned"}
  \/ (pc[p] \in {"send", "recv", "reply"} /\ mem[p].then = "wait")

exit_tell(p) ==
  /\ pc[p] = "tell"
  /\ Prompt => ~(Busy(parent[p]) /\ mem[parent[p]].child = p)
  /\ IF recving[parent[p]] THEN Delivered(parent[p], p, mem[p].status)
     ELSE UNCHANGED <<recving, mail>>
  /\ Goto(p, "destroy")
  /\ UNCHANGED <<line, mem, parent, serving, panicked, ran>>

exit_destroy(p) ==
  /\ pc[p] = "destroy"
  /\ Goto(p, "gone")
  /\ UNCHANGED <<line, mem, parent, ipc, ran>>

-----------------------------------------------------------------------------
(* The loop of main: one line. *)

main_fork ==
  /\ pc[Shell] = "prompt" /\ Spare
  /\ fork(Shell, "waiting", [mem[Shell] EXCEPT !.child = New],
          New, "parse", [mem[Shell] EXCEPT !.todo = line])
  /\ UNCHANGED ran

main_wait ==
  /\ pc[Shell] = "waiting" /\ Gone(mem[Shell].child)
  /\ Goto(Shell, "done")
  /\ UNCHANGED <<line, mem, parent, ipc, ran>>

parsecmd(p) ==
  word(p) \/ redirect(p) \/ pipeline(p) \/ semicolon(p)
  \/ andor(p) \/ andor_recv(p) \/ andor_wait(p) \/ parsed(p)
runcmd(p) ==
  runcmd_nothing(p) \/ runcmd_builtin(p) \/ runcmd_spawn(p) \/ spawn(p)
  \/ runcmd_close(p) \/ runcmd_wait(p) \/ program(p)
fsipc(p) == fsipc_send(p) \/ fsipc_recv(p) \/ fsipc_return(p)
exit_r(p) == exit_close(p) \/ exit_tell(p) \/ exit_destroy(p)
Step(p) == parsecmd(p) \/ runcmd(p) \/ fsipc(p) \/ exit_r(p)
main == main_fork \/ main_wait

Next == main \/ serve_reply \/ \E p \in Procs : Step(p)

Spec == Init /\ [][Next]_vars

(* The scheduler runs every runnable env again and again. *)
FairSpec ==
  /\ Spec
  /\ WF_vars(main) /\ WF_vars(serve_reply)
  /\ \A p \in Procs : WF_vars(Step(p))

-----------------------------------------------------------------------------
TypeOK ==
  /\ line \in Lines
  /\ pc \in [Procs -> {"none", "prompt", "waiting", "done", "parse", "forked", "asleep",
                       "leftover", "exofork", "spawned", "wait", "program",
                       "send", "recv", "reply", "exit", "tell", "destroy", "gone"}]
  /\ parent \in [Procs -> {FS} \cup Procs]
  /\ recving \in [Procs -> BOOLEAN]
  /\ mail \in [Procs -> [from : {Nobody, FS} \cup Procs, value : Int]]
  /\ serving \in {Nobody} \cup Procs
  /\ panicked \in BOOLEAN
  /\ ran \in Seq(Commands)
  /\ serving # Nobody => pc[serving] \in {"recv", "reply"}

(* fsipc returns the file server's answer and nobody's exit status. *)
RepliesAreServers ==
  \A p \in Procs : pc[p] = "reply" /\ ~recving[p] => mail[p].from = FS

(* The line as a user means it: the command at i is executed when every     *)
(* && before it follows a command that succeeds and every || one that fails.*)
Ops == {j \in DOMAIN line : line[j] \in {"&&", "||"}}
LeftOf(j) == line[Max({i \in 1..(j - 1) : line[i] \in Commands})]
Succeeds(c) == IF c \in Programs THEN TRUE ELSE Builtin[c] = 0
Due == {i \in DOMAIN line : line[i] \in Commands /\
          \A j \in Ops : j < i => Succeeds(LeftOf(j)) = (line[j] = "&&")}
Quiet == pc[Shell] = "done" /\ \A p \in Procs \ {Shell} : pc[p] \in {"none", "gone"}
PlaceOf(c) == Max({k \in DOMAIN ran : ran[k] = c})

(* When the line has ended, the commands that were due have been executed,  *)
(* each once and no others, and a command to the right of && or || after    *)
(* the one to the left of it.  (The commands of a line are distinct.) *)
RanAsWritten ==
  Quiet /\ (\A j \in DOMAIN line : line[j] # ";") =>
    /\ Len(ran) = Cardinality(Due)
    /\ {ran[k] : k \in DOMAIN ran} = {line[i] : i \in Due}
    /\ \A i \in Due, j \in Ops : j < i => PlaceOf(LeftOf(j)) < PlaceOf(line[i])

(* sh.c:236, of ;: the parent goes on to the next command, the one on the   *)
(* right.  When a line of commands and ; has ended, all have been executed. *)
RightSideRuns ==
  Quiet /\ (\A j \in DOMAIN line : line[j] \in Commands \cup {";"}) =>
    {ran[k] : k \in DOMAIN ran} = {line[j] : j \in DOMAIN line} \ {";"}

(* sh.c:262, of &&: the next command is executed if the one before it has   *)
(* succeeded. *)
AndNeedsSuccess ==
  \A j \in DOMAIN line : line[j] = "&&" /\ line[j + 1] \in {ran[k] : k \in DOMAIN ran} =>
    LeftOf(j) \in {ran[k] : k \in DOMAIN ran} /\ Succeeds(LeftOf(j))

(* Every line ends: the shell is back at its prompt and no env is left. *)
LineEnds == <>Quiet
=============================================================================
