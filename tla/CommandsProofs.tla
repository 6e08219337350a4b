--------------------------- MODULE CommandsProofs ---------------------------
(***************************************************************************)
(* Command lines of words, redirections, && and ||, of any length: with a  *)
(* child that is slower than the calls its parent makes before it listens, *)
(* no exit status is taken for an answer of the file server, and what is   *)
(* executed of a line is what the line says.                               *)
(***************************************************************************)
EXTENDS Commands, FiniteSetTheorems, WellFoundedInduction, SequenceTheorems, TLAPS

Words == Commands \cup {">", "&&", "||"}
Plain == Prompt /\ Lines \subseteq Seq(Words)

Labels == {"none", "prompt", "waiting", "done", "parse", "forked", "asleep",
           "leftover", "exofork", "spawned", "wait", "program",
           "send", "recv", "reply", "exit", "tell", "destroy", "gone"}
Fields == {"todo", "argv", "argc", "excu", "child", "leftenv", "rightpipe", "inp", "out",
           "then", "status"}

(* What an env has in memory when it is at l: it goes on after an fsipc    *)
(* where it can, it has chosen a program before it spawns one, and the     *)
(* operator it waits for is still to be read. *)
Mem(l, m) ==
  /\ DOMAIN m = Fields /\ m.todo \in Seq(Words) /\ m.status \in Int
  /\ l \in {"send", "recv", "reply"} => m.then \in {"parse", "exofork", "wait", "tell"}
  /\ l \in {"exofork", "program"} => m.argv[1] \in Programs
  /\ l \in {"send", "recv", "reply"} /\ m.then = "exofork" => m.argv[1] \in Programs
  /\ l \in {"forked", "asleep"} => m.todo # <<>>

(* Where a parent does nothing before it waits for mem.child but what      *)
(* Prompt makes the child wait for. *)
Awaits(l, m) ==
  \/ l \in {"forked", "asleep", "spawned", "wait", "waiting"}
  \/ l \in {"send", "recv", "reply"} /\ m.then = "wait"

Types ==
  /\ line \in Lines
  /\ pc \in [Procs -> Labels] /\ mem = [p \in Procs |-> mem[p]]
  /\ parent \in [Procs -> {FS} \cup Procs]
  /\ recving \in [Procs -> BOOLEAN]
  /\ mail \in [Procs -> [from : {Nobody, FS} \cup Procs, value : Int]]
  /\ serving \in {Nobody} \cup Procs
  /\ panicked \in BOOLEAN
  /\ ran \in Seq(Commands)

Mems == \A p \in Procs : Mem(pc[p], mem[p])

OneShell == \A p \in Procs : p = Shell <=> pc[p] \in {"prompt", "waiting", "done"}

(* An env that has not ended is the one its parent waits for. *)
Awaited == \A c \in Procs : c # Shell /\ pc[c] \notin {"none", "gone"} =>
             /\ parent[c] \in Procs
             /\ Awaits(pc[parent[c]], mem[parent[c]])
             /\ mem[parent[c]].child = c

(* The client of the request that is handled has not got its answer. *)
Unanswered == \A p \in Procs : serving = p => pc[p] = "recv" \/ (pc[p] = "reply" /\ recving[p])

LineInv == Types /\ Mems /\ OneShell /\ Awaited /\ Unanswered /\ RepliesAreServers

LEMMA Names ==
  /\ Shell \in Procs /\ Procs \subseteq Nat
  /\ Nobody \notin Procs /\ FS \notin Procs /\ Nobody # FS
<1>1. NProc \in Nat /\ NProc # 0
  BY CommandsAssumption
<1>2. Shell \in Procs /\ Procs \subseteq Nat
  BY <1>1 DEF Shell, Procs
<1>3. Nobody \notin Procs
  BY <1>1 DEF Procs, Nobody
<1>4. FS \notin Procs
  BY <1>1 DEF Procs, FS
<1>5. Nobody # FS
  BY DEF Nobody, FS
<1> QED BY <1>2, <1>3, <1>4, <1>5

LEMMA NewIsNone ==
  ASSUME Spare
  PROVE  New \in Procs /\ pc[New] = "none"
<1> DEFINE S == {p \in Procs : pc[p] = "none"}
           R == {ss \in Nat \X Nat : ss[1] < ss[2]}
<1>1. S \subseteq Nat /\ S # {}
  BY Names DEF Spare
<1>2. PICK x \in S : \A y \in S : ~(<<y, x>> \in R)
  <2> HIDE DEF S, R
  <2>1. IsWellFoundedOn(R, Nat)
    BY NatLessThanWellFounded, Zenon DEF R, OpToRel
  <2> QED BY <1>1, <2>1, WFMin
<1>3. ASSUME NEW y \in S PROVE x <= y
  <2>1. x \in Nat /\ y \in Nat
    BY <1>1
  <2>2. <<y, x>> \in Nat \X Nat /\ ~(y < x)
    BY <1>2, <2>1
  <2> QED BY <2>1, <2>2
<1> HIDE DEF R
<1> QED BY <1>2, <1>3 DEF New, Min

LEMMA LineInit == Plain /\ Init => LineInv
<1> SUFFICES ASSUME Plain, Init PROVE LineInv
  OBVIOUS
<1>1. Shell \in Procs /\ Nobody \notin Procs
  BY Names
<1>2. Types
  <2>1. pc \in [Procs -> Labels]
    BY DEF Init, Labels
  <2>2. mail \in [Procs -> [from : {Nobody, FS} \cup Procs, value : Int]]
    <3>1. [from |-> Nobody, value |-> 0] \in [from : {Nobody, FS} \cup Procs, value : Int]
      OBVIOUS
    <3>2. mail = [p \in Procs |-> [from |-> Nobody, value |-> 0]]
      BY DEF Init
    <3> QED BY <3>1, <3>2
  <2>3. ran \in Seq(Commands)
    <3>1. ran = <<>>
      BY DEF Init
    <3> QED BY <3>1
  <2> QED BY <2>1, <2>2, <2>3 DEF Init, Types
<1>3. Mems
  <2>1. ASSUME NEW p \in Procs PROVE Mem(pc[p], mem[p])
    <3>1. pc[p] \in {"prompt", "none"} /\ DOMAIN mem[p] = Fields /\ mem[p].todo = <<>> /\ mem[p].status = 0
      BY DEF Init, Fields
    <3> QED BY <3>1 DEF Mem
  <2> QED BY <2>1 DEF Mems
<1>4. OneShell /\ Awaited /\ RepliesAreServers
  BY <1>1 DEF Init, OneShell, Awaited, RepliesAreServers
<1>5. Unanswered
  BY <1>1 DEF Init, Unanswered
<1> QED BY <1>2, <1>3, <1>4, <1>5 DEF LineInv

(* An env goes on by itself. *)
LEMMA Moves ==
  ASSUME LineInv, NEW p \in Procs, NEW l \in Labels, NEW m,
         pc' = [pc EXCEPT ![p] = l], mem' = [mem EXCEPT ![p] = m],
         line' = line, parent' = parent, recving' = recving, mail' = mail,
         serving' = serving, panicked' = panicked, ran' \in Seq(Commands),
         Mem(l, m), p = Shell <=> l \in {"prompt", "waiting", "done"},
         pc[p] # "none", pc[p] # "gone", serving # p, l # "reply", l # "none",
         Awaits(pc[p], mem[p]) =>
           (Awaits(l, m) /\ m.child = mem[p].child) \/ Gone(mem[p].child)
  PROVE  LineInv'
<1>1. Types /\ Mems /\ OneShell /\ Awaited /\ Unanswered /\ RepliesAreServers
  BY DEF LineInv
<1>2. /\ pc'[p] = l /\ mem'[p] = m /\ DOMAIN mem' = Procs
      /\ \A q \in Procs : q # p => pc'[q] = pc[q] /\ mem'[q] = mem[q]
  BY <1>1 DEF Types
<1>3. Types'
  BY <1>1 DEF Types
<1>4. Mems' /\ OneShell' /\ RepliesAreServers' /\ Unanswered'
  BY <1>1, <1>2 DEF Mems, OneShell, RepliesAreServers, Unanswered
<1>5. ASSUME NEW c \in Procs, c # Shell, pc'[c] \notin {"none", "gone"}
      PROVE  /\ parent'[c] \in Procs
             /\ Awaits(pc'[parent'[c]], mem'[parent'[c]])
             /\ mem'[parent'[c]].child = c
  <2>1. pc[c] \notin {"none", "gone"}
    BY <1>2, <1>5
  <2>2. /\ parent[c] \in Procs /\ Awaits(pc[parent[c]], mem[parent[c]])
        /\ mem[parent[c]].child = c
    BY <1>1, <1>5, <2>1 DEF Awaited
  <2>3. CASE parent[c] = p
    <3>1. ~Gone(mem[p].child)
      BY <1>5, <2>1, <2>2, <2>3, Names DEF Gone
    <3> QED BY <1>2, <2>2, <2>3, <3>1
  <2>4. CASE parent[c] # p
    BY <1>2, <2>2, <2>4
  <2> QED BY <2>3, <2>4
<1>6. Awaited'
  BY <1>5 DEF Awaited
<1> QED BY <1>3, <1>4, <1>6 DEF LineInv

(* An env that awaits nobody creates another and awaits it. *)
LEMMA Forks ==
  ASSUME LineInv, Spare, NEW p \in Procs, NEW l \in Labels, NEW m, NEW lc \in Labels, NEW mc,
         fork(p, l, m, New, lc, mc), ran' = ran,
         Mem(l, m), Mem(lc, mc), p = Shell <=> l \in {"prompt", "waiting", "done"},
         lc \notin {"prompt", "waiting", "done", "none", "reply"}, l # "reply", l # "none",
         pc[p] # "none", pc[p] # "gone", serving # p, ~Awaits(pc[p], mem[p]),
         Awaits(l, m), m.child = New
  PROVE  LineInv'
<1>1. Types /\ Mems /\ OneShell /\ Awaited /\ Unanswered /\ RepliesAreServers
  BY DEF LineInv
<1> DEFINE c == New
<1>2. c \in Procs /\ pc[c] = "none" /\ c # p /\ c # Shell
  BY <1>1, NewIsNone DEF OneShell
<1>3. /\ pc' = [pc EXCEPT ![p] = l, ![c] = lc] /\ mem' = [mem EXCEPT ![p] = m, ![c] = mc]
      /\ parent' = [parent EXCEPT ![c] = p]
      /\ UNCHANGED <<line, recving, mail, serving, panicked>>
  BY DEF fork, ipc
<1>4. m.child = c
  OBVIOUS
<1> HIDE DEF c
<1>5. /\ pc'[p] = l /\ mem'[p] = m /\ pc'[c] = lc /\ mem'[c] = mc /\ DOMAIN mem' = Procs
      /\ \A q \in Procs : q # p /\ q # c => pc'[q] = pc[q] /\ mem'[q] = mem[q]
      /\ parent'[c] = p /\ \A q \in Procs : q # c => parent'[q] = parent[q]
  BY <1>1, <1>2, <1>3 DEF Types
<1>6. Types'
  BY <1>1, <1>2, <1>3 DEF Types
<1>7. Mems' /\ OneShell' /\ RepliesAreServers' /\ Unanswered'
  <2>1. Mems'
    BY <1>1, <1>5 DEF Mems
  <2>2. OneShell'
    BY <1>1, <1>2, <1>5 DEF OneShell
  <2>3. RepliesAreServers'
    BY <1>1, <1>3, <1>5 DEF RepliesAreServers
  <2>4. serving # c
    BY <1>1, <1>2 DEF Unanswered
  <2>5. Unanswered'
    <3>1. ASSUME NEW q \in Procs, serving' = q
          PROVE  pc'[q] = "recv" \/ (pc'[q] = "reply" /\ recving'[q])
      <4>1. q # c /\ q # p /\ serving = q
        BY <1>3, <2>4, <3>1
      <4> QED BY <1>1, <1>3, <1>5, <4>1 DEF Unanswered
    <3> QED BY <3>1 DEF Unanswered
  <2> QED BY <2>1, <2>2, <2>3, <2>5
<1>8. ASSUME NEW d \in Procs, d # Shell, pc'[d] \notin {"none", "gone"}
      PROVE  /\ parent'[d] \in Procs
             /\ Awaits(pc'[parent'[d]], mem'[parent'[d]])
             /\ mem'[parent'[d]].child = d
  <2>1. CASE d = c
    BY <1>2, <1>5, <1>4, <2>1
  <2>2. CASE d # c
    <3>1. pc[d] \notin {"none", "gone"}
      BY <1>5, <1>8, <2>2
    <3>2. /\ parent[d] \in Procs /\ Awaits(pc[parent[d]], mem[parent[d]])
          /\ mem[parent[d]].child = d
      BY <1>1, <1>8, <3>1 DEF Awaited
    <3>3. parent[d] # p
      BY <3>2
    <3>4. parent[d] # c
      BY <1>2, <3>2 DEF Awaits
    <3> QED BY <1>2, <1>5, <2>2, <3>2, <3>3, <3>4
  <2> QED BY <2>1, <2>2
<1>9. Awaited'
  BY <1>8 DEF Awaited
<1> QED BY <1>6, <1>7, <1>9 DEF LineInv
(* The calls that do no more than this. *)
LEMMA ParseKeeps ==
  ASSUME LineInv, NEW p \in Procs,
         word(p) \/ redirect(p) \/ andor(p) \/ andor_wait(p) \/ parsed(p)
  PROVE  LineInv'
<1> USE DEF ipc
<1>1. /\ Mem(pc[p], mem[p]) /\ (p = Shell <=> pc[p] \in {"prompt", "waiting", "done"})
      /\ (serving = p => pc[p] \in {"recv", "reply"}) /\ Types
  BY DEF LineInv, Mems, OneShell, Unanswered
<1> DEFINE m == mem[p]
           todo == mem[p].todo
<1>2. DOMAIN m = Fields /\ todo \in Seq(Words) /\ m.status \in Int
  BY <1>1 DEF Mem
<1>3. todo # <<>> => Tail(todo) \in Seq(Words) /\ Head(todo) \in Words
  BY <1>2, HeadTailProperties
<1>4. ASSUME NEW w, Is(p, w) PROVE pc[p] = "parse" /\ todo # <<>> /\ Tail(todo) \in Seq(Words)
  BY <1>3, <1>4 DEF Is
<1>5. CASE word(p)
  <2>1. PICK w \in Commands : /\ Is(p, w)
           /\ Set(p, [Rest(p) EXCEPT !.argv = Append(@, w), !.argc = @ + 1])
           /\ UNCHANGED <<line, pc, parent, ipc, ran>>
    BY <1>5 DEF word
  <2> DEFINE n == [Rest(p) EXCEPT !.argv = Append(@, w), !.argc = @ + 1]
  <2>2. pc[p] = "parse" /\ Tail(todo) \in Seq(Words)
    BY <1>4, <2>1
  <2>3. DOMAIN n = Fields /\ n.todo = Tail(todo) /\ n.status = m.status
    BY <1>2 DEF Rest, Fields
  <2>4. mem' = [mem EXCEPT ![p] = n] /\ UNCHANGED <<line, pc, parent, recving, mail, serving, panicked, ran>>
    BY <2>1 DEF Set
  <2>5. pc' = [pc EXCEPT ![p] = "parse"]
    BY <1>1, <2>2, <2>4 DEF Types
  <2> HIDE DEF n
  <2>6. Mem("parse", n)
    BY <1>2, <2>2, <2>3 DEF Mem
  <2>7. ~Awaits(pc[p], mem[p]) /\ p # Shell /\ serving # p /\ "parse" \in Labels /\ ran' \in Seq(Commands)
    BY <1>1, <2>2, <2>4 DEF Awaits, Labels, Types
  <2> QED BY <2>2, <2>4, <2>5, <2>6, <2>7, Moves
<1>6. CASE redirect(p)
  <2> DEFINE n == [[Rest(p) EXCEPT !.out = File] EXCEPT !.then = "parse"]
  <2>1. Is(p, ">") /\ pc' = [pc EXCEPT ![p] = "send"] /\ mem' = [mem EXCEPT ![p] = n]
        /\ UNCHANGED <<line, parent, recving, mail, serving, panicked, ran>>
    BY <1>6 DEF redirect, Ask, Goto, Set
  <2>2. pc[p] = "parse" /\ Tail(todo) \in Seq(Words)
    BY <1>4, <2>1
  <2>3. DOMAIN n = Fields /\ n.todo = Tail(todo) /\ n.status = m.status /\ n.then = "parse"
    BY <1>2 DEF Rest, Fields
  <2> HIDE DEF n
  <2>4. Mem("send", n)
    BY <1>2, <2>2, <2>3 DEF Mem
  <2>5. ~Awaits(pc[p], mem[p]) /\ p # Shell /\ serving # p /\ "send" \in Labels /\ ran' \in Seq(Commands)
    BY <1>1, <2>1, <2>2 DEF Awaits, Labels, Types
  <2> QED BY <2>1, <2>2, <2>4, <2>5, Moves
<1>7. CASE andor(p)
  <2> DEFINE n == [mem[p] EXCEPT !.argv = SubSeq(@, 1, Len(@) - mem[p].argc), !.argc = 0, !.child = New]
             lc == IF mem[p].excu THEN "leftover" ELSE "exit"
             mc == [mem[p] EXCEPT !.status = 0]
  <2>1. (Is(p, "&&") \/ Is(p, "||")) /\ Spare /\ fork(p, "forked", n, New, lc, mc) /\ ran' = ran
    BY <1>7 DEF andor
  <2>2. pc[p] = "parse" /\ todo # <<>>
    BY <1>4, <2>1
  <2>3. DOMAIN n = Fields /\ n.todo = todo /\ n.status = m.status /\ n.child = New
    BY <1>2 DEF Fields
  <2>4. DOMAIN mc = Fields /\ mc.todo = todo /\ mc.status = 0 /\ lc \in {"leftover", "exit"}
    BY <1>2 DEF Fields
  <2> HIDE DEF n, lc, mc
  <2>5. Mem("forked", n) /\ Mem(lc, mc)
    BY <1>2, <2>2, <2>3, <2>4 DEF Mem
  <2>6. /\ ~Awaits(pc[p], mem[p]) /\ p # Shell /\ serving # p /\ "forked" \in Labels /\ lc \in Labels
        /\ Awaits("forked", n)
    BY <1>1, <2>2, <2>4 DEF Awaits, Labels
  <2> QED BY <2>1, <2>2, <2>3, <2>4, <2>5, <2>6, Forks
<1>8. CASE andor_wait(p)
  <2> DEFINE n == [Rest(p) EXCEPT !.excu = (mail[p].value = 0) = (Head(mem[p].todo) = "&&")]
  <2>1. /\ pc[p] = "asleep" /\ Gone(mem[p].child) /\ pc' = [pc EXCEPT ![p] = "parse"]
        /\ mem' = [mem EXCEPT ![p] = n] /\ UNCHANGED <<line, parent, recving, mail, serving, panicked, ran>>
    BY <1>8 DEF andor_wait, Goto, Set
  <2>2. todo # <<>>
    BY <1>1, <2>1 DEF Mem
  <2>3. DOMAIN n = Fields /\ n.todo = Tail(todo) /\ n.status = m.status
    BY <1>2 DEF Rest, Fields
  <2> HIDE DEF n
  <2>4. Mem("parse", n)
    BY <1>2, <1>3, <2>2, <2>3 DEF Mem
  <2>5. p # Shell /\ serving # p /\ "parse" \in Labels /\ ran' \in Seq(Commands)
    BY <1>1, <2>1 DEF Labels, Types
  <2> QED BY <2>1, <2>4, <2>5, Moves
<1>9. CASE parsed(p)
  <2>1. /\ pc[p] = "parse" /\ pc' = [pc EXCEPT ![p] = "leftover"]
        /\ UNCHANGED <<line, mem, parent, recving, mail, serving, panicked, ran>>
    BY <1>9 DEF parsed, Goto
  <2>2. mem' = [mem EXCEPT ![p] = m]
    BY <1>1, <2>1 DEF Types
  <2>3. Mem("leftover", m)
    BY <1>2 DEF Mem
  <2>4. ~Awaits(pc[p], mem[p]) /\ p # Shell /\ serving # p /\ "leftover" \in Labels /\ ran' \in Seq(Commands)
    BY <1>1, <2>1 DEF Awaits, Labels, Types
  <2> HIDE DEF m
  <2> QED BY <2>1, <2>2, <2>3, <2>4, Moves
<1> QED BY <1>5, <1>6, <1>7, <1>8, <1>9
(* close_all leaves the env at l, or asking for a file to be closed first. *)
LEMMA ClosesAll ==
  ASSUME LineInv, NEW p \in Procs, NEW l \in {"wait", "tell"}, close_all(p, l),
         UNCHANGED <<line, parent, recving, mail, serving, panicked, ran>>,
         pc[p] \notin {"none", "gone", "recv", "reply"}, p # Shell,
         Awaits(pc[p], mem[p]) => l = "wait"
  PROVE  LineInv'
<1>1. Mem(pc[p], mem[p]) /\ serving # p /\ ran \in Seq(Commands)
  BY DEF LineInv, Mems, Types, Unanswered
<1> DEFINE m == [mem[p] EXCEPT !.inp = Console, !.out = Console]
           n == [m EXCEPT !.then = l]
<1>2. /\ DOMAIN m = Fields /\ m.todo = mem[p].todo /\ m.status = mem[p].status /\ m.child = mem[p].child
      /\ DOMAIN n = Fields /\ n.todo = mem[p].todo /\ n.status = mem[p].status /\ n.child = mem[p].child
      /\ n.then = l
  BY <1>1 DEF Mem, Fields
<1>3. \/ pc' = [pc EXCEPT ![p] = "send"] /\ mem' = [mem EXCEPT ![p] = n]
      \/ pc' = [pc EXCEPT ![p] = l] /\ mem' = [mem EXCEPT ![p] = m]
  BY DEF close_all, Ask, Goto, Set
<1> HIDE DEF m, n
<1>4. /\ Mem("send", n) /\ Mem(l, m) /\ "send" \in Labels /\ l \in Labels
      /\ (l = "wait" => Awaits("send", n) /\ Awaits(l, m))
  BY <1>1, <1>2 DEF Mem, Labels, Awaits
<1>5. CASE pc' = [pc EXCEPT ![p] = "send"] /\ mem' = [mem EXCEPT ![p] = n]
  <2>1. Awaits(pc[p], mem[p]) => Awaits("send", n) /\ n.child = mem[p].child
    BY <1>2, <1>4
  <2> QED BY <1>1, <1>4, <1>5, <2>1, Moves
<1>6. CASE pc' = [pc EXCEPT ![p] = l] /\ mem' = [mem EXCEPT ![p] = m]
  <2>1. Awaits(pc[p], mem[p]) => Awaits(l, m) /\ m.child = mem[p].child
    BY <1>2, <1>4
  <2>2. l # "reply" /\ l # "none" /\ l \notin {"prompt", "waiting", "done"}
    OBVIOUS
  <2> QED BY <1>1, <1>4, <1>6, <2>1, <2>2, Moves
<1> QED BY <1>3, <1>5, <1>6

LEMMA RunKeeps ==
  ASSUME LineInv, NEW p \in Procs, runcmd(p)
  PROVE  LineInv'
<1> USE DEF ipc
<1>1. /\ Mem(pc[p], mem[p]) /\ (p = Shell <=> pc[p] \in {"prompt", "waiting", "done"})
      /\ (serving = p => pc[p] \in {"recv", "reply"}) /\ Types
  BY DEF LineInv, Mems, OneShell, Unanswered
<1>2. DOMAIN mem[p] = Fields /\ mem[p].todo \in Seq(Words) /\ mem[p].status \in Int
  BY <1>1 DEF Mem
<1>3. ASSUME NEW status \in Int, exit(p, status), UNCHANGED <<line, parent, recving, mail, serving, panicked>>,
             ran' \in Seq(Commands), pc[p] \in {"leftover", "program", "wait"},
             pc[p] = "wait" => Gone(mem[p].child)
      PROVE  LineInv'
  <2> DEFINE m == [mem[p] EXCEPT !.status = status]
  <2>1. pc' = [pc EXCEPT ![p] = "exit"] /\ mem' = [mem EXCEPT ![p] = m]
    BY <1>3 DEF exit, Goto, Set
  <2>2. DOMAIN m = Fields /\ m.todo = mem[p].todo /\ m.status = status
    BY <1>2 DEF Fields
  <2> HIDE DEF m
  <2>3. Mem("exit", m) /\ "exit" \in Labels
    BY <1>2, <1>3, <2>2 DEF Mem, Labels
  <2>4. Awaits(pc[p], mem[p]) => Gone(mem[p].child)
    BY <1>3 DEF Awaits
  <2>5. p # Shell /\ serving # p
    BY <1>1, <1>3
  <2> QED BY <1>3, <2>1, <2>3, <2>4, <2>5, Moves
<1>4. CASE runcmd_nothing(p)
  <2>1. -1 \in Int
    OBVIOUS
  <2> QED BY <1>1, <1>3, <1>4, <2>1 DEF runcmd_nothing, Ready, Types
<1>5. CASE runcmd_builtin(p)
  <2>1. /\ pc[p] = "leftover" /\ Command(p) \in DOMAIN Builtin /\ ran' = Append(ran, Command(p))
        /\ exit(p, Builtin[Command(p)]) /\ UNCHANGED <<line, parent, recving, mail, serving, panicked>>
    BY <1>5 DEF runcmd_builtin, Runs, Ready
  <2>2. Builtin[Command(p)] \in Int /\ Command(p) \in Commands
    BY <2>1, CommandsAssumption DEF Commands
  <2>3. ran' \in Seq(Commands)
    BY <1>1, <2>1, <2>2, AppendProperties DEF Types
  <2> QED BY <1>3, <2>1, <2>2, <2>3
<1>6. CASE runcmd_spawn(p)
  <2> DEFINE m == [mem[p] EXCEPT !.then = "exofork"]
  <2>1. /\ pc[p] = "leftover" /\ mem[p].argv[1] \in Programs
        /\ pc' = [pc EXCEPT ![p] = "send"] /\ mem' = [mem EXCEPT ![p] = m]
        /\ UNCHANGED <<line, parent, recving, mail, serving, panicked, ran>>
    BY <1>6 DEF runcmd_spawn, Runs, Ready, Command, Ask, Goto, Set
  <2>2. /\ DOMAIN m = Fields /\ m.todo = mem[p].todo /\ m.status = mem[p].status
        /\ m.argv = mem[p].argv /\ m.then = "exofork"
    BY <1>2 DEF Fields
  <2> HIDE DEF m
  <2>3. Mem("send", m) /\ "send" \in Labels
    BY <1>2, <2>1, <2>2 DEF Mem, Labels
  <2>4. ~Awaits(pc[p], mem[p]) /\ p # Shell /\ serving # p /\ ran' \in Seq(Commands)
    BY <1>1, <2>1 DEF Awaits, Types
  <2> QED BY <2>1, <2>3, <2>4, Moves
<1>7. CASE spawn(p)
  <2> DEFINE m == [mem[p] EXCEPT !.child = New]
  <2>1. pc[p] = "exofork" /\ Spare /\ fork(p, "spawned", m, New, "program", mem[p]) /\ ran' = ran
    BY <1>7 DEF spawn
  <2>2. DOMAIN m = Fields /\ m.todo = mem[p].todo /\ m.status = mem[p].status /\ m.child = New
    BY <1>2 DEF Fields
  <2> HIDE DEF m
  <2>3. Mem("spawned", m) /\ Mem("program", mem[p]) /\ {"spawned", "program"} \subseteq Labels
    BY <1>1, <1>2, <2>1, <2>2 DEF Mem, Labels
  <2>4. ~Awaits(pc[p], mem[p]) /\ Awaits("spawned", m) /\ p # Shell /\ serving # p
    BY <1>1, <2>1 DEF Awaits
  <2> QED BY <2>1, <2>2, <2>3, <2>4, Forks
<1>8. CASE runcmd_close(p)
  BY <1>1, <1>8, ClosesAll DEF runcmd_close
<1>9. CASE runcmd_wait(p)
  BY <1>1, <1>3, <1>9 DEF runcmd_wait, Types
<1>10. CASE program(p)
  <2>1. PICK status \in {0, 1} : exit(p, status)
    BY <1>10 DEF program
  <2>2. pc[p] = "program" /\ ran' = Append(ran, Command(p)) /\ UNCHANGED <<line, parent, recving, mail, serving, panicked>>
    BY <1>10 DEF program
  <2>3. Command(p) \in Commands
    BY <1>1, <2>2 DEF Mem, Command, Commands
  <2>4. ran' \in Seq(Commands)
    BY <1>1, <2>2, <2>3, AppendProperties DEF Types
  <2>5. status \in Int
    OBVIOUS
  <2> QED BY <1>3, <2>1, <2>2, <2>4, <2>5
<1> QED BY <1>4, <1>5, <1>6, <1>7, <1>8, <1>9, <1>10 DEF runcmd

(* The mailbox: going to sleep, and what wakes the sleeper. *)
LEMMA Sleeps ==
  ASSUME LineInv, NEW p \in Procs, fsipc_recv(p) \/ andor_recv(p)
  PROVE  LineInv'
<1>1. Types /\ Mems /\ OneShell /\ Awaited /\ Unanswered /\ RepliesAreServers
  BY DEF LineInv
<1>2. PICK l \in {"reply", "asleep"} :
        /\ pc' = [pc EXCEPT ![p] = l] /\ recving' = [recving EXCEPT ![p] = TRUE]
        /\ UNCHANGED <<line, mem, parent, mail, serving, panicked, ran>>
        /\ pc[p] = IF l = "reply" THEN "recv" ELSE "forked"
  BY DEF fsipc_recv, andor_recv, sys_ipc_recv, Goto
<1>3. /\ pc'[p] = l /\ recving'[p] = TRUE
      /\ \A q \in Procs : q # p => pc'[q] = pc[q] /\ recving'[q] = recving[q]
  BY <1>1, <1>2 DEF Types
<1>4. Types'
  BY <1>1, <1>2 DEF Types, Labels
<1>5. ASSUME NEW q \in Procs PROVE Mem(pc'[q], mem[q]) /\ (Awaits(pc[q], mem[q]) => Awaits(pc'[q], mem[q]))
  <2>1. Mem(pc[q], mem[q])
    BY <1>1 DEF Mems
  <2>2. CASE q = p
    BY <1>2, <1>3, <2>1, <2>2 DEF Mem, Awaits
  <2> QED BY <1>3, <2>1, <2>2
<1>6. Mems'
  BY <1>2, <1>5 DEF Mems
<1>7. OneShell' /\ RepliesAreServers'
  BY <1>1, <1>2, <1>3 DEF OneShell, RepliesAreServers
<1>8. Unanswered'
  BY <1>1, <1>2, <1>3 DEF Unanswered
<1>9. ASSUME NEW c \in Procs, c # Shell, pc'[c] \notin {"none", "gone"}
      PROVE  /\ parent'[c] \in Procs
             /\ Awaits(pc'[parent'[c]], mem'[parent'[c]])
             /\ mem'[parent'[c]].child = c
  <2>1. pc[c] \notin {"none", "gone"}
    BY <1>2, <1>3, <1>9
  <2> QED BY <1>1, <1>2, <1>5, <1>9, <2>1 DEF Awaited
<1>10. Awaited'
  BY <1>9 DEF Awaited
<1> QED BY <1>4, <1>6, <1>7, <1>8, <1>10 DEF LineInv
LEMMA AskKeeps ==
  ASSUME LineInv, NEW p \in Procs, fsipc_send(p) \/ fsipc_return(p)
  PROVE  LineInv'
<1>1. Types /\ Mems /\ OneShell /\ Awaited /\ Unanswered /\ RepliesAreServers /\ Mem(pc[p], mem[p])
  BY DEF LineInv, Mems
<1>2. CASE fsipc_send(p)
  <2>1. /\ pc[p] = "send" /\ serving = Nobody /\ serving' = p /\ pc' = [pc EXCEPT ![p] = "recv"]
        /\ UNCHANGED <<line, mem, parent, recving, mail, panicked, ran>>
    BY <1>2 DEF fsipc_send, Goto
  <2>2. pc'[p] = "recv" /\ \A q \in Procs : q # p => pc'[q] = pc[q]
    BY <1>1, <2>1 DEF Types
  <2>3. Types'
    BY <1>1, <2>1 DEF Types, Labels
  <2>4. ASSUME NEW q \in Procs PROVE Mem(pc'[q], mem[q]) /\ (Awaits(pc[q], mem[q]) => Awaits(pc'[q], mem[q]))
    <3>1. Mem(pc[q], mem[q])
      BY <1>1 DEF Mems
    <3>2. CASE q = p
      BY <2>1, <2>2, <3>1, <3>2 DEF Mem, Awaits
    <3> QED BY <2>2, <3>1, <3>2
  <2>5. Mems'
    BY <2>1, <2>4 DEF Mems
  <2>6. OneShell' /\ RepliesAreServers' /\ Unanswered'
    BY <1>1, <2>1, <2>2 DEF OneShell, RepliesAreServers, Unanswered
  <2>7. ASSUME NEW c \in Procs, c # Shell, pc'[c] \notin {"none", "gone"}
        PROVE  /\ parent'[c] \in Procs
               /\ Awaits(pc'[parent'[c]], mem'[parent'[c]])
               /\ mem'[parent'[c]].child = c
    <3>1. pc[c] \notin {"none", "gone"}
      BY <2>1, <2>2, <2>7
    <3> QED BY <1>1, <2>1, <2>4, <2>7, <3>1 DEF Awaited
  <2>8. Awaited'
    BY <2>7 DEF Awaited
  <2> QED BY <2>3, <2>5, <2>6, <2>8 DEF LineInv
<1>3. CASE fsipc_return(p)
  <2> DEFINE l == mem[p].then
             m == mem[p]
  <2>1. /\ pc[p] = "reply" /\ ~recving[p] /\ pc' = [pc EXCEPT ![p] = l]
        /\ UNCHANGED <<line, mem, parent, recving, mail, serving, panicked, ran>>
    BY <1>3 DEF fsipc_return, Goto, ipc
  <2>2. mem' = [mem EXCEPT ![p] = m]
    BY <1>1, <2>1 DEF Types
  <2>3. l \in {"parse", "exofork", "wait", "tell"} /\ Mem(l, m)
    BY <1>1, <2>1 DEF Mem
  <2>4. Awaits(pc[p], m) => Awaits(l, m)
    BY <1>1, <2>1 DEF Mem, Awaits
  <2>5. serving # p /\ p # Shell /\ ran' \in Seq(Commands)
    BY <1>1, <2>1 DEF Unanswered, OneShell, Types
  <2>6. l \in Labels /\ l # "reply" /\ l # "none" /\ l \notin {"prompt", "waiting", "done"}
    BY <2>3 DEF Labels
  <2>7. Awaits(pc[p], mem[p]) => (Awaits(l, m) /\ m.child = mem[p].child) \/ Gone(mem[p].child)
    BY <2>4
  <2>8. pc[p] # "none" /\ pc[p] # "gone"
    BY <2>1
  <2> HIDE DEF l, m
  <2> QED BY <2>1, <2>2, <2>3, <2>5, <2>6, <2>7, <2>8, Moves
<1> QED BY <1>2, <1>3

(* A message reaches an env that sleeps: from the server, or from a child  *)
(* whose parent has nothing more to ask. *)
LEMMA MailKeeps ==
  ASSUME LineInv, NEW to \in Procs, NEW from \in {FS} \cup Procs, NEW value \in Int,
         Delivered(to, from, value), UNCHANGED <<line, mem, parent, panicked, ran>>,
         \/ from = FS /\ serving' = Nobody /\ pc' = pc
         \/ /\ from \in Procs /\ from # Shell /\ pc[from] = "tell" /\ pc' = [pc EXCEPT ![from] = "destroy"]
            /\ serving' = serving /\ pc[to] # "reply"
  PROVE  LineInv'
<1>1. Types /\ Mems /\ OneShell /\ Awaited /\ Unanswered /\ RepliesAreServers
  BY DEF LineInv
<1>2. /\ recving' = [recving EXCEPT ![to] = FALSE]
      /\ mail' = [mail EXCEPT ![to] = [from |-> from, value |-> value]]
  BY DEF Delivered
<1>3. /\ recving'[to] = FALSE /\ mail'[to].from = from
      /\ \A q \in Procs : q # to => recving'[q] = recving[q] /\ mail'[q] = mail[q]
  BY <1>1, <1>2 DEF Types
<1>4. pc' \in [Procs -> Labels] /\ serving' \in {Nobody} \cup Procs
  BY <1>1 DEF Types, Labels
<1>5. Types'
  <2>1. recving' \in [Procs -> BOOLEAN]
    BY <1>1, <1>2 DEF Types
  <2>2. mail' \in [Procs -> [from : {Nobody, FS} \cup Procs, value : Int]]
    <3>1. [from |-> from, value |-> value] \in [from : {Nobody, FS} \cup Procs, value : Int]
      OBVIOUS
    <3> QED BY <1>1, <1>2, <3>1 DEF Types
  <2> QED BY <1>1, <1>4, <2>1, <2>2 DEF Types
<1>6. ASSUME NEW q \in Procs
      PROVE  /\ pc'[q] = pc[q] \/ (q = from /\ q # Shell /\ pc[q] = "tell" /\ pc'[q] = "destroy")
             /\ Mem(pc'[q], mem[q])
             /\ Awaits(pc[q], mem[q]) => Awaits(pc'[q], mem[q])
  <2>1. pc'[q] = pc[q] \/ (q = from /\ q # Shell /\ pc[q] = "tell" /\ pc'[q] = "destroy")
    BY <1>1, Names DEF Types
  <2>2. Mem(pc[q], mem[q])
    BY <1>1 DEF Mems
  <2> QED BY <2>1, <2>2 DEF Mem, Awaits
<1>7. Mems' /\ OneShell'
  BY <1>1, <1>6 DEF Mems, OneShell
<1>8. RepliesAreServers' /\ Unanswered'
  <2>1. CASE from = FS /\ serving' = Nobody /\ pc' = pc
    BY <1>1, <1>3, <2>1, Names DEF RepliesAreServers, Unanswered
  <2>2. CASE /\ from \in Procs /\ pc[from] = "tell" /\ pc' = [pc EXCEPT ![from] = "destroy"]
             /\ serving' = serving /\ pc[to] # "reply"
    <3>1. \A q \in Procs : pc'[q] = "reply" => pc[q] = "reply" /\ q # to
      BY <1>6, <2>2
    <3>2. RepliesAreServers'
      BY <1>1, <1>3, <3>1 DEF RepliesAreServers
    <3>3. \A q \in Procs : pc[q] \in {"recv", "reply"} => pc'[q] = pc[q]
      BY <1>6
    <3>4. Unanswered'
      BY <1>1, <1>3, <2>2, <3>3 DEF Unanswered
    <3> QED BY <3>2, <3>4
  <2> QED BY <2>1, <2>2
<1>9. ASSUME NEW c \in Procs, c # Shell, pc'[c] \notin {"none", "gone"}
      PROVE  /\ parent'[c] \in Procs
             /\ Awaits(pc'[parent'[c]], mem'[parent'[c]])
             /\ mem'[parent'[c]].child = c
  <2>1. pc[c] \notin {"none", "gone"}
    BY <1>6, <1>9
  <2> QED BY <1>1, <1>6, <1>9, <2>1 DEF Awaited
<1>10. Awaited'
  BY <1>9 DEF Awaited
<1> QED BY <1>5, <1>7, <1>8, <1>10 DEF LineInv

LEMMA ServeKeeps ==
  ASSUME LineInv, serve_reply
  PROVE  LineInv'
<1>1. serving \in Procs /\ ~panicked
  BY DEF LineInv, Types, serve_reply
<1>2. ~Gone(serving)
  BY <1>1, Names DEF LineInv, Unanswered, Gone
<1>3. /\ Delivered(serving, FS, 0) /\ serving' = Nobody
      /\ UNCHANGED <<line, pc, mem, parent, panicked, ran>>
  BY <1>2 DEF serve_reply
<1> QED BY <1>1, <1>3, MailKeeps

LEMMA ExitKeeps ==
  ASSUME Prompt, LineInv, NEW p \in Procs, exit_r(p)
  PROVE  LineInv'
<1>1. Types /\ Mems /\ OneShell /\ Awaited /\ Unanswered /\ Mem(pc[p], mem[p])
  BY DEF LineInv, Mems
<1> DEFINE m == mem[p]
<1>2. mem = [mem EXCEPT ![p] = m]
  BY <1>1 DEF Types
<1>3. ASSUME NEW l \in {"destroy", "gone"}, pc[p] \in {"tell", "destroy"}, pc' = [pc EXCEPT ![p] = l],
             UNCHANGED <<line, mem, parent, recving, mail, serving, panicked, ran>>
      PROVE  LineInv'
  <2>1. mem' = [mem EXCEPT ![p] = m]
    BY <1>2, <1>3
  <2>2. Mem(l, m) /\ l \in Labels /\ l \notin {"prompt", "waiting", "done", "reply", "none"}
    BY <1>1 DEF Mem, Labels
  <2>3. ~Awaits(pc[p], mem[p]) /\ p # Shell /\ serving # p /\ ran' \in Seq(Commands)
    BY <1>1, <1>3 DEF Awaits, OneShell, Unanswered, Types
  <2> HIDE DEF m
  <2> QED BY <1>3, <2>1, <2>2, <2>3, Moves
<1>4. CASE exit_close(p)
  <2>1. pc[p] = "exit" /\ close_all(p, "tell") /\ UNCHANGED <<line, parent, recving, mail, serving, panicked, ran>>
    BY <1>4 DEF exit_close, ipc
  <2>2. p # Shell /\ ~Awaits(pc[p], mem[p])
    BY <1>1, <2>1 DEF OneShell, Awaits
  <2> QED BY <2>1, <2>2, ClosesAll
<1>5. CASE exit_destroy(p)
  BY <1>3, <1>5 DEF exit_destroy, Goto, ipc
<1>6. CASE exit_tell(p)
  <2> DEFINE to == parent[p]
  <2>1. /\ pc[p] = "tell" /\ pc' = [pc EXCEPT ![p] = "destroy"]
        /\ ~(Busy(to) /\ mem[to].child = p)
        /\ IF recving[to] THEN Delivered(to, p, m.status) ELSE UNCHANGED <<recving, mail>>
        /\ UNCHANGED <<line, mem, parent, serving, panicked, ran>>
    BY <1>6 DEF exit_tell, Goto
  <2>2. p # Shell /\ m.status \in Int
    BY <1>1, <2>1 DEF OneShell, Mem
  <2>3. to \in Procs /\ Awaits(pc[to], mem[to]) /\ mem[to].child = p
    BY <1>1, <2>1, <2>2 DEF Awaited
  <2>4. pc[to] # "reply"
    BY <2>1, <2>3 DEF Busy, Awaits
  <2> HIDE DEF to, m
  <2>5. CASE recving[to]
    BY <2>1, <2>2, <2>3, <2>4, <2>5, MailKeeps
  <2>6. CASE ~recving[to]
    BY <1>3, <2>1, <2>6
  <2> QED BY <2>5, <2>6
<1> QED BY <1>4, <1>5, <1>6 DEF exit_r

LEMMA MainKeeps ==
  ASSUME Plain, LineInv, main
  PROVE  LineInv'
<1>1. Types /\ Mems /\ OneShell /\ Awaited /\ Unanswered
  BY DEF LineInv
<1>2. Shell \in Procs /\ Mem(pc[Shell], mem[Shell])
  BY <1>1, Names DEF Mems
<1>3. CASE main_fork
  <2> DEFINE m == [mem[Shell] EXCEPT !.child = New]
             mc == [mem[Shell] EXCEPT !.todo = line]
  <2>1. pc[Shell] = "prompt" /\ Spare /\ fork(Shell, "waiting", m, New, "parse", mc) /\ ran' = ran
    BY <1>3 DEF main_fork
  <2>2. DOMAIN mem[Shell] = Fields /\ mem[Shell].todo \in Seq(Words) /\ mem[Shell].status \in Int
    BY <1>2 DEF Mem
  <2>3. /\ DOMAIN m = Fields /\ m.todo = mem[Shell].todo /\ m.status = mem[Shell].status /\ m.child = New
        /\ DOMAIN mc = Fields /\ mc.todo = line /\ mc.status = mem[Shell].status
    BY <2>2 DEF Fields
  <2>4. line \in Seq(Words)
    BY <1>1 DEF Types, Plain
  <2> HIDE DEF m, mc
  <2>5. Mem("waiting", m) /\ Mem("parse", mc) /\ {"waiting", "parse"} \subseteq Labels
    BY <2>2, <2>3, <2>4 DEF Mem, Labels
  <2>6. ~Awaits(pc[Shell], mem[Shell]) /\ Awaits("waiting", m) /\ serving # Shell
    BY <1>1, <1>2, <2>1 DEF Awaits, Unanswered
  <2> QED BY <1>2, <2>1, <2>3, <2>5, <2>6, Forks
<1>4. CASE main_wait
  <2> DEFINE m == mem[Shell]
  <2>1. /\ pc[Shell] = "waiting" /\ Gone(m.child) /\ pc' = [pc EXCEPT ![Shell] = "done"]
        /\ UNCHANGED <<line, mem, parent, recving, mail, serving, panicked, ran>>
    BY <1>4 DEF main_wait, Goto, ipc
  <2>2. mem' = [mem EXCEPT ![Shell] = m]
    BY <1>1, <2>1 DEF Types
  <2>3. Mem("done", m) /\ "done" \in Labels
    BY <1>2 DEF Mem, Labels
  <2>4. serving # Shell /\ ran' \in Seq(Commands)
    BY <1>1, <1>2, <2>1 DEF Unanswered, Types
  <2>5. Gone(mem[Shell].child)
    BY <2>1
  <2> HIDE DEF m
  <2> QED BY <1>2, <2>1, <2>2, <2>3, <2>4, <2>5, Moves
<1> QED BY <1>3, <1>4 DEF main

LEMMA NoPipe ==
  ASSUME LineInv, NEW p \in Procs
  PROVE  ~Is(p, "|") /\ ~Is(p, ";")
<1> SUFFICES ASSUME Is(p, "|") \/ Is(p, ";") PROVE FALSE
  OBVIOUS
<1>1. mem[p].todo \in Seq(Words) /\ mem[p].todo # <<>> /\ Head(mem[p].todo) \in {"|", ";"}
  BY DEF LineInv, Mems, Mem, Is
<1>2. Head(mem[p].todo) \in Words
  BY <1>1, HeadTailProperties
<1> QED BY <1>1, <1>2, CommandsAssumption DEF Words

LEMMA LineStep == Plain /\ LineInv /\ [Next]_vars => LineInv'
<1> SUFFICES ASSUME Plain, LineInv, [Next]_vars PROVE LineInv'
  OBVIOUS
<1>1. ASSUME NEW p \in Procs, parsecmd(p) PROVE LineInv'
  BY <1>1, NoPipe, ParseKeeps, Sleeps DEF parsecmd, pipeline, semicolon
<1>2. ASSUME NEW p \in Procs, fsipc(p) PROVE LineInv'
  BY <1>2, AskKeeps, Sleeps DEF fsipc
<1>3. ASSUME NEW p \in Procs, Step(p) PROVE LineInv'
  BY <1>1, <1>2, <1>3, RunKeeps, ExitKeeps DEF Step, Plain
<1>4. CASE UNCHANGED vars
  BY <1>4 DEF vars, LineInv, Types, Mems, OneShell, Awaited, Unanswered, RepliesAreServers
<1> QED BY <1>3, <1>4, MainKeeps, ServeKeeps DEF Next

LEMMA LineInvariant == ASSUME Plain PROVE Spec => []LineInv
BY LineInit, LineStep, PTL DEF Spec

(* fsipc takes nobody's exit status for the file server's answer: while an *)
(* env asks the server, none of its children can send. *)
THEOREM AnswersAreServers == ASSUME Plain PROVE Spec => []RepliesAreServers
<1>1. LineInv => RepliesAreServers
  BY DEF LineInv
<1> QED BY <1>1, LineInvariant, PTL

(* The types, and that the server only ever handles a request whose client *)
(* waits for the answer. *)
THEOREM CommandsTypeCorrect == ASSUME Plain PROVE Spec => []TypeOK
<1>1. LineInv => TypeOK
  BY DEF LineInv, Types, Unanswered, TypeOK, Labels
<1> QED BY <1>1, LineInvariant, PTL

-----------------------------------------------------------------------------
(* What is executed of a line of words.  Everything here is about a line w  *)
(* and what one env has in memory, so that a step leaves it true of every   *)
(* env that it does not touch.                                              *)

OpsOf(w) == {j \in DOMAIN w : w[j] \in {"&&", "||"}}
LeftIn(w, j) == w[Max({i \in 1..(j - 1) : w[i] \in Commands})]
Agrees(w, j) == Succeeds(LeftIn(w, j)) = (w[j] = "&&")
DueIn(w) == {i \in DOMAIN w : w[i] \in Commands /\ \A j \in OpsOf(w) : j < i => Agrees(w, j)}

(* A name is a built-in's or a program's. *)
Disjoint == DOMAIN Builtin \cap Programs = {}

(* A line that means to sh.c what it says: a command in front, another one  *)
(* behind each operator and nowhere else, each of another name; and no &&   *)
(* behind a command that is skipped (there sh.c goes by the status 0 of the *)
(* child that skips it).                                                    *)
Chain(w) ==
  /\ w # <<>> => w[1] \in Commands
  /\ \A i \in 1..(Len(w) - 1) : w[i + 1] \in Commands <=> i \in OpsOf(w)
  /\ \A i, k \in DOMAIN w : w[i] \in Commands /\ w[i] = w[k] => i = k
  /\ \A i \in DOMAIN w \ DueIn(w), j \in OpsOf(w) : w[i] \in Commands /\ i < j => w[j] = "||"

(* Where an env is, or goes on when its fsipc returns. *)
Phase(l, m) == IF l \in {"send", "recv", "reply"} THEN m.then ELSE l
At(x) == Phase(pc[x], mem[x])

Ended == {"none", "gone"}
Forking == {"forked", "asleep"}
Parsing == {"parse"} \cup Forking
Spawning == {"spawned", "wait"}
Running == {"leftover", "exofork"} \cup Spawning
Exiting == {"exit", "tell", "destroy"}
Waiting == Forking \cup Spawning \cup {"waiting"}

(* The command at k and the redirections that follow it, up to n. *)
Segment(w, k, n) ==
  /\ k \in 1..n /\ n \in 0..Len(w) /\ w[k] \in Commands
  /\ \A i \in (k + 1)..n : w[i] = ">"

(* The command behind n is due; the command at k is the last; v is what an  *)
(* env exits with that was to run it if it is due. *)
Go(w, n) == \A j \in OpsOf(w) : j <= n => Agrees(w, j)
IsLast(w, k) == \A i \in DOMAIN w : w[i] \in Commands => i <= k
Says(w, v, k) == v = 0 <=> (k \in DueIn(w) => Succeeds(w[k]))

(* The words an env has: none, or the command at k. *)
Bare(m) == m.argc = 0 /\ m.argv = <<>>
Has(w, m, k) == m.argc = 1 /\ k \in DOMAIN w /\ w[k] \in Commands /\ m.argv = <<w[k]>>
Holding(w, m) == \E k \in DOMAIN w : Has(w, m, k)
Spot(w, m) == CHOOSE k \in DOMAIN w : Has(w, m, k)
Read(w, m) == Len(w) - Len(m.todo)
Unread(w, m) ==
  /\ Len(m.todo) <= Len(w)
  /\ \A i \in 1..Len(m.todo) : m.todo[i] = w[Read(w, m) + i]

(* What an env at f has in memory. *)
Own(w, f, m, par) ==
  /\ f \in Parsing => par = Shell /\ Unread(w, m)
  /\ f = "parse" => /\ m.excu = Go(w, Read(w, m))
                    /\ \/ Bare(m) /\ (Read(w, m) = 0 \/ Read(w, m) \in OpsOf(w))
                       \/ Holding(w, m) /\ Segment(w, Spot(w, m), Read(w, m))
  /\ f \in Forking => Bare(m) /\ Read(w, m) + 1 \in OpsOf(w)
  /\ f \in Running => \/ Bare(m) /\ par = Shell
                      \/ /\ Holding(w, m) /\ m.excu = (Spot(w, m) \in DueIn(w))
                         /\ par = Shell => IsLast(w, Spot(w, m))
  /\ f \in Running \ {"leftover"} => Holding(w, m) /\ m.excu /\ w[Spot(w, m)] \in Programs
  /\ f = "program" => par # Shell /\ Holding(w, m) /\ Spot(w, m) \in DueIn(w)
  /\ f \in Exiting /\ par # Shell => Holding(w, m)

(* What an env at f with memory m has of its child at g with memory n: the  *)
(* child runs the command to the left of the operator, and the status it    *)
(* exits with is the message that is taken. *)
Pair(w, f, m, rec, value, g, n) ==
  /\ f \in Forking =>
       /\ Holding(w, n) /\ Segment(w, Spot(w, n), Read(w, m))
       /\ g \in Running \cup Exiting \cup {"gone"}
       /\ g \in Running => n.excu
       /\ g \in Exiting \cup {"gone"} => Says(w, n.status, Spot(w, n))
  /\ f = "forked" => g \notin {"destroy", "gone"}
  /\ f = "asleep" => /\ rec = (g \notin {"destroy", "gone"})
                     /\ ~rec => Says(w, value, Spot(w, n))
  /\ f \in Spawning => n.argv = m.argv /\ n.argc = m.argc /\ g \in {"program", "gone"} \cup Exiting

(* How far all that is due has been executed when it is the turn of an env  *)
(* at f. *)
Level(w, f, m, par) ==
  CASE f = "prompt" -> 0
    [] f \in {"waiting", "done"} -> Len(w)
    [] f = "parse" -> IF m.argc = 0 THEN Read(w, m) ELSE Spot(w, m) - 1
    [] f \in Forking -> Read(w, m)
    [] f \in {"leftover", "exofork"} -> IF m.argc = 0 THEN Len(w) ELSE Spot(w, m) - 1
    [] f \in Spawning -> Spot(w, m)
    [] f = "program" -> Spot(w, m) - 1
    [] OTHER -> IF par = Shell THEN Len(w) ELSE Spot(w, m)

(* r has the commands of w up to n that are due, in their order. *)
ByNow(w, r, n) ==
  /\ \A a \in DOMAIN r : \E i \in DueIn(w) : i <= n /\ r[a] = w[i]
  /\ \A i \in DueIn(w) : i <= n => \E a \in DOMAIN r : r[a] = w[i]
  /\ \A a, b \in DOMAIN r, i, j \in DueIn(w) : r[a] = w[i] /\ r[b] = w[j] => (i < j <=> a < b)

(* Whose turn it is: an env that has not ended and waits for none that has  *)
(* not. *)
Turn(x) == At(x) \notin Ended /\ (At(x) \in Waiting => pc[mem[x].child] = "gone")

Tied(x) ==
  LET c == mem[x].child IN
  /\ c \in Procs /\ pc[c] # "none" /\ parent[c] = x
  /\ Pair(line, At(x), mem[x], recving[x], mail[x].value, At(c), mem[c])

Owned == \A x \in Procs \ {Shell} : At(x) \notin Ended => Own(line, At(x), mem[x], parent[x])
Paired == \A x \in Procs : At(x) \in Waiting => Tied(x)
Starts == pc[Shell] = "prompt" => Bare(mem[Shell]) /\ mem[Shell].excu = TRUE
Orphan == \A x \in Procs : parent[x] # x
Dozing == \A x \in Procs : recving[x] => pc[x] \in {"asleep", "reply"}
OneTurn == \A x, y \in Procs : Turn(x) /\ Turn(y) => x = y
SoFar == \A x \in Procs : Turn(x) => ByNow(line, ran, Level(line, At(x), mem[x], parent[x]))

RunInv == Owned /\ Paired /\ Starts /\ Orphan /\ Dozing /\ OneTurn /\ SoFar

-----------------------------------------------------------------------------
(* Lines. *)

LEMMA Tokens ==
  ASSUME NEW w \in Seq(Words)
  PROVE  /\ Len(w) \in Nat /\ DOMAIN w = 1..Len(w) /\ \A i \in DOMAIN w : w[i] \in Words
         /\ \A i \in DOMAIN w : w[i] \in Commands => i \notin OpsOf(w) /\ w[i] # ">"
         /\ \A i \in OpsOf(w) : w[i] # ">"
         /\ OpsOf(w) \subseteq 1..Len(w) /\ DueIn(w) \subseteq 1..Len(w)
<1>1. Len(w) \in Nat /\ DOMAIN w = 1..Len(w) /\ \A i \in DOMAIN w : w[i] \in Words
  OBVIOUS
<1>2. \A c \in Commands : c \notin {"&&", "||", ">"}
  BY CommandsAssumption
<1>3. \A i \in DOMAIN w : w[i] \in Commands => i \notin OpsOf(w) /\ w[i] # ">"
  BY <1>2 DEF OpsOf
<1>4. \A i \in OpsOf(w) : w[i] # ">"
  BY DEF OpsOf
<1> QED BY <1>1, <1>3, <1>4 DEF OpsOf, DueIn

LEMMA MaxIs ==
  ASSUME NEW S \in SUBSET Int, NEW x \in S, \A y \in S : y <= x
  PROVE  Max(S) = x
<1>1. x \in S /\ \A y \in S : x >= y
  OBVIOUS
<1>2. Max(S) \in S /\ \A y \in S : Max(S) >= y
  BY <1>1 DEF Max
<1>3. Max(S) \in Int /\ x \in Int /\ Max(S) <= x /\ x <= Max(S)
  BY <1>2
<1> HIDE DEF Max
<1> QED BY <1>3

LEMMA Greatest ==
  ASSUME NEW n \in Nat, NEW S \in SUBSET (1..n), S # {}
  PROVE  Max(S) \in S /\ \A y \in S : y <= Max(S)
<1> DEFINE R == {ss \in Nat \X Nat : ss[1] < ss[2]}
           T == {n - y : y \in S}
<1>1. T \subseteq Nat /\ T # {}
  <2>1. \A y \in S : n - y \in Nat
    OBVIOUS
  <2>2. PICK y \in S : TRUE
    OBVIOUS
  <2>3. n - y \in T
    OBVIOUS
  <2> QED BY <2>1, <2>3
<1>2. PICK t \in T : \A u \in T : ~(<<u, t>> \in R)
  <2> HIDE DEF T, R
  <2>1. IsWellFoundedOn(R, Nat)
    BY NatLessThanWellFounded, Zenon DEF R, OpToRel
  <2> QED BY <1>1, <2>1, WFMin
<1>3. PICK x \in S : t = n - x
  OBVIOUS
<1>4. ASSUME NEW y \in S PROVE y <= x
  <2>1. n - y \in T /\ n - y \in Nat /\ n - x \in Nat
    OBVIOUS
  <2>2. ~(n - y < n - x)
    BY <1>2, <1>3, <2>1
  <2> QED BY <2>2
<1>5. Max(S) = x
  <2>1. S \in SUBSET Int
    OBVIOUS
  <2> HIDE DEF R, T
  <2> QED BY <1>4, <2>1, MaxIs
<1> HIDE DEF R, T
<1> QED BY <1>4, <1>5

(* The command of a segment is the one to the left of the operator behind. *)
LEMMA SegmentLeft ==
  ASSUME NEW w \in Seq(Words), NEW k, NEW n, Segment(w, k, n)
  PROVE  LeftIn(w, n + 1) = w[k]
<1>1. Len(w) \in Nat /\ DOMAIN w = 1..Len(w) /\ n \in Nat /\ k \in Nat
  BY Tokens DEF Segment
<1>2. Max({i \in 1..n : w[i] \in Commands}) = k
  <2> DEFINE S == {i \in 1..n : w[i] \in Commands}
  <2>1. S \in SUBSET Int /\ k \in S
    BY <1>1 DEF Segment
  <2>2. ASSUME NEW y \in S PROVE y <= k
    <3>1. ~(y \in (k + 1)..n)
      BY CommandsAssumption DEF Segment
    <3> QED BY <1>1, <3>1
  <2> HIDE DEF S
  <2>3. Max(S) = k
    BY <2>1, <2>2, MaxIs
  <2> QED BY <2>3 DEF S
<1>3. (n + 1) - 1 = n
  BY <1>1
<1> QED BY <1>2, <1>3 DEF LeftIn

(* Behind the command of a segment no other follows without an operator. *)
LEMMA SegmentNext ==
  ASSUME NEW w \in Seq(Words), Chain(w), NEW k, NEW n, Segment(w, k, n)
  PROVE  /\ n \notin OpsOf(w)
         /\ n < Len(w) => w[n + 1] \notin Commands
<1>1. Len(w) \in Nat /\ DOMAIN w = 1..Len(w) /\ n \in Nat /\ k \in Nat
  BY Tokens DEF Segment
<1>2. n \notin OpsOf(w)
  <2>1. CASE n = k
    BY <1>1, <2>1, Tokens DEF Segment
  <2>2. CASE n # k
    <3>1. w[n] = ">"
      BY <1>1, <2>2 DEF Segment
    <3> QED BY <3>1, Tokens
  <2> QED BY <2>1, <2>2
<1>3. ASSUME n < Len(w) PROVE w[n + 1] \in Commands <=> n \in OpsOf(w)
  BY <1>1, <1>3 DEF Chain, Segment
<1> QED BY <1>2, <1>3

LEMMA SegmentDue ==
  ASSUME NEW w \in Seq(Words), NEW k, NEW n, Segment(w, k, n)
  PROVE  Go(w, n) = (k \in DueIn(w))
<1>1. Len(w) \in Nat /\ DOMAIN w = 1..Len(w) /\ n \in Nat /\ k \in Nat /\ k <= n
  BY Tokens DEF Segment
<1>2. ASSUME NEW j \in OpsOf(w), j <= n PROVE j < k
  <2>1. j # k
    BY <1>1, Tokens DEF Segment
  <2>2. ~(j \in (k + 1)..n)
    BY Tokens DEF Segment
  <2>3. j \in Nat
    BY Tokens
  <2> QED BY <1>1, <1>2, <2>1, <2>2, <2>3
<1>3. \A j \in OpsOf(w) : j < k <=> j <= n
  BY <1>1, <1>2, Tokens
<1>4. k \in DOMAIN w /\ w[k] \in Commands
  BY <1>1 DEF Segment
<1>5. k \in DueIn(w) <=> \A j \in OpsOf(w) : j < k => Agrees(w, j)
  BY <1>4 DEF DueIn
<1>6. Go(w, n) <=> k \in DueIn(w)
  BY <1>3, <1>5 DEF Go
<1>7. Go(w, n) \in BOOLEAN
  BY DEF Go
<1>8. (k \in DueIn(w)) \in BOOLEAN
  OBVIOUS
<1> QED BY <1>6, <1>7, <1>8

(* One command is in one place. *)
LEMMA Spots ==
  ASSUME NEW w, Chain(w), NEW m
  PROVE  /\ \A k : Has(w, m, k) => Spot(w, m) = k /\ Holding(w, m)
         /\ Holding(w, m) => Has(w, m, Spot(w, m))
<1>1. ASSUME NEW i, NEW k, Has(w, m, i), Has(w, m, k) PROVE i = k
  <2>1. w[i] = w[k]
    BY <1>1 DEF Has
  <2> QED BY <1>1, <2>1 DEF Has, Chain
<1>2. Holding(w, m) => Has(w, m, Spot(w, m))
  BY DEF Holding, Spot
<1>3. ASSUME NEW k, Has(w, m, k) PROVE Spot(w, m) = k /\ Holding(w, m)
  <2>1. Holding(w, m)
    BY <1>3 DEF Holding, Has
  <2> QED BY <1>1, <1>2, <1>3, <2>1
<1> QED BY <1>2, <1>3

(* Only argc and argv say what an env holds. *)
LEMMA SameWords ==
  ASSUME NEW w, NEW m, NEW n, n.argc = m.argc, n.argv = m.argv
  PROVE  Spot(w, n) = Spot(w, m) /\ (Holding(w, n) <=> Holding(w, m)) /\ (Bare(n) <=> Bare(m))
<1>1. \A k : Has(w, n, k) <=> Has(w, m, k)
  BY DEF Has
<1>2. Spot(w, n) = Spot(w, m)
  BY <1>1 DEF Spot
<1> QED BY <1>1, <1>2 DEF Holding, Bare

LEMMA NowMoves ==
  ASSUME NEW w, NEW r, NEW n, NEW o, ByNow(w, r, n), \A i \in DueIn(w) : i <= n <=> i <= o
  PROVE  ByNow(w, r, o)
BY DEF ByNow

LEMMA NowAppends ==
  ASSUME NEW w \in Seq(Words), Chain(w), NEW r \in Seq(Commands), NEW k \in DueIn(w), ByNow(w, r, k - 1)
  PROVE  ByNow(w, Append(r, w[k]), k)
<1> DEFINE s == Append(r, w[k])
           D == DueIn(w)
<1>1. D \subseteq Nat /\ \A i \in D : i \in DOMAIN w /\ w[i] \in Commands
  BY Tokens DEF DueIn
<1>2. w[k] \in Commands /\ Len(r) \in Nat /\ DOMAIN r = 1..Len(r)
  BY <1>1
<1>3. /\ DOMAIN s = 1..(Len(r) + 1) /\ s[Len(r) + 1] = w[k]
      /\ \A a \in DOMAIN r : a \in DOMAIN s /\ s[a] = r[a]
      /\ \A a \in DOMAIN s : a \in DOMAIN r \/ a = Len(r) + 1
  BY <1>2, AppendProperties
<1>4. \A i, j \in D : w[i] = w[j] => i = j
  BY <1>1 DEF Chain
<1>5. /\ \A a \in DOMAIN r : \E i \in D : i <= k - 1 /\ r[a] = w[i]
      /\ \A i \in D : i <= k - 1 => \E a \in DOMAIN r : r[a] = w[i]
      /\ \A a, b \in DOMAIN r, i, j \in D : r[a] = w[i] /\ r[b] = w[j] => (i < j <=> a < b)
  BY DEF ByNow
<1> HIDE DEF s, D
<1>6. k \in D
  BY DEF D
<1>7. ASSUME NEW a \in DOMAIN s PROVE \E i \in D : i <= k /\ s[a] = w[i]
  <2>1. CASE a \in DOMAIN r
    <3>1. PICK i \in D : i <= k - 1 /\ r[a] = w[i]
      BY <1>5, <2>1
    <3>2. i <= k
      BY <1>1, <1>6, <3>1
    <3> QED BY <1>3, <2>1, <3>1, <3>2
  <2>2. CASE a = Len(r) + 1
    BY <1>1, <1>3, <1>6, <2>2
  <2> QED BY <1>3, <2>1, <2>2
<1>8. ASSUME NEW i \in D, i <= k PROVE \E a \in DOMAIN s : s[a] = w[i]
  <2>1. CASE i = k
    BY <1>2, <1>3, <2>1
  <2>2. CASE i # k
    <3>1. i <= k - 1
      BY <1>1, <1>6, <1>8, <2>2
    <3> QED BY <1>3, <1>5, <3>1
  <2> QED BY <2>1, <2>2
<1>9. ASSUME NEW a \in DOMAIN r, NEW i \in D, s[a] = w[i] PROVE i < k
  <2>1. PICK j \in D : j <= k - 1 /\ r[a] = w[j]
    BY <1>5
  <2>2. i = j
    BY <1>3, <1>4, <1>9, <2>1
  <2> QED BY <1>1, <1>6, <2>1, <2>2
<1>10. ASSUME NEW a \in DOMAIN s, NEW b \in DOMAIN s, NEW i \in D, NEW j \in D, s[a] = w[i], s[b] = w[j]
       PROVE  i < j <=> a < b
  <2>1. CASE a \in DOMAIN r /\ b \in DOMAIN r
    BY <1>3, <1>5, <1>10, <2>1
  <2>2. CASE a \in DOMAIN r /\ b = Len(r) + 1
    <3>1. j = k /\ i < k
      BY <1>3, <1>4, <1>6, <1>9, <1>10, <2>2
    <3> QED BY <1>2, <2>2, <3>1
  <2>3. CASE a = Len(r) + 1 /\ b \in DOMAIN r
    <3>1. i = k /\ j < k
      BY <1>3, <1>4, <1>6, <1>9, <1>10, <2>3
    <3> QED BY <1>1, <1>2, <1>6, <2>3, <3>1
  <2>4. CASE a = Len(r) + 1 /\ b = Len(r) + 1
    <3>1. i = k /\ j = k
      BY <1>3, <1>4, <1>6, <1>10, <2>4
    <3> QED BY <1>1, <1>2, <1>6, <2>4, <3>1
  <2> QED BY <1>3, <2>1, <2>2, <2>3, <2>4
<1>11. ByNow(w, s, k)
  BY <1>7, <1>8, <1>10 DEF ByNow, D
<1> QED BY <1>11 DEF s

-----------------------------------------------------------------------------
(* Steps. *)

LEMMA Phases ==
  ASSUME NEW l \in Labels, NEW m, Mem(l, m)
  PROVE  /\ Phase(l, m) \in Labels \ {"send", "recv", "reply"}
         /\ IF l \in {"send", "recv", "reply"}
              THEN Phase(l, m) = m.then /\ Phase(l, m) \in {"parse", "exofork", "wait", "tell"}
              ELSE Phase(l, m) = l
         /\ Phase(l, m) \in Waiting <=> Awaits(l, m)
BY DEF Mem, Phase, Labels, Waiting, Forking, Spawning, Awaits

LEMMA Places ==
  ASSUME LineInv, NEW x \in Procs
  PROVE  /\ At(x) \in Labels \ {"send", "recv", "reply"}
         /\ At(x) # pc[x] => pc[x] \in {"send", "recv", "reply"} /\ At(x) \in {"parse", "exofork", "wait", "tell"}
         /\ At(x) \in Waiting <=> Awaits(pc[x], mem[x])
         /\ DOMAIN mem[x] = Fields /\ mem[x].todo \in Seq(Words)
         /\ x = Shell <=> At(x) \in {"prompt", "waiting", "done"}
<1>1. pc[x] \in Labels /\ Mem(pc[x], mem[x])
      /\ (x = Shell <=> pc[x] \in {"prompt", "waiting", "done"})
  BY DEF LineInv, Types, Mems, OneShell
<1>2. DOMAIN mem[x] = Fields /\ mem[x].todo \in Seq(Words)
  BY <1>1 DEF Mem
<1> QED BY <1>1, <1>2, Phases DEF At

(* What of its memory says where an env is. *)
Alike(m, n) ==
  /\ n.todo = m.todo /\ n.argv = m.argv /\ n.argc = m.argc
  /\ n.excu = m.excu /\ n.status = m.status

LEMMA SameMemory ==
  ASSUME NEW w, NEW m, NEW n, Alike(m, n), NEW f, NEW par
  PROVE  /\ Own(w, f, m, par) => Own(w, f, n, par)
         /\ Level(w, f, n, par) = Level(w, f, m, par)
         /\ \A rec, value, g, o : /\ Pair(w, f, m, rec, value, g, o) => Pair(w, f, n, rec, value, g, o)
                                  /\ Pair(w, g, o, rec, value, f, m) => Pair(w, g, o, rec, value, f, n)
<1>1. /\ Spot(w, n) = Spot(w, m) /\ (Holding(w, n) <=> Holding(w, m)) /\ (Bare(n) <=> Bare(m))
      /\ n.todo = m.todo /\ n.argv = m.argv /\ n.argc = m.argc /\ n.excu = m.excu /\ n.status = m.status
  BY SameWords DEF Alike
<1>2. Read(w, n) = Read(w, m) /\ (Unread(w, m) => Unread(w, n))
  BY <1>1 DEF Read, Unread
<1>3. Own(w, f, m, par) => Own(w, f, n, par)
  BY <1>1, <1>2 DEF Own
<1>4. Level(w, f, n, par) = Level(w, f, m, par)
  BY <1>1, <1>2 DEF Level
<1>5. ASSUME NEW rec, NEW value, NEW g, NEW o, Pair(w, f, m, rec, value, g, o)
      PROVE  Pair(w, f, n, rec, value, g, o)
  BY <1>1, <1>2, <1>5 DEF Pair
<1>6. ASSUME NEW rec, NEW value, NEW g, NEW o, Pair(w, g, o, rec, value, f, m)
      PROVE  Pair(w, g, o, rec, value, f, n)
  BY <1>1, <1>2, <1>6 DEF Pair
<1> QED BY <1>3, <1>4, <1>5, <1>6

(* An env goes on by itself, to l with memory m, and that is as it should   *)
(* be: for its own sake, for its child's and for its parent's, and if it is *)
(* its turn, for what has been executed.                                    *)
GoesOn(p, l, m, f) ==
  /\ pc' = [pc EXCEPT ![p] = l] /\ mem' = [mem EXCEPT ![p] = m] /\ UNCHANGED <<line, parent>>
  /\ f = Phase(l, m) /\ f \notin Ended /\ l \notin Ended /\ l # "prompt"
  /\ p # Shell => Own(line, f, m, parent[p])
  /\ f \in Waiting =>
       /\ At(p) \in Waiting /\ m.child = mem[p].child
       /\ Pair(line, f, m, recving'[p], mail'[p].value, At(m.child), mem[m.child])
  /\ \A q \in Procs : q # p /\ At(q) \in Waiting =>
       IF mem[q].child = p THEN Pair(line, At(q), mem[q], recving'[q], mail'[q].value, f, m)
       ELSE recving'[q] = recving[q] /\ mail'[q] = mail[q]
  /\ \A q \in Procs : recving'[q] => IF q = p THEN l \in {"asleep", "reply"} ELSE recving[q]
  /\ (f \in Waiting => pc[m.child] = "gone") =>
       Turn(p) /\ ByNow(line, ran', Level(line, f, m, parent[p]))
  /\ ran' = ran \/ Turn(p)

LEMMA RunMoves ==
  ASSUME LineInv, RunInv, NEW p \in Procs, pc[p] \notin Ended, NEW l \in Labels, NEW m, NEW f,
         GoesOn(p, l, m, f)
  PROVE  RunInv'
<1> USE DEF GoesOn
<1>1. Types /\ mem = [x \in Procs |-> mem[x]] /\ pc \in [Procs -> Labels]
  BY DEF LineInv, Types
<1>2. /\ pc'[p] = l /\ mem'[p] = m
      /\ \A q \in Procs : q # p => pc'[q] = pc[q] /\ mem'[q] = mem[q]
  BY <1>1
<1>3. At(p)' = f /\ \A q \in Procs : q # p => At(q)' = At(q)
  BY <1>2 DEF At
<1>4. Owned /\ Paired /\ Starts /\ Orphan /\ Dozing /\ OneTurn /\ SoFar
  BY DEF RunInv
<1>5. Owned'
  <2>1. ASSUME NEW x \in Procs \ {Shell}, At(x)' \notin Ended
        PROVE  Own(line', At(x)', mem'[x], parent'[x])
    <3>1. CASE x = p
      BY <1>2, <1>3, <2>1, <3>1
    <3>2. CASE x # p
      <4>1. Own(line, At(x), mem[x], parent[x])
        BY <1>3, <1>4, <2>1, <3>2 DEF Owned
      <4> QED BY <1>2, <1>3, <3>2, <4>1
    <3> QED BY <3>1, <3>2
  <2> QED BY <2>1 DEF Owned
<1>6. Paired'
  <2>1. ASSUME NEW x \in Procs, At(x)' \in Waiting, NEW c, c = mem'[x].child
        PROVE  /\ c \in Procs /\ pc'[c] # "none" /\ parent'[c] = x
               /\ Pair(line', At(x)', mem'[x], recving'[x], mail'[x].value, At(c)', mem'[c])
    <3>1. At(x) \in Waiting /\ c = mem[x].child
      BY <1>2, <1>3, <2>1
    <3>2. /\ c \in Procs /\ pc[c] # "none" /\ parent[c] = x /\ c # x
          /\ Pair(line, At(x), mem[x], recving[x], mail[x].value, At(c), mem[c])
      BY <1>4, <3>1 DEF Paired, Tied, Orphan
    <3>3. pc'[c] # "none"
      BY <1>2, <3>2 DEF Ended
    <3>4. CASE x = p
      BY <1>2, <1>3, <2>1, <3>2, <3>3, <3>4
    <3>5. CASE x # p /\ c = p
      <4>1. Pair(line, At(x), mem[x], recving'[x], mail'[x].value, f, m)
        BY <3>1, <3>5
      <4>2. At(x)' = At(x) /\ mem'[x] = mem[x] /\ At(c)' = f /\ mem'[c] = m
        BY <1>2, <1>3, <3>5
      <4>3. Pair(line', At(x)', mem'[x], recving'[x], mail'[x].value, At(c)', mem'[c])
        BY <4>1, <4>2
      <4> QED BY <3>2, <3>3, <4>3
    <3>6. CASE x # p /\ c # p
      BY <1>2, <1>3, <3>1, <3>2, <3>3, <3>6
    <3> QED BY <3>4, <3>5, <3>6
  <2> QED BY <2>1 DEF Paired, Tied
<1>7. Starts' /\ Orphan' /\ Dozing'
  <2>1. Starts'
    BY <1>2, <1>4, Names DEF Starts
  <2>2. Orphan' /\ Dozing'
    BY <1>2, <1>4 DEF Orphan, Dozing
  <2> QED BY <2>1, <2>2
<1>8. ASSUME NEW x \in Procs, Turn(x)'
      PROVE  /\ Turn(x)
             /\ (x = p /\ f \in Waiting) => pc[m.child] = "gone"
  <2>1. At(x)' \notin Ended /\ (At(x)' \in Waiting => pc'[mem'[x].child] = "gone")
    BY <1>8 DEF Turn
  <2>2. CASE x = p
    <3>1. ASSUME f \in Waiting PROVE pc[m.child] = "gone"
      <4>1. m.child \in Procs
        BY <1>4, <3>1 DEF Paired, Tied
      <4>2. pc'[m.child] = "gone"
        BY <1>2, <1>3, <2>1, <2>2, <3>1
      <4> QED BY <1>2, <4>1, <4>2 DEF Ended
    <3> QED BY <2>2, <3>1
  <2>3. CASE x # p
    <3>1. ASSUME At(x) \in Waiting PROVE pc[mem[x].child] = "gone"
      <4>1. mem[x].child \in Procs
        BY <1>4, <3>1 DEF Paired, Tied
      <4>2. pc'[mem[x].child] = "gone"
        BY <1>2, <1>3, <2>1, <2>3, <3>1
      <4> QED BY <1>2, <4>1, <4>2 DEF Ended
    <3> QED BY <1>3, <2>1, <2>3, <3>1 DEF Turn
  <2> QED BY <2>2, <2>3
<1>9. OneTurn'
  BY <1>4, <1>8 DEF OneTurn
<1>10. SoFar'
  <2>1. ASSUME NEW x \in Procs, Turn(x)'
        PROVE  ByNow(line', ran', Level(line', At(x)', mem'[x], parent'[x]))
    <3>1. CASE x = p
      BY <1>2, <1>3, <1>8, <2>1, <3>1
    <3>2. CASE x # p
      <4>1. ran' = ran /\ ByNow(line, ran, Level(line, At(x), mem[x], parent[x]))
        BY <1>4, <1>8, <2>1, <3>2 DEF OneTurn, SoFar
      <4> QED BY <1>2, <1>3, <3>2, <4>1
    <3> QED BY <3>1, <3>2
  <2> QED BY <2>1 DEF SoFar
<1> QED BY <1>5, <1>6, <1>7, <1>9, <1>10 DEF RunInv

(* An env whose turn it is creates another and waits for it. *)
LEMMA RunForks ==
  ASSUME LineInv, RunInv, Spare, NEW p \in Procs, NEW l \in {"forked", "spawned", "waiting"}, NEW m,
         NEW lc \in {"parse", "leftover", "exit", "program"}, NEW mc,
         fork(p, l, m, New, lc, mc), ran' = ran, m.child = New,
         pc[p] \notin {"none", "gone", "asleep", "reply"}, At(p) \notin Waiting \cup Ended,
         p # Shell => Own(line, l, m, parent[p]),
         Own(line, lc, mc, p),
         Pair(line, l, m, recving[p], mail[p].value, lc, mc),
         \A q \in Procs : q # p /\ At(q) \in Waiting /\ mem[q].child = p =>
           Pair(line, At(q), mem[q], recving[q], mail[q].value, l, m),
         ByNow(line, ran, Level(line, lc, mc, p))
  PROVE  RunInv'
<1>1. Types /\ mem = [x \in Procs |-> mem[x]] /\ pc \in [Procs -> Labels]
  BY DEF LineInv, Types
<1>2. PICK c \in Procs : c = New /\ pc[c] = "none" /\ c # p /\ m.child = c
  BY NewIsNone
<1>3. /\ pc' = [pc EXCEPT ![p] = l, ![c] = lc] /\ mem' = [mem EXCEPT ![p] = m, ![c] = mc]
      /\ parent' = [parent EXCEPT ![c] = p] /\ parent \in [Procs -> {FS} \cup Procs]
      /\ UNCHANGED <<line, recving, mail>> /\ ran' = ran
      /\ Pair(line, l, m, recving[p], mail[p].value, lc, mc)
  BY <1>1, <1>2 DEF fork, ipc, Types
<1>4. c # Shell
  BY <1>2, Names DEF LineInv, OneShell
<1>5. /\ pc'[p] = l /\ mem'[p] = m /\ pc'[c] = lc /\ mem'[c] = mc /\ parent'[c] = p
      /\ \A q \in Procs : q # p /\ q # c => pc'[q] = pc[q] /\ mem'[q] = mem[q]
      /\ \A q \in Procs : q # c => parent'[q] = parent[q]
  BY <1>1, <1>2, <1>3
<1>6. /\ At(p)' = l /\ At(c)' = lc /\ \A q \in Procs : q # p /\ q # c => At(q)' = At(q)
      /\ l \in Waiting /\ lc \notin Waiting \cup Ended
  <2>1. /\ Phase(l, m) = l /\ Phase(lc, mc) = lc
        /\ l \in Waiting /\ lc \notin Waiting \cup Ended
    BY DEF Phase, Waiting, Forking, Spawning, Ended
  <2>2. \A q \in Procs : q # p /\ q # c => At(q)' = At(q)
    BY <1>5 DEF At
  <2>3. At(p)' = Phase(pc'[p], mem'[p]) /\ At(c)' = Phase(pc'[c], mem'[c])
    BY DEF At
  <2> QED BY <1>5, <2>1, <2>2, <2>3
<1>7. Owned /\ Paired /\ Starts /\ Orphan /\ Dozing /\ OneTurn /\ SoFar
  BY DEF RunInv
<1>8. Owned'
  <2>1. ASSUME NEW x \in Procs \ {Shell}, At(x)' \notin Ended
        PROVE  Own(line', At(x)', mem'[x], parent'[x])
    <3>1. CASE x = p
      BY <1>5, <1>6, <1>2, <1>3, <2>1, <3>1
    <3>2. CASE x = c
      <4>1. At(x)' = lc /\ mem'[x] = mc /\ parent'[x] = p /\ line' = line
        BY <1>5, <1>6, <1>3, <3>2
      <4> QED BY <4>1
    <3>3. CASE x # p /\ x # c
      <4>1. Own(line, At(x), mem[x], parent[x])
        BY <1>6, <1>7, <2>1, <3>3 DEF Owned
      <4> QED BY <1>5, <1>6, <1>3, <3>3, <4>1
    <3> QED BY <3>1, <3>2, <3>3
  <2> QED BY <2>1 DEF Owned
<1>9. Paired'
  <2>1. ASSUME NEW x \in Procs, At(x)' \in Waiting, NEW d, d = mem'[x].child
        PROVE  /\ d \in Procs /\ pc'[d] # "none" /\ parent'[d] = x
               /\ Pair(line', At(x)', mem'[x], recving'[x], mail'[x].value, At(d)', mem'[d])
    <3>1. CASE x = p
      <4>1. d = c
        BY <1>5, <1>2, <2>1, <3>1
      <4>2. /\ c \in Procs /\ pc'[c] # "none" /\ parent'[c] = p
            /\ At(p)' = l /\ mem'[p] = m /\ At(c)' = lc /\ mem'[c] = mc
            /\ line' = line /\ recving' = recving /\ mail' = mail
        BY <1>5, <1>6, <1>2, <1>3
      <4>3. Pair(line', At(p)', mem'[p], recving'[p], mail'[p].value, At(c)', mem'[c])
        BY <1>3, <4>2
      <4> QED BY <3>1, <4>1, <4>2, <4>3
    <3>2. CASE x # p
      <4>1. x # c
        <5>1. At(c)' \notin Waiting
          BY <1>6
        <5> QED BY <2>1, <5>1
      <4>2. At(x) \in Waiting /\ d = mem[x].child
        BY <1>5, <1>6, <2>1, <3>2, <4>1
      <4>3. /\ d \in Procs /\ pc[d] # "none" /\ parent[d] = x /\ d # c
            /\ Pair(line, At(x), mem[x], recving[x], mail[x].value, At(d), mem[d])
        BY <1>7, <1>2, <4>2 DEF Paired, Tied
      <4>4. CASE d = p
        <5>1. Pair(line, At(x), mem[x], recving[x], mail[x].value, l, m)
          BY <3>2, <4>2, <4>4
        <5>2. /\ At(x)' = At(x) /\ mem'[x] = mem[x] /\ At(d)' = l /\ mem'[d] = m
              /\ line' = line /\ recving' = recving /\ mail' = mail
          BY <1>5, <1>6, <1>3, <3>2, <4>1, <4>4
        <5>3. Pair(line', At(x)', mem'[x], recving'[x], mail'[x].value, At(d)', mem'[d])
          BY <5>1, <5>2
        <5>4. pc'[d] # "none" /\ parent'[d] = x
          BY <1>5, <4>3, <4>4
        <5> QED BY <4>3, <5>3, <5>4
      <4>5. CASE d # p
        BY <1>5, <1>6, <1>3, <3>2, <4>1, <4>3, <4>5
      <4> QED BY <4>4, <4>5
    <3> QED BY <3>1, <3>2
  <2> QED BY <2>1 DEF Paired, Tied
<1>10. Starts' /\ Orphan' /\ Dozing'
  <2>1. Starts'
    BY <1>5, <1>7, <1>4, Names DEF Starts
  <2>2. Orphan'
    BY <1>5, <1>7, <1>2 DEF Orphan
  <2>3. Dozing'
    BY <1>5, <1>7, <1>2, <1>3 DEF Dozing
  <2> QED BY <2>1, <2>2, <2>3
<1>11. Turn(p)
  BY DEF Turn
<1>12. ASSUME NEW x \in Procs, Turn(x)' PROVE x = c
  <2>1. At(x)' \notin Ended /\ (At(x)' \in Waiting => pc'[mem'[x].child] = "gone")
    BY <1>12 DEF Turn
  <2>2. x # p
    BY <1>5, <1>6, <1>2, <2>1
  <2>3. ASSUME x # c PROVE FALSE
    <3>1. ASSUME At(x) \in Waiting PROVE pc[mem[x].child] = "gone"
      <4>1. mem[x].child \in Procs /\ mem[x].child # c
        BY <1>7, <1>2, <3>1 DEF Paired, Tied
      <4>2. pc'[mem[x].child] = "gone"
        BY <1>5, <1>6, <2>1, <2>2, <2>3, <3>1
      <4> QED BY <1>5, <4>1, <4>2
    <3>2. Turn(x)
      BY <1>6, <2>1, <2>2, <2>3, <3>1 DEF Turn
    <3> QED BY <1>7, <1>11, <2>2, <3>2 DEF OneTurn
  <2> QED BY <2>3
<1>13. OneTurn'
  BY <1>12 DEF OneTurn
<1>14. SoFar'
  <2>1. ASSUME NEW x \in Procs, Turn(x)'
        PROVE  ByNow(line', ran', Level(line', At(x)', mem'[x], parent'[x]))
    <3>1. x = c
      BY <1>12, <2>1
    <3>2. At(x)' = lc /\ mem'[x] = mc /\ parent'[x] = p /\ line' = line /\ ran' = ran
      BY <1>5, <1>6, <1>3, <3>1
    <3> QED BY <3>2
  <2> QED BY <2>1 DEF SoFar
<1> QED BY <1>8, <1>9, <1>10, <1>13, <1>14 DEF RunInv

(* An env whose turn it is goes on, and waits for nobody. *)
LEMMA RunGoes ==
  ASSUME LineInv, RunInv, NEW p \in Procs, NEW l \in Labels \ Ended, NEW m, NEW f, f = Phase(l, m),
         pc' = [pc EXCEPT ![p] = l], mem' = [mem EXCEPT ![p] = m],
         UNCHANGED <<line, parent, recving, mail>>,
         l # "prompt", f \notin Ended \cup Waiting, pc[p] \notin Ended, ~recving[p], Turn(p),
         p # Shell => Own(line, f, m, parent[p]),
         \A q \in Procs : q # p /\ At(q) \in Waiting /\ mem[q].child = p =>
           Pair(line, At(q), mem[q], recving[q], mail[q].value, f, m),
         ByNow(line, ran', Level(line, f, m, parent[p]))
  PROVE  RunInv'
<1>1. \A q \in Procs : q # p /\ At(q) \in Waiting =>
        IF mem[q].child = p THEN Pair(line, At(q), mem[q], recving'[q], mail'[q].value, f, m)
        ELSE recving'[q] = recving[q] /\ mail'[q] = mail[q]
  OBVIOUS
<1>2. \A q \in Procs : recving'[q] => IF q = p THEN l \in {"asleep", "reply"} ELSE recving[q]
  OBVIOUS
<1>3. GoesOn(p, l, m, f)
  BY <1>1, <1>2 DEF GoesOn
<1> QED BY <1>3, RunMoves

(* Where nothing is said of the env but by its group. *)
Kin(f, g) == f = g \/ (g = "exit" /\ f = "tell") \/ (g = "spawned" /\ f = "wait")

LEMMA SameGroup ==
  ASSUME NEW w, NEW m, NEW f, NEW g, Kin(f, g), NEW par
  PROVE  /\ Own(w, g, m, par) => Own(w, f, m, par)
         /\ Level(w, f, m, par) = Level(w, g, m, par)
         /\ f \in Waiting <=> g \in Waiting
         /\ \A rec, value, h, o : /\ Pair(w, g, m, rec, value, h, o) => Pair(w, f, m, rec, value, h, o)
                                  /\ Pair(w, h, o, rec, value, g, m) => Pair(w, h, o, rec, value, f, m)
<1> USE DEF Forking, Parsing, Spawning, Running, Exiting, Waiting
<1>1. CASE f = g
  BY <1>1
<1>2. CASE g = "exit" /\ f = "tell"
  <2>1. (Own(w, g, m, par) => Own(w, f, m, par)) /\ (f \in Waiting <=> g \in Waiting)
    BY <1>2 DEF Own
  <2>2. Level(w, f, m, par) = Level(w, g, m, par)
    BY <1>2 DEF Level
  <2>3. ASSUME NEW rec, NEW value, NEW h, NEW o
        PROVE  /\ Pair(w, g, m, rec, value, h, o) => Pair(w, f, m, rec, value, h, o)
               /\ Pair(w, h, o, rec, value, g, m) => Pair(w, h, o, rec, value, f, m)
    BY <1>2 DEF Pair
  <2> QED BY <2>1, <2>2, <2>3
<1>3. CASE g = "spawned" /\ f = "wait"
  <2>1. (Own(w, g, m, par) => Own(w, f, m, par)) /\ (f \in Waiting <=> g \in Waiting)
    BY <1>3 DEF Own
  <2>2. Level(w, f, m, par) = Level(w, g, m, par)
    BY <1>3 DEF Level
  <2>3. ASSUME NEW rec, NEW value, NEW h, NEW o
        PROVE  /\ Pair(w, g, m, rec, value, h, o) => Pair(w, f, m, rec, value, h, o)
               /\ Pair(w, h, o, rec, value, g, m) => Pair(w, h, o, rec, value, f, m)
    BY <1>3 DEF Pair
  <2> QED BY <2>1, <2>2, <2>3
<1> QED BY <1>1, <1>2, <1>3 DEF Kin

(* A step that leaves an env in its group, and changes nobody's mailbox but *)
(* its own. *)
LEMMA RunStays ==
  ASSUME LineInv, RunInv, NEW p \in Procs, NEW l \in Labels \ Ended, NEW m, Mem(l, m), NEW f, f = Phase(l, m),
         pc' = [pc EXCEPT ![p] = l], mem' = [mem EXCEPT ![p] = m],
         UNCHANGED <<line, parent, ran>>, pc[p] \notin Ended, l # "prompt",
         Kin(f, At(p)), At(p) # "asleep", Alike(mem[p], m), m.child = mem[p].child,
         \A q \in Procs : q # p => recving'[q] = recving[q] /\ mail'[q] = mail[q],
         recving'[p] => l \in {"asleep", "reply"}
  PROVE  RunInv'
<1>1. Owned /\ Paired /\ SoFar
  BY DEF RunInv
<1>2. f \notin Ended
  BY Phases DEF Ended
<1>3. At(p) \notin Ended
  BY Places DEF Ended
<1>4. /\ Own(line, At(p), mem[p], parent[p]) => Own(line, f, m, parent[p])
      /\ Level(line, f, m, parent[p]) = Level(line, At(p), mem[p], parent[p])
      /\ f \in Waiting <=> At(p) \in Waiting
  <2>1. /\ Own(line, At(p), mem[p], parent[p]) => Own(line, At(p), m, parent[p])
        /\ Level(line, At(p), m, parent[p]) = Level(line, At(p), mem[p], parent[p])
    BY SameMemory
  <2>2. /\ Own(line, At(p), m, parent[p]) => Own(line, f, m, parent[p])
        /\ Level(line, f, m, parent[p]) = Level(line, At(p), m, parent[p])
        /\ f \in Waiting <=> At(p) \in Waiting
    <3>1. ASSUME NEW g, Kin(f, g)
          PROVE  /\ Own(line, g, m, parent[p]) => Own(line, f, m, parent[p])
                 /\ Level(line, f, m, parent[p]) = Level(line, g, m, parent[p])
                 /\ f \in Waiting <=> g \in Waiting
      BY <3>1, SameGroup
    <3> QED BY <3>1
  <2> QED BY <2>1, <2>2
<1>5. p # Shell => Own(line, f, m, parent[p])
  BY <1>1, <1>3, <1>4 DEF Owned
<1>6. ASSUME NEW rec, NEW value, NEW h, NEW o
      PROVE  /\ Pair(line, At(p), mem[p], rec, value, h, o) => Pair(line, f, m, rec, value, h, o)
             /\ Pair(line, h, o, rec, value, At(p), mem[p]) => Pair(line, h, o, rec, value, f, m)
  <2>1. /\ Pair(line, At(p), mem[p], rec, value, h, o) => Pair(line, At(p), m, rec, value, h, o)
        /\ Pair(line, h, o, rec, value, At(p), mem[p]) => Pair(line, h, o, rec, value, At(p), m)
    BY SameMemory
  <2>2. /\ Pair(line, At(p), m, rec, value, h, o) => Pair(line, f, m, rec, value, h, o)
        /\ Pair(line, h, o, rec, value, At(p), m) => Pair(line, h, o, rec, value, f, m)
    BY SameGroup
  <2> QED BY <2>1, <2>2
<1>7. ASSUME f \in Waiting
      PROVE  /\ At(p) \in Waiting /\ m.child = mem[p].child
             /\ Pair(line, f, m, recving'[p], mail'[p].value, At(m.child), mem[m.child])
  <2>1. Pair(line, At(p), mem[p], recving[p], mail[p].value, At(m.child), mem[m.child])
    BY <1>1, <1>4, <1>7 DEF Paired, Tied
  <2>2. Pair(line, At(p), mem[p], recving'[p], mail'[p].value, At(m.child), mem[m.child])
    BY <2>1 DEF Pair
  <2> QED BY <1>4, <1>6, <1>7, <2>2
<1>8. \A q \in Procs : q # p /\ At(q) \in Waiting =>
        IF mem[q].child = p THEN Pair(line, At(q), mem[q], recving'[q], mail'[q].value, f, m)
        ELSE recving'[q] = recving[q] /\ mail'[q] = mail[q]
  <2>1. ASSUME NEW q \in Procs, q # p, At(q) \in Waiting, mem[q].child = p
        PROVE  Pair(line, At(q), mem[q], recving'[q], mail'[q].value, f, m)
    <3>1. Pair(line, At(q), mem[q], recving[q], mail[q].value, At(p), mem[p])
      BY <1>1, <2>1 DEF Paired, Tied
    <3>2. Pair(line, At(q), mem[q], recving[q], mail[q].value, f, m)
      BY <1>6, <3>1
    <3> QED BY <2>1, <3>2
  <2> QED BY <2>1
<1>9. (f \in Waiting => pc[m.child] = "gone") =>
         Turn(p) /\ ByNow(line, ran', Level(line, f, m, parent[p]))
  <2> SUFFICES ASSUME f \in Waiting => pc[m.child] = "gone"
               PROVE  Turn(p) /\ ByNow(line, ran', Level(line, f, m, parent[p]))
    OBVIOUS
  <2>1. Turn(p)
    BY <1>3, <1>4 DEF Turn
  <2> QED BY <1>1, <1>4, <2>1 DEF SoFar
<1>10. \A q \in Procs : recving'[q] => IF q = p THEN l \in {"asleep", "reply"} ELSE recving[q]
  OBVIOUS
<1>11. GoesOn(p, l, m, f)
  BY <1>2, <1>5, <1>7, <1>8, <1>9, <1>10 DEF GoesOn
<1> QED BY <1>11, RunMoves

(* What is known where an env goes on. *)
LEMMA OnTurn ==
  ASSUME RunInv, NEW p \in Procs, At(p) \notin Ended,
         At(p) \notin Waiting \/ pc[mem[p].child] = "gone"
  PROVE  /\ Turn(p) /\ ByNow(line, ran, Level(line, At(p), mem[p], parent[p]))
         /\ p # Shell => Own(line, At(p), mem[p], parent[p])
BY DEF RunInv, Turn, SoFar, Owned

LEMMA OfParent ==
  ASSUME RunInv, NEW p, NEW q \in Procs, At(q) \in Waiting, mem[q].child = p
  PROVE  /\ p \in Procs /\ parent[p] = q /\ p # q
         /\ Pair(line, At(q), mem[q], recving[q], mail[q].value, At(p), mem[p])
BY DEF RunInv, Paired, Tied, Orphan

(* The shell waits for the end of the runner, whatever it does. *)
LEMMA OfShell ==
  ASSUME LineInv, At(Shell) \in Waiting, NEW m, NEW rec, NEW value, NEW g, NEW n
  PROVE  Pair(line, At(Shell), m, rec, value, g, n)
<1>1. At(Shell) = "waiting"
  BY Names, Places DEF Waiting, Forking, Spawning
<1> QED BY <1>1 DEF Pair, Forking, Spawning

LEMMA Levels ==
  ASSUME NEW w, NEW m, NEW par
  PROVE  /\ Level(w, "prompt", m, par) = 0
         /\ Level(w, "waiting", m, par) = Len(w) /\ Level(w, "done", m, par) = Len(w)
         /\ Level(w, "parse", m, par) = IF m.argc = 0 THEN Read(w, m) ELSE Spot(w, m) - 1
         /\ Level(w, "forked", m, par) = Read(w, m) /\ Level(w, "asleep", m, par) = Read(w, m)
         /\ \A f \in {"leftover", "exofork"} :
              Level(w, f, m, par) = IF m.argc = 0 THEN Len(w) ELSE Spot(w, m) - 1
         /\ Level(w, "spawned", m, par) = Spot(w, m) /\ Level(w, "wait", m, par) = Spot(w, m)
         /\ Level(w, "program", m, par) = Spot(w, m) - 1
         /\ \A f \in Exiting : Level(w, f, m, par) = IF par = Shell THEN Len(w) ELSE Spot(w, m)
BY DEF Level, Forking, Spawning, Exiting

(* One token less to read. *)
LEMMA ReadsOne ==
  ASSUME NEW w \in Seq(Words), NEW m, NEW n, m.todo \in Seq(Words), m.todo # <<>>, n.todo = Tail(m.todo),
         Unread(w, m)
  PROVE  /\ Unread(w, n) /\ Read(w, n) = Read(w, m) + 1
         /\ Read(w, m) \in 0..(Len(w) - 1) /\ Head(m.todo) = w[Read(w, m) + 1]
<1> DEFINE t == m.todo
<1>1. /\ Len(t) \in Nat /\ Len(t) # 0 /\ Len(Tail(t)) = Len(t) - 1 /\ Len(w) \in Nat
      /\ \A i \in 1..(Len(t) - 1) : Tail(t)[i] = t[i + 1]
      /\ Head(t) = t[1]
  BY HeadTailProperties, EmptySeq
<1>2. Len(t) <= Len(w) /\ \A i \in 1..Len(t) : t[i] = w[(Len(w) - Len(t)) + i]
  BY DEF Unread, Read
<1>3. n.todo = Tail(t)
  OBVIOUS
<1> HIDE DEF t
<1>4. Len(n.todo) = Len(t) - 1 /\ Read(w, n) = (Len(w) - Len(t)) + 1
  <2>1. Len(n.todo) = Len(Tail(t))
    BY <1>3
  <2>2. Len(n.todo) = Len(t) - 1
    BY <1>1, <2>1
  <2>3. Len(w) - Len(n.todo) = (Len(w) - Len(t)) + 1
    <3>1. \A a, b, c \in Int : a = b - 1 => c - a = (c - b) + 1
      OBVIOUS
    <3>2. Len(n.todo) \in Int /\ Len(t) \in Int /\ Len(w) \in Int
      BY <1>1, <2>2
    <3> QED BY <2>2, <3>1, <3>2
  <2> QED BY <2>2, <2>3 DEF Read
<1>5. ASSUME NEW i \in 1..Len(n.todo) PROVE n.todo[i] = w[Read(w, n) + i]
  <2>1. i + 1 \in 1..Len(t) /\ i \in 1..(Len(t) - 1) /\ i \in Nat
    BY <1>1, <1>4
  <2>2. n.todo[i] = t[i + 1] /\ t[i + 1] = w[(Len(w) - Len(t)) + (i + 1)]
    BY <1>1, <1>2, <1>3, <2>1
  <2>3. (Len(w) - Len(t)) + (i + 1) = Read(w, n) + i
    BY <1>1, <1>4, <2>1
  <2> QED BY <2>2, <2>3
<1>6. Unread(w, n)
  BY <1>1, <1>2, <1>4, <1>5 DEF Unread
<1>7. Head(t) = w[(Len(w) - Len(t)) + 1]
  BY <1>1, <1>2
<1>8. Read(w, m) = Len(w) - Len(t) /\ Head(t) = Head(m.todo)
  BY DEF Read, t
<1>9. Len(w) - Len(t) \in 0..(Len(w) - 1)
  BY <1>1, <1>2
<1> QED BY <1>4, <1>6, <1>7, <1>8, <1>9

(* The runner at a token: it is the next of the line, and everything that   *)
(* is due before the command the runner holds has been executed. *)
LEMMA AtToken ==
  ASSUME Plain, LineInv, RunInv, NEW p \in Procs, pc[p] = "parse"
  PROVE  /\ line \in Seq(Words) /\ mem[p].todo \in Seq(Words) /\ DOMAIN mem[p] = Fields
         /\ p # Shell /\ ~recving[p] /\ Turn(p) /\ At(p) = "parse"
         /\ Own(line, "parse", mem[p], parent[p]) /\ parent[p] = Shell /\ Unread(line, mem[p])
         /\ ByNow(line, ran, Level(line, "parse", mem[p], Shell))
         /\ mem[p].excu = Go(line, Read(line, mem[p]))
         /\ \/ Bare(mem[p]) /\ (Read(line, mem[p]) = 0 \/ Read(line, mem[p]) \in OpsOf(line))
            \/ Holding(line, mem[p]) /\ Segment(line, Spot(line, mem[p]), Read(line, mem[p]))
<1>1. line \in Seq(Words) /\ mem[p].todo \in Seq(Words) /\ DOMAIN mem[p] = Fields
  BY Places DEF LineInv, Types, Plain
<1>2. At(p) = "parse" /\ p # Shell
  BY Places DEF At, Phase
<1>3. ~recving[p]
  BY DEF RunInv, Dozing
<1>4. /\ Turn(p) /\ ByNow(line, ran, Level(line, "parse", mem[p], parent[p]))
      /\ Own(line, "parse", mem[p], parent[p])
  BY <1>2, OnTurn DEF Ended, Waiting, Forking, Spawning
<1>5. /\ parent[p] = Shell /\ Unread(line, mem[p])
      /\ mem[p].excu = Go(line, Read(line, mem[p]))
      /\ \/ Bare(mem[p]) /\ (Read(line, mem[p]) = 0 \/ Read(line, mem[p]) \in OpsOf(line))
         \/ Holding(line, mem[p]) /\ Segment(line, Spot(line, mem[p]), Read(line, mem[p]))
  BY <1>4 DEF Own, Parsing
<1> QED BY <1>1, <1>2, <1>3, <1>4, <1>5

(* What comes next where commands and operators alternate. *)
LEMMA NextToken ==
  ASSUME NEW w \in Seq(Words), Chain(w), NEW m, NEW n \in 0..(Len(w) - 1),
         \/ Bare(m) /\ (n = 0 \/ n \in OpsOf(w))
         \/ Holding(w, m) /\ Segment(w, Spot(w, m), n)
  PROVE  /\ w[n + 1] \in Commands <=> Bare(m)
         /\ Bare(m) <=> ~(Holding(w, m) /\ Segment(w, Spot(w, m), n))
<1>1. Len(w) \in Nat /\ n \in Nat /\ n + 1 \in DOMAIN w
  BY Tokens
<1>2. ASSUME n = 0 \/ n \in OpsOf(w) PROVE w[n + 1] \in Commands
  <2>1. CASE n = 0
    <3>1. w # <<>>
      BY <1>1, <2>1
    <3> QED BY <2>1, <3>1 DEF Chain
  <2>2. CASE n # 0
    BY <1>1, <1>2, <2>2 DEF Chain
  <2> QED BY <2>1, <2>2
<1>3. ASSUME Holding(w, m) PROVE ~Bare(m)
  BY <1>3 DEF Holding, Has, Bare
<1>4. ASSUME Segment(w, Spot(w, m), n) PROVE w[n + 1] \notin Commands
  BY <1>1, <1>4, SegmentNext
<1> QED BY <1>2, <1>3, <1>4

LEMMA RunWord ==
  ASSUME Plain, LineInv, Chain(line), RunInv, NEW p \in Procs, word(p)
  PROVE  RunInv'
<1>1. PICK c \in Commands : /\ Is(p, c)
         /\ Set(p, [Rest(p) EXCEPT !.argv = Append(@, c), !.argc = @ + 1])
         /\ UNCHANGED <<line, pc, parent, ipc, ran>>
  BY DEF word
<1> DEFINE m == mem[p]
           n == [Rest(p) EXCEPT !.argv = Append(@, c), !.argc = @ + 1]
           k == Read(line, m) + 1
<1>2. /\ pc[p] = "parse" /\ m.todo # <<>> /\ Head(m.todo) = c
      /\ mem' = [mem EXCEPT ![p] = n] /\ UNCHANGED <<line, pc, parent, recving, mail, ran>>
  BY <1>1 DEF Is, Set, ipc
<1>3. /\ line \in Seq(Words) /\ m.todo \in Seq(Words) /\ DOMAIN m = Fields
      /\ p # Shell /\ ~recving[p] /\ Turn(p) /\ At(p) = "parse"
      /\ parent[p] = Shell /\ Unread(line, m)
      /\ ByNow(line, ran, Level(line, "parse", m, Shell))
      /\ m.excu = Go(line, Read(line, m))
      /\ \/ Bare(m) /\ (Read(line, m) = 0 \/ Read(line, m) \in OpsOf(line))
         \/ Holding(line, m) /\ Segment(line, Spot(line, m), Read(line, m))
  BY <1>2, AtToken
<1>4. /\ n.todo = Tail(m.todo) /\ n.argv = Append(m.argv, c) /\ n.argc = m.argc + 1 /\ n.excu = m.excu
  BY <1>3 DEF Rest, Fields
<1> HIDE DEF m, n
<1>5. /\ Unread(line, n) /\ Read(line, n) = k /\ k \in 1..Len(line) /\ line[k] = c
      /\ Read(line, m) \in 0..(Len(line) - 1)
  <2>1. /\ Unread(line, n) /\ Read(line, n) = Read(line, m) + 1
        /\ Read(line, m) \in 0..(Len(line) - 1) /\ Head(m.todo) = line[Read(line, m) + 1]
    BY <1>2, <1>3, <1>4, ReadsOne
  <2> QED BY <1>2, <1>3, <2>1, Tokens
<1>6. Bare(m)
  <2>1. line[Read(line, m) + 1] \in Commands
    BY <1>5
  <2> QED BY <1>3, <1>5, <2>1, NextToken
<1>7. Has(line, n, k)
  <2>1. n.argv = <<c>> /\ n.argc = 1
    BY <1>4, <1>6 DEF Bare
  <2> QED BY <1>3, <1>5, <2>1, Tokens DEF Has
<1>8. Spot(line, n) = k /\ Holding(line, n)
  BY <1>7, Spots
<1>9. Segment(line, k, k)
  BY <1>3, <1>5, Tokens DEF Segment
<1>10. n.excu = Go(line, k)
  <2>1. k \notin OpsOf(line)
    BY <1>3, <1>5, Tokens
  <2>2. \A j \in OpsOf(line) : j <= k <=> j <= Read(line, m)
    BY <1>3, <1>5, <2>1, Tokens
  <2> QED BY <1>3, <1>4, <2>2 DEF Go
<1>11. Own(line, "parse", n, Shell)
  BY <1>5, <1>8, <1>9, <1>10 DEF Own, Parsing, Forking, Running, Spawning, Exiting
<1>12. Level(line, "parse", n, Shell) = Level(line, "parse", m, Shell)
  <2>1. Level(line, "parse", m, Shell) = Read(line, m)
    BY <1>6, Levels DEF Bare
  <2>2. n.argc = 1
    BY <1>7 DEF Has
  <2>3. Level(line, "parse", n, Shell) = k - 1
    BY <1>8, <2>2, Levels
  <2> QED BY <1>5, <2>1, <2>3
<1>13. ASSUME NEW q \in Procs, q # p, At(q) \in Waiting, mem[q].child = p
       PROVE  Pair(line, At(q), mem[q], recving[q], mail[q].value, "parse", n)
  BY <1>3, <1>13, OfParent, OfShell
<1>14. pc' = [pc EXCEPT ![p] = "parse"] /\ "parse" \in Labels \ Ended /\ "parse" \notin Ended \cup Waiting
       /\ "parse" = Phase("parse", n) /\ pc[p] \notin Ended
  BY <1>2 DEF LineInv, Types, Labels, Ended, Waiting, Forking, Spawning, Phase
<1> QED BY <1>2, <1>3, <1>11, <1>12, <1>13, <1>14, RunGoes

LEMMA RunRedirect ==
  ASSUME Plain, LineInv, Chain(line), RunInv, NEW p \in Procs, redirect(p)
  PROVE  RunInv'
<1> DEFINE m == mem[p]
           n == [[Rest(p) EXCEPT !.out = File] EXCEPT !.then = "parse"]
           k == Spot(line, m)
<1>1. /\ pc[p] = "parse" /\ m.todo # <<>> /\ Head(m.todo) = ">"
      /\ pc' = [pc EXCEPT ![p] = "send"] /\ mem' = [mem EXCEPT ![p] = n]
      /\ UNCHANGED <<line, parent, recving, mail, ran>>
  BY DEF redirect, Ask, Goto, Set, Is, ipc
<1>2. /\ line \in Seq(Words) /\ m.todo \in Seq(Words) /\ DOMAIN m = Fields
      /\ p # Shell /\ ~recving[p] /\ Turn(p)
      /\ parent[p] = Shell /\ Unread(line, m)
      /\ ByNow(line, ran, Level(line, "parse", m, Shell))
      /\ m.excu = Go(line, Read(line, m))
      /\ \/ Bare(m) /\ (Read(line, m) = 0 \/ Read(line, m) \in OpsOf(line))
         \/ Holding(line, m) /\ Segment(line, k, Read(line, m))
  BY <1>1, AtToken
<1>3. /\ n.todo = Tail(m.todo) /\ n.argv = m.argv /\ n.argc = m.argc /\ n.excu = m.excu /\ n.then = "parse"
  BY <1>2 DEF Rest, Fields
<1> HIDE DEF m, n
<1>4. /\ Unread(line, n) /\ Read(line, n) = Read(line, m) + 1
      /\ Read(line, m) \in 0..(Len(line) - 1) /\ line[Read(line, m) + 1] = ">"
  BY <1>1, <1>2, <1>3, ReadsOne
<1>5. Len(line) \in Nat /\ Read(line, m) \in Nat /\ Read(line, n) \in DOMAIN line /\ Read(line, n) \notin OpsOf(line)
  BY <1>2, <1>4, Tokens
<1>6. Holding(line, m) /\ Segment(line, k, Read(line, m))
  <2>1. line[Read(line, m) + 1] \notin Commands
    BY <1>2, <1>4, <1>5, Tokens
  <2> QED BY <1>2, <1>4, <2>1, NextToken
<1>7. Spot(line, n) = k /\ Holding(line, n)
  BY <1>3, <1>6, SameWords
<1>8. Segment(line, k, Read(line, n))
  <2>1. /\ k \in 1..Read(line, m) /\ line[k] \in Commands
        /\ \A i \in (k + 1)..Read(line, m) : line[i] = ">"
    BY <1>6 DEF Segment
  <2>2. \A i \in (k + 1)..Read(line, n) : line[i] = ">"
    BY <1>4, <1>5, <2>1
  <2> HIDE DEF k
  <2> QED BY <1>4, <1>5, <2>1, <2>2 DEF Segment
<1>9. n.excu = Go(line, Read(line, n))
  <2>1. \A j \in OpsOf(line) : j <= Read(line, n) <=> j <= Read(line, m)
    BY <1>2, <1>4, <1>5, Tokens
  <2> QED BY <1>2, <1>3, <2>1 DEF Go
<1>10. Own(line, "parse", n, Shell)
  BY <1>4, <1>7, <1>8, <1>9 DEF Own, Parsing, Forking, Running, Spawning, Exiting
<1>11. Level(line, "parse", n, Shell) = Level(line, "parse", m, Shell)
  <2>1. m.argc = 1 /\ n.argc = 1
    BY <1>3, <1>6 DEF Holding, Has
  <2> QED BY <1>7, <2>1, Levels
<1>12. ASSUME NEW q \in Procs, q # p, At(q) \in Waiting, mem[q].child = p
       PROVE  Pair(line, At(q), mem[q], recving[q], mail[q].value, "parse", n)
  BY <1>2, <1>12, OfParent, OfShell
<1>13. "send" \in Labels \ Ended /\ "parse" \notin Ended \cup Waiting /\ pc[p] \notin Ended
       /\ "parse" = Phase("send", n)
  BY <1>1, <1>3 DEF Labels, Ended, Waiting, Forking, Spawning, Phase
<1> QED BY <1>1, <1>2, <1>10, <1>11, <1>12, <1>13, RunGoes

LEMMA RunParsed ==
  ASSUME Plain, LineInv, Chain(line), RunInv, NEW p \in Procs, parsed(p)
  PROVE  RunInv'
<1> DEFINE m == mem[p]
           k == Spot(line, m)
<1>1. /\ pc[p] = "parse" /\ m.todo = <<>> /\ pc' = [pc EXCEPT ![p] = "leftover"]
      /\ mem' = mem /\ UNCHANGED <<line, parent, recving, mail, ran>>
  BY DEF parsed, Goto, ipc
<1>2. /\ line \in Seq(Words) /\ p # Shell /\ ~recving[p] /\ Turn(p) /\ parent[p] = Shell
      /\ ByNow(line, ran, Level(line, "parse", m, Shell))
      /\ m.excu = Go(line, Read(line, m))
      /\ \/ Bare(m)
         \/ Holding(line, m) /\ Segment(line, k, Read(line, m))
  BY <1>1, AtToken
<1>3. mem' = [mem EXCEPT ![p] = m]
  BY <1>1 DEF LineInv, Types
<1>4. Len(line) \in Nat /\ Read(line, m) = Len(line)
  BY <1>1, <1>2 DEF Read
<1> HIDE DEF m
<1>5. ASSUME Holding(line, m), Segment(line, k, Read(line, m))
      PROVE  m.excu = (k \in DueIn(line)) /\ IsLast(line, k)
  <2>1. m.excu = (k \in DueIn(line))
    BY <1>2, <1>5, SegmentDue
  <2>2. ASSUME NEW i \in DOMAIN line, line[i] \in Commands PROVE i <= k
    <3>1. i \in 1..Len(line) /\ k \in Nat
      BY <1>2, <1>4, <1>5 DEF Segment
    <3>2. ~(i \in (k + 1)..Len(line))
      BY <1>2, <1>4, <1>5, <2>2, Tokens DEF Segment
    <3> HIDE DEF k
    <3> QED BY <1>4, <3>1, <3>2
  <2> QED BY <2>1, <2>2 DEF IsLast
<1>6. Own(line, "leftover", m, Shell)
  BY <1>2, <1>5 DEF Own, Parsing, Forking, Running, Spawning, Exiting
<1>7. Level(line, "leftover", m, Shell) = Level(line, "parse", m, Shell)
  BY <1>4, Levels
<1>8. ASSUME NEW q \in Procs, q # p, At(q) \in Waiting, mem[q].child = p
      PROVE  Pair(line, At(q), mem[q], recving[q], mail[q].value, "leftover", m)
  BY <1>2, <1>8, OfParent, OfShell
<1>9. "leftover" \in Labels \ Ended /\ "leftover" \notin Ended \cup Waiting /\ pc[p] \notin Ended
      /\ "leftover" = Phase("leftover", m)
  BY <1>1 DEF Labels, Ended, Waiting, Forking, Spawning, Phase
<1> QED BY <1>1, <1>2, <1>3, <1>6, <1>7, <1>8, <1>9, RunGoes

(* && and ||: the child has the command, and what is due before it has been *)
(* executed; if it is not due itself the child exits with 0 at once. *)
LEMMA RunAndor ==
  ASSUME Plain, LineInv, Chain(line), RunInv, NEW p \in Procs, andor(p)
  PROVE  RunInv'
<1> DEFINE o == mem[p]
           m == [mem[p] EXCEPT !.argv = SubSeq(@, 1, Len(@) - mem[p].argc), !.argc = 0, !.child = New]
           lc == IF mem[p].excu THEN "leftover" ELSE "exit"
           mc == [mem[p] EXCEPT !.status = 0]
           k == Spot(line, o)
           n == Read(line, o)
<1>1. /\ pc[p] = "parse" /\ o.todo # <<>> /\ Head(o.todo) \in {"&&", "||"} /\ Spare
      /\ fork(p, "forked", m, New, lc, mc) /\ ran' = ran
  BY DEF andor, Is
<1>2. /\ line \in Seq(Words) /\ o.todo \in Seq(Words) /\ DOMAIN o = Fields
      /\ p # Shell /\ At(p) = "parse" /\ parent[p] = Shell /\ Unread(line, o)
      /\ ByNow(line, ran, Level(line, "parse", o, Shell))
      /\ o.excu = Go(line, n)
      /\ \/ Bare(o) /\ (n = 0 \/ n \in OpsOf(line))
         \/ Holding(line, o) /\ Segment(line, k, n)
  BY <1>1, AtToken
<1>3. /\ m.todo = o.todo /\ m.argv = SubSeq(o.argv, 1, Len(o.argv) - o.argc) /\ m.argc = 0 /\ m.child = New
      /\ mc.argv = o.argv /\ mc.argc = o.argc /\ mc.excu = o.excu /\ mc.status = 0
  BY <1>2 DEF Fields
<1>4. lc = IF o.excu THEN "leftover" ELSE "exit"
  OBVIOUS
<1> HIDE DEF o, m, lc, mc, k, n
<1>5. n \in 0..(Len(line) - 1) /\ line[n + 1] \in {"&&", "||"} /\ Len(line) \in Nat /\ DOMAIN line = 1..Len(line)
  <2>1. n \in 0..(Len(line) - 1) /\ Head(o.todo) = line[n + 1]
    <3> DEFINE z == [o EXCEPT !.todo = Tail(@)]
    <3>1. z.todo = Tail(o.todo)
      BY <1>2 DEF Fields
    <3> HIDE DEF z
    <3> QED BY <1>1, <1>2, <3>1, ReadsOne DEF n
  <2> QED BY <1>1, <1>2, <2>1, Tokens
<1>6. n + 1 \in OpsOf(line)
  BY <1>5 DEF OpsOf
<1>7. Holding(line, o) /\ Segment(line, k, n)
  <2>1. line[n + 1] \notin Commands
    BY <1>2, <1>6, <1>5, Tokens
  <2> QED BY <1>2, <1>5, <2>1, NextToken DEF k
<1>8. /\ Spot(line, mc) = k /\ Holding(line, mc) /\ mc.excu = (k \in DueIn(line)) /\ k \in Nat
      /\ mc.argc = 1 /\ o.argc = 1
  <2>1. Spot(line, mc) = k /\ Holding(line, mc)
    BY <1>3, <1>7, SameWords DEF k
  <2>2. Go(line, n) = (k \in DueIn(line))
    BY <1>2, <1>7, SegmentDue
  <2>3. k \in Nat
    BY <1>7 DEF Segment
  <2>4. o.argc = 1
    BY <1>7 DEF Holding, Has
  <2> QED BY <1>2, <1>3, <2>1, <2>2, <2>3, <2>4
<1>9. Bare(m)
  <2>1. PICK i \in DOMAIN line : o.argv = <<line[i]>>
    BY <1>7 DEF Holding, Has
  <2>2. Len(o.argv) = 1
    BY <2>1
  <2>3. m.argv = SubSeq(<<line[i]>>, 1, 0)
    BY <1>3, <1>8, <2>1, <2>2
  <2>4. m.argv = <<>>
    BY <2>3
  <2> QED BY <1>3, <2>4 DEF Bare
<1>10. Own(line, "forked", m, parent[p])
  <2>1. Unread(line, m) /\ Read(line, m) = n
    BY <1>2, <1>3 DEF Unread, Read, n
  <2> QED BY <1>2, <1>6, <1>9, <2>1 DEF Own, Parsing, Forking, Running, Spawning, Exiting
<1>11. Own(line, lc, mc, p)
  BY <1>2, <1>4, <1>8 DEF Own, Parsing, Forking, Running, Spawning, Exiting
<1>12. Pair(line, "forked", m, recving[p], mail[p].value, lc, mc)
  <2>1. Segment(line, k, Read(line, m))
    BY <1>3, <1>7 DEF Read, n
  <2>2. o.excu = FALSE => Says(line, 0, k)
    BY <1>3, <1>8 DEF Says
  <2>3. \/ lc = "leftover" /\ mc.excu
        \/ lc = "exit" /\ Says(line, mc.status, k)
    BY <1>2, <1>3, <1>4, <2>2
  <2>4. \/ lc = "leftover" /\ mc.excu
        \/ lc = "exit" /\ Says(line, mc.status, Spot(line, mc))
    BY <1>8, <2>3
  <2>5. Holding(line, mc) /\ Segment(line, Spot(line, mc), Read(line, m))
    BY <1>8, <2>1
  <2> QED BY <2>4, <2>5 DEF Pair, Forking, Running, Spawning, Exiting
<1>13. ByNow(line, ran, Level(line, lc, mc, p))
  <2>1. ByNow(line, ran, k - 1)
    BY <1>2, <1>8, Levels DEF k
  <2>2. CASE o.excu
    BY <1>4, <1>8, <2>1, <2>2, Levels
  <2>3. CASE ~o.excu
    <3>1. k \notin DueIn(line)
      BY <1>3, <1>8, <2>3
    <3>2. \A i \in DueIn(line) : i <= k - 1 <=> i <= k
      BY <1>2, <1>8, <3>1, Tokens
    <3>3. ByNow(line, ran, k)
      BY <2>1, <3>2, NowMoves
    <3>4. lc = "exit" /\ "exit" \in Exiting
      BY <1>4, <2>3 DEF Exiting
    <3>5. Level(line, "exit", mc, p) = k
      BY <1>2, <1>8, <3>4, Levels
    <3> QED BY <3>3, <3>4, <3>5
  <2> QED BY <2>2, <2>3
<1>14. ASSUME NEW q \in Procs, q # p, At(q) \in Waiting, mem[q].child = p
       PROVE  Pair(line, At(q), mem[q], recving[q], mail[q].value, "forked", m)
  BY <1>2, <1>14, OfParent, OfShell
<1>15. At(p) \notin Waiting \cup Ended /\ lc \in {"parse", "leftover", "exit", "program"}
  BY <1>2, <1>4 DEF Waiting, Forking, Spawning, Ended
<1> QED BY <1>1, <1>3, <1>10, <1>11, <1>12, <1>13, <1>14, <1>15, RunForks

LEMMA RunAndorRecv ==
  ASSUME Plain, LineInv, Chain(line), RunInv, NEW p \in Procs, andor_recv(p)
  PROVE  RunInv'
<1> DEFINE m == mem[p]
<1>1. /\ pc[p] = "forked" /\ pc' = [pc EXCEPT ![p] = "asleep"] /\ recving' = [recving EXCEPT ![p] = TRUE]
      /\ UNCHANGED <<line, mem, parent, mail, ran>>
  BY DEF andor_recv, sys_ipc_recv, Goto
<1>2. mem' = [mem EXCEPT ![p] = m] /\ recving'[p] = TRUE
      /\ \A q \in Procs : q # p => recving'[q] = recving[q] /\ mail'[q] = mail[q]
  BY <1>1 DEF LineInv, Types
<1>3. At(p) = "forked" /\ p # Shell
  BY <1>1, Places DEF At, Phase
<1>4. Own(line, "forked", m, parent[p]) /\ Tied(p)
  BY <1>3 DEF RunInv, Owned, Paired, Ended, Waiting, Forking
<1>5. Own(line, "asleep", m, parent[p]) /\ parent[p] = Shell
  BY <1>4 DEF Own, Parsing, Forking, Running, Spawning, Exiting
<1>6. Pair(line, "forked", m, recving[p], mail[p].value, At(m.child), mem[m.child])
  BY <1>3, <1>4 DEF Tied
<1>7. Pair(line, "asleep", m, recving'[p], mail'[p].value, At(m.child), mem[m.child])
  <2>1. At(m.child) \notin {"destroy", "gone"}
    BY <1>6 DEF Pair
  <2>2. recving'[p] = TRUE
    BY <1>2
  <2>3. Pair(line, "asleep", m, TRUE, mail'[p].value, At(m.child), mem[m.child])
    BY <1>6, <2>1 DEF Pair, Forking, Spawning
  <2> QED BY <2>2, <2>3
<1>8. pc[m.child] # "gone"
  <2>1. m.child \in Procs /\ At(m.child) # "gone"
    BY <1>4, <1>6 DEF Tied, Pair
  <2> QED BY <2>1 DEF At, Phase
<1>9. ASSUME NEW q \in Procs, q # p, At(q) \in Waiting, mem[q].child = p
      PROVE  Pair(line, At(q), mem[q], recving'[q], mail'[q].value, "asleep", m)
  BY <1>5, <1>9, OfParent, OfShell
<1>10. "asleep" \in Labels /\ "asleep" \notin Ended /\ "asleep" \in Waiting /\ pc[p] \notin Ended
       /\ "asleep" = Phase("asleep", m) /\ At(p) \in Waiting
  BY <1>1, <1>3 DEF Labels, Ended, Waiting, Forking, Phase
<1> HIDE DEF m
<1>11. m.child = mem[p].child
  BY DEF m
<1>12. \A q \in Procs : q # p /\ At(q) \in Waiting =>
        IF mem[q].child = p THEN Pair(line, At(q), mem[q], recving'[q], mail'[q].value, "asleep", m)
        ELSE recving'[q] = recving[q] /\ mail'[q] = mail[q]
  BY <1>2, <1>9
<1>13. \A q \in Procs : recving'[q] => IF q = p THEN "asleep" \in {"asleep", "reply"} ELSE recving[q]
  BY <1>2
<1>14. GoesOn(p, "asleep", m, "asleep")
  BY <1>1, <1>2, <1>5, <1>7, <1>8, <1>10, <1>11, <1>12, <1>13 DEF GoesOn
<1> QED BY <1>10, <1>14, RunMoves

(* The child has ended, and the message says whether the next command is    *)
(* due: after a command that is skipped it says 0, and only || follows.     *)
LEMMA RunAndorWait ==
  ASSUME Plain, LineInv, Chain(line), RunInv, NEW p \in Procs, andor_wait(p)
  PROVE  RunInv'
<1> DEFINE m == mem[p]
           n == [Rest(p) EXCEPT !.excu = (mail[p].value = 0) = (Head(mem[p].todo) = "&&")]
           c == mem[mem[p].child]
           k == Spot(line, c)
           v == mail[p].value
           r == Read(line, m)
<1>1. /\ pc[p] = "asleep" /\ ~recving[p] /\ Gone(m.child)
      /\ pc' = [pc EXCEPT ![p] = "parse"] /\ mem' = [mem EXCEPT ![p] = n]
      /\ UNCHANGED <<line, parent, recving, mail, ran>>
  BY DEF andor_wait, Goto, Set, ipc
<1>2. /\ At(p) = "asleep" /\ p # Shell /\ line \in Seq(Words) /\ m.todo \in Seq(Words) /\ DOMAIN m = Fields
      /\ m.todo # <<>>
  BY <1>1, Places DEF At, Phase, LineInv, Types, Plain, Mems, Mem
<1>3. /\ Own(line, "asleep", m, parent[p]) /\ m.child \in Procs
      /\ Pair(line, "asleep", m, recving[p], v, At(m.child), c)
  BY <1>2 DEF RunInv, Owned, Paired, Tied, Ended, Waiting, Forking
<1>4. pc[m.child] = "gone"
  BY <1>1, <1>3, Names DEF Gone
<1>5. /\ Turn(p) /\ ByNow(line, ran, Level(line, "asleep", m, parent[p]))
  BY <1>2, <1>4, OnTurn DEF Ended
<1>6. parent[p] = Shell /\ Unread(line, m) /\ Bare(m) /\ r + 1 \in OpsOf(line)
  BY <1>3 DEF Own, Parsing, Forking
<1>7. Segment(line, k, r) /\ Says(line, v, k)
  BY <1>1, <1>3 DEF Pair, Forking
<1>8. /\ n.todo = Tail(m.todo) /\ n.argv = m.argv /\ n.argc = m.argc
      /\ n.excu = ((v = 0) = (Head(m.todo) = "&&"))
  BY <1>2 DEF Rest, Fields
<1> HIDE DEF m, n, c, k, v, r
<1>9. /\ Unread(line, n) /\ Read(line, n) = r + 1 /\ r \in 0..(Len(line) - 1) /\ Head(m.todo) = line[r + 1]
  BY <1>2, <1>6, <1>8, ReadsOne DEF r
<1>10. Len(line) \in Nat /\ r \in Nat /\ OpsOf(line) \subseteq 1..Len(line) /\ k \in DOMAIN line
       /\ line[k] \in Commands /\ k < r + 1 /\ DOMAIN line = 1..Len(line)
  BY <1>2, <1>7, <1>9, Tokens DEF Segment
<1>11. LeftIn(line, r + 1) = line[k] /\ Go(line, r) = (k \in DueIn(line))
  BY <1>2, <1>7, SegmentLeft, SegmentDue
<1>12. Go(line, r + 1) <=> Go(line, r) /\ Agrees(line, r + 1)
  <2>1. \A j \in OpsOf(line) : j <= r + 1 <=> j <= r \/ j = r + 1
    BY <1>10
  <2>2. \A j \in OpsOf(line) : j \in Int
    BY <1>10
  <2> QED BY <1>6, <1>10, <2>1, <2>2 DEF Go
<1>13. n.excu = Go(line, r + 1)
  <2>1. n.excu = ((v = 0) = (line[r + 1] = "&&"))
    BY <1>8, <1>9
  <2>2. Go(line, r + 1) \in BOOLEAN
    BY DEF Go
  <2>3. CASE k \in DueIn(line)
    <3>1. v = 0 <=> Succeeds(line[k])
      BY <1>7, <2>3 DEF Says
    <3>2. Go(line, r + 1) <=> (Succeeds(line[k]) = (line[r + 1] = "&&"))
      BY <1>11, <1>12, <2>3 DEF Agrees
    <3>3. Succeeds(line[k]) \in BOOLEAN
      BY DEF Succeeds
    <3> QED BY <2>1, <2>2, <3>1, <3>2, <3>3
  <2>4. CASE k \notin DueIn(line)
    <3>1. v = 0
      BY <1>7, <2>4 DEF Says
    <3>2. ~Go(line, r + 1)
      BY <1>11, <1>12, <2>4
    <3>3. line[r + 1] # "&&"
      BY <1>6, <1>10, <2>4 DEF Chain
    <3> QED BY <2>1, <2>2, <3>1, <3>2, <3>3
  <2> QED BY <2>3, <2>4
<1>14. Own(line, "parse", n, Shell)
  <2>1. Bare(n)
    BY <1>6, <1>8 DEF Bare
  <2> QED BY <1>6, <1>9, <1>13, <2>1 DEF Own, Parsing, Forking, Running, Spawning, Exiting
<1>15. ByNow(line, ran, Level(line, "parse", n, Shell))
  <2>1. ByNow(line, ran, r)
    BY <1>5, Levels DEF r
  <2>2. r + 1 \notin DueIn(line)
    BY <1>2, <1>6, Tokens DEF DueIn
  <2>3. \A i \in DueIn(line) : i <= r <=> i <= r + 1
    <3>1. DueIn(line) \subseteq Nat
      BY <1>2, Tokens
    <3> QED BY <1>10, <2>2, <3>1
  <2>4. ByNow(line, ran, r + 1)
    BY <2>1, <2>3, NowMoves
  <2>5. n.argc = 0
    BY <1>6, <1>8 DEF Bare
  <2> QED BY <1>9, <2>4, <2>5, Levels
<1>16. ASSUME NEW q \in Procs, q # p, At(q) \in Waiting, mem[q].child = p
       PROVE  Pair(line, At(q), mem[q], recving[q], mail[q].value, "parse", n)
  BY <1>6, <1>16, OfParent, OfShell
<1>17. "parse" \in Labels \ Ended /\ "parse" \notin Ended \cup Waiting
       /\ "parse" = Phase("parse", n) /\ pc[p] \notin Ended
  BY <1>1 DEF Labels, Ended, Waiting, Forking, Spawning, Phase
<1> QED BY <1>1, <1>2, <1>5, <1>6, <1>14, <1>15, <1>16, <1>17, RunGoes

-----------------------------------------------------------------------------
(* The rest of runcmd. *)

LEMMA AtRun ==
  ASSUME Plain, LineInv, RunInv, NEW p \in Procs, pc[p] \in {"leftover", "exofork", "wait", "program"},
         pc[p] = "wait" => Gone(mem[p].child)
  PROVE  /\ line \in Seq(Words) /\ DOMAIN mem[p] = Fields /\ At(p) = pc[p] /\ p # Shell /\ ~recving[p]
         /\ Turn(p) /\ ByNow(line, ran, Level(line, pc[p], mem[p], parent[p]))
         /\ Own(line, pc[p], mem[p], parent[p])
<1>1. line \in Seq(Words) /\ DOMAIN mem[p] = Fields
  BY Places DEF LineInv, Types, Plain
<1>2. At(p) = pc[p] /\ p # Shell
  BY Places DEF At, Phase
<1>3. ~recving[p]
  BY DEF RunInv, Dozing
<1>4. ASSUME pc[p] = "wait" PROVE pc[mem[p].child] = "gone"
  <2>1. mem[p].child \in Procs
    BY <1>2, <1>4 DEF RunInv, Paired, Tied, Waiting, Spawning
  <2> QED BY <1>4, <2>1, Names DEF Gone
<1>5. pc[p] \notin Ended /\ (pc[p] # "wait" => pc[p] \notin Waiting)
  BY DEF Ended, Waiting, Forking, Spawning
<1> QED BY <1>1, <1>2, <1>3, <1>4, <1>5, OnTurn

(* An env exits: with a status that says what its parent asks, and when all *)
(* that is due has been executed up to its command, or up to the end. *)
LEMMA RunExits ==
  ASSUME Plain, LineInv, RunInv, NEW p \in Procs, NEW s, exit(p, s),
         UNCHANGED <<line, parent, recving, mail>>,
         pc[p] \in {"leftover", "wait", "program"}, pc[p] = "wait" => Gone(mem[p].child),
         parent[p] # Shell => Holding(line, mem[p]),
         parent[p] # Shell /\ pc[p] # "program" => Says(line, s, Spot(line, mem[p])),
         ByNow(line, ran', IF parent[p] = Shell THEN Len(line) ELSE Spot(line, mem[p]))
  PROVE  RunInv'
<1> DEFINE m == mem[p]
           n == [mem[p] EXCEPT !.status = s]
           k == Spot(line, m)
<1>1. pc' = [pc EXCEPT ![p] = "exit"] /\ mem' = [mem EXCEPT ![p] = n]
  BY DEF exit, Goto, Set
<1>2. DOMAIN m = Fields /\ At(p) = pc[p] /\ p # Shell /\ ~recving[p] /\ Turn(p)
  BY AtRun
<1>3. n.argv = m.argv /\ n.argc = m.argc /\ n.status = s
  BY <1>2 DEF Fields
<1>4. parent[p] # Shell => Holding(line, m)
  OBVIOUS
<1>5. /\ ByNow(line, ran', IF parent[p] = Shell THEN Len(line) ELSE k)
      /\ parent[p] # Shell /\ pc[p] # "program" => Says(line, s, k)
  OBVIOUS
<1> HIDE DEF n, k
<1>6. Spot(line, n) = k /\ (Holding(line, n) <=> Holding(line, m))
  BY <1>3, SameWords DEF k
<1>7. Own(line, "exit", n, parent[p])
  BY <1>4, <1>6 DEF Own, Parsing, Forking, Running, Spawning, Exiting
<1>8. ByNow(line, ran', Level(line, "exit", n, parent[p]))
  <2>1. "exit" \in Exiting
    BY DEF Exiting
  <2>2. Level(line, "exit", n, parent[p]) = IF parent[p] = Shell THEN Len(line) ELSE k
    BY <1>6, <2>1, Levels
  <2> QED BY <1>5, <2>2
<1>9. ASSUME NEW q \in Procs, q # p, At(q) \in Waiting, mem[q].child = p
      PROVE  Pair(line, At(q), mem[q], recving[q], mail[q].value, "exit", n)
  <2>1. parent[p] = q /\ Pair(line, At(q), mem[q], recving[q], mail[q].value, At(p), m)
    BY <1>9, OfParent
  <2>2. CASE q = Shell
    BY <1>9, <2>2, OfShell
  <2>3. CASE q # Shell
    <3>1. At(q) \in Forking \cup Spawning
      BY <1>9, <2>3, Places DEF Waiting
    <3>2. ASSUME At(q) \in Forking
          PROVE  /\ Holding(line, n) /\ Segment(line, Spot(line, n), Read(line, mem[q]))
                 /\ Says(line, n.status, Spot(line, n)) /\ At(p) \notin {"destroy", "gone"}
      <4>1. Holding(line, m) /\ Segment(line, k, Read(line, mem[q])) /\ At(p) # "program"
        BY <2>1, <3>2 DEF Pair, k, Running, Spawning, Exiting
      <4>2. At(p) \notin {"destroy", "gone"}
        BY <1>2
      <4> QED BY <1>2, <1>3, <1>5, <1>6, <2>1, <2>3, <4>1, <4>2
    <3>3. ASSUME At(q) \in Spawning PROVE n.argv = mem[q].argv /\ n.argc = mem[q].argc
      BY <1>3, <2>1, <3>3 DEF Pair
    <3>4. ASSUME At(q) = "asleep" PROVE recving[q] = TRUE
      BY <2>1, <3>2, <3>4 DEF Pair, Forking
    <3> QED BY <3>2, <3>3, <3>4 DEF Pair, Forking, Running, Spawning, Exiting
  <2> QED BY <2>2, <2>3
<1>10. "exit" \in Labels \ Ended /\ "exit" \notin Ended \cup Waiting
       /\ "exit" = Phase("exit", n) /\ pc[p] \notin Ended
  BY DEF Labels, Ended, Waiting, Forking, Spawning, Phase
<1> QED BY <1>1, <1>2, <1>7, <1>8, <1>9, <1>10, RunGoes

LEMMA RunNothing ==
  ASSUME Plain, LineInv, Chain(line), RunInv, NEW p \in Procs, runcmd_nothing(p)
  PROVE  RunInv'
<1> DEFINE m == mem[p]
           k == Spot(line, m)
<1>1. /\ pc[p] = "leftover" /\ (m.argc = 0 \/ ~m.excu) /\ exit(p, -1)
      /\ UNCHANGED <<line, parent, recving, mail, ran>>
  BY DEF runcmd_nothing, Ready, ipc
<1>2. /\ line \in Seq(Words) /\ At(p) = "leftover" /\ p # Shell
      /\ ByNow(line, ran, Level(line, "leftover", m, parent[p])) /\ Own(line, "leftover", m, parent[p])
  BY <1>1, AtRun
<1>3. \/ Bare(m) /\ parent[p] = Shell
      \/ /\ Holding(line, m) /\ m.excu = (k \in DueIn(line))
         /\ parent[p] = Shell => IsLast(line, k)
  BY <1>2 DEF Own, Running
<1>4. parent[p] = Shell
  <2>1. SUFFICES ASSUME parent[p] # Shell PROVE FALSE
    OBVIOUS
  <2> DEFINE q == parent[p]
  <2>2. m.argc # 0 /\ ~m.excu
    BY <1>1, <1>3, <2>1 DEF Holding, Has
  <2>3. q \in Procs /\ At(q) \in Waiting /\ mem[q].child = p
    BY <1>1, <1>2, Places DEF LineInv, Awaited
  <2>4. Pair(line, At(q), mem[q], recving[q], mail[q].value, "leftover", m)
    BY <1>2, <2>3, OfParent
  <2>5. At(q) \in Forking \cup Spawning
    BY <2>1, <2>3, Places DEF Waiting
  <2> QED BY <2>2, <2>4, <2>5 DEF Pair, Running, Spawning, Exiting
<1>5. ByNow(line, ran, Len(line))
  <2>1. CASE m.argc = 0
    BY <1>2, <2>1, Levels
  <2>2. CASE m.argc # 0
    <3>1. ByNow(line, ran, k - 1)
      BY <1>2, <2>2, Levels
    <3>2. Holding(line, m) /\ k \notin DueIn(line) /\ IsLast(line, k)
      BY <1>1, <1>3, <1>4, <2>2 DEF Bare
    <3>3. k \in 1..Len(line) /\ Len(line) \in Nat
      BY <1>2, <3>2, Spots, Tokens DEF Has
    <3>4. \A i \in DueIn(line) : i \in 1..Len(line) /\ i <= k
      BY <1>2, <3>2, Tokens DEF IsLast, DueIn
    <3>5. \A i \in DueIn(line) : i <= k - 1 <=> i <= Len(line)
      BY <3>2, <3>3, <3>4
    <3> QED BY <3>1, <3>5, NowMoves
  <2> QED BY <2>1, <2>2
<1> QED BY <1>1, <1>4, <1>5, RunExits

(* A command that is due is executed behind all that are due before it. *)
LEMMA Executes ==
  ASSUME Plain, LineInv, Chain(line), NEW k \in DueIn(line), ByNow(line, ran, k - 1),
         ran' = Append(ran, line[k])
  PROVE  ByNow(line, ran', k) /\ (IsLast(line, k) => ByNow(line, ran', Len(line)))
<1>1. line \in Seq(Words) /\ ran \in Seq(Commands)
  BY DEF LineInv, Types, Plain
<1>2. ByNow(line, ran', k)
  BY <1>1, NowAppends
<1>3. ASSUME IsLast(line, k) PROVE ByNow(line, ran', Len(line))
  <2>1. \A i \in DueIn(line) : i \in 1..Len(line) /\ i <= k
    BY <1>1, <1>3, Tokens DEF IsLast, DueIn
  <2>2. \A i \in DueIn(line) : i <= k <=> i <= Len(line)
    BY <2>1
  <2> QED BY <1>2, <2>2, NowMoves
<1> QED BY <1>2, <1>3

LEMMA RunBuiltin ==
  ASSUME Plain, DOMAIN Builtin \cap Programs = {}, LineInv, Chain(line), RunInv, NEW p \in Procs,
         runcmd_builtin(p)
  PROVE  RunInv'
<1> DEFINE m == mem[p]
           k == Spot(line, m)
           c == m.argv[1]
<1>1. /\ pc[p] = "leftover" /\ m.argc > 0 /\ m.excu /\ c \in DOMAIN Builtin
      /\ ran' = Append(ran, c) /\ exit(p, Builtin[c]) /\ UNCHANGED <<line, parent, recving, mail>>
  BY DEF runcmd_builtin, Runs, Ready, Command, ipc
<1>2. /\ line \in Seq(Words)
      /\ ByNow(line, ran, Level(line, "leftover", m, parent[p])) /\ Own(line, "leftover", m, parent[p])
  BY <1>1, AtRun
<1>3. /\ Holding(line, m) /\ k \in DueIn(line)
      /\ parent[p] = Shell => IsLast(line, k)
  <2>1. \/ Bare(m)
        \/ /\ Holding(line, m) /\ m.excu = (k \in DueIn(line))
           /\ parent[p] = Shell => IsLast(line, k)
    BY <1>2 DEF Own, Running
  <2>2. ~Bare(m)
    BY <1>1 DEF Bare
  <2> QED BY <1>1, <2>1, <2>2
<1>4. m.argc = 1 /\ c = line[k]
  BY <1>3, Spots DEF Has
<1>5. ByNow(line, ran, k - 1)
  BY <1>2, <1>4, Levels
<1>6. ByNow(line, ran', IF parent[p] = Shell THEN Len(line) ELSE k)
  BY <1>1, <1>3, <1>4, <1>5, Executes
<1>7. Says(line, Builtin[c], k)
  <2>1. c \notin Programs
    BY <1>1
  <2> QED BY <1>3, <1>4, <2>1 DEF Says, Succeeds
<1> HIDE DEF c
<1> QED BY <1>1, <1>3, <1>6, <1>7, RunExits

LEMMA RunSpawns ==
  ASSUME Plain, LineInv, Chain(line), RunInv, NEW p \in Procs, runcmd_spawn(p)
  PROVE  RunInv'
<1> DEFINE m == mem[p]
           n == [mem[p] EXCEPT !.then = "exofork"]
           k == Spot(line, m)
<1>1. /\ pc[p] = "leftover" /\ m.argc > 0 /\ m.excu /\ m.argv[1] \in Programs
      /\ pc' = [pc EXCEPT ![p] = "send"] /\ mem' = [mem EXCEPT ![p] = n]
      /\ UNCHANGED <<line, parent, recving, mail, ran>>
  BY DEF runcmd_spawn, Runs, Ready, Command, Ask, Goto, Set, ipc
<1>2. /\ DOMAIN m = Fields /\ p # Shell /\ ~recving[p] /\ Turn(p) /\ At(p) = "leftover"
      /\ ByNow(line, ran, Level(line, "leftover", m, parent[p])) /\ Own(line, "leftover", m, parent[p])
  BY <1>1, AtRun
<1>3. n.argv = m.argv /\ n.argc = m.argc /\ n.excu = m.excu /\ n.then = "exofork"
  BY <1>2 DEF Fields
<1> HIDE DEF n
<1>4. /\ Holding(line, m) /\ m.excu = (k \in DueIn(line))
      /\ parent[p] = Shell => IsLast(line, k)
  <2>1. \/ Bare(m)
        \/ /\ Holding(line, m) /\ m.excu = (k \in DueIn(line))
           /\ parent[p] = Shell => IsLast(line, k)
    BY <1>2 DEF Own, Running
  <2>2. ~Bare(m)
    BY <1>1 DEF Bare
  <2> QED BY <2>1, <2>2
<1>5. line[k] \in Programs
  BY <1>1, <1>4, Spots DEF Has
<1>6. Spot(line, n) = k /\ Holding(line, n)
  BY <1>3, <1>4, SameWords
<1>7. Own(line, "exofork", n, parent[p])
  BY <1>1, <1>3, <1>4, <1>5, <1>6 DEF Own, Parsing, Forking, Running, Spawning, Exiting
<1>8. ByNow(line, ran', Level(line, "exofork", n, parent[p]))
  BY <1>1, <1>2, <1>3, <1>6, Levels
<1>9. ASSUME NEW q \in Procs, q # p, At(q) \in Waiting, mem[q].child = p
      PROVE  Pair(line, At(q), mem[q], recving[q], mail[q].value, "exofork", n)
  <2>1. Pair(line, At(q), mem[q], recving[q], mail[q].value, "leftover", m)
    BY <1>2, <1>9, OfParent
  <2> QED BY <1>3, <1>6, <2>1 DEF Pair, Forking, Running, Spawning, Exiting
<1>10. "send" \in Labels \ Ended /\ "exofork" \notin Ended \cup Waiting
       /\ "exofork" = Phase("send", n) /\ pc[p] \notin Ended
  BY <1>1, <1>3 DEF Labels, Ended, Waiting, Forking, Spawning, Phase
<1> QED BY <1>1, <1>2, <1>7, <1>8, <1>9, <1>10, RunGoes

LEMMA RunSpawn ==
  ASSUME Plain, LineInv, Chain(line), RunInv, NEW p \in Procs, spawn(p)
  PROVE  RunInv'
<1> DEFINE m == mem[p]
           n == [mem[p] EXCEPT !.child = New]
           k == Spot(line, m)
<1>1. pc[p] = "exofork" /\ Spare /\ fork(p, "spawned", n, New, "program", m) /\ ran' = ran
  BY DEF spawn
<1>2. /\ DOMAIN m = Fields /\ p # Shell /\ At(p) = "exofork"
      /\ ByNow(line, ran, Level(line, "exofork", m, parent[p])) /\ Own(line, "exofork", m, parent[p])
  BY <1>1, AtRun
<1>3. n.argv = m.argv /\ n.argc = m.argc /\ n.excu = m.excu /\ n.child = New
  BY <1>2 DEF Fields
<1> HIDE DEF m, n, k
<1>4. /\ Holding(line, m) /\ m.excu = (k \in DueIn(line)) /\ m.excu /\ line[k] \in Programs
      /\ parent[p] = Shell => IsLast(line, k)
  BY <1>2 DEF Own, Running, Spawning, Bare, Holding, Has, k
<1>5. Spot(line, n) = k /\ Holding(line, n) /\ m.argc = 1
  BY <1>3, <1>4, SameWords DEF k, Holding, Has
<1>6. Own(line, "spawned", n, parent[p])
  BY <1>3, <1>4, <1>5 DEF Own, Parsing, Forking, Running, Spawning, Exiting
<1>7. Own(line, "program", m, p)
  BY <1>2, <1>4 DEF Own, Parsing, Forking, Running, Spawning, Exiting, k
<1>8. Pair(line, "spawned", n, recving[p], mail[p].value, "program", m)
  BY <1>3 DEF Pair, Forking, Running, Spawning, Exiting
<1>9. ByNow(line, ran, Level(line, "program", m, p))
  BY <1>2, <1>5, Levels DEF k
<1>10. ASSUME NEW q \in Procs, q # p, At(q) \in Waiting, mem[q].child = p
       PROVE  Pair(line, At(q), mem[q], recving[q], mail[q].value, "spawned", n)
  <2>1. Pair(line, At(q), mem[q], recving[q], mail[q].value, "exofork", m)
    BY <1>2, <1>10, OfParent DEF m
  <2> QED BY <1>3, <1>5, <2>1 DEF Pair, Forking, Running, Spawning, Exiting, k
<1>11. At(p) \notin Waiting \cup Ended
  BY <1>2 DEF Waiting, Forking, Spawning, Ended
<1> QED BY <1>1, <1>3, <1>6, <1>7, <1>8, <1>9, <1>10, <1>11, RunForks

LEMMA RunWait ==
  ASSUME Plain, LineInv, Chain(line), RunInv, NEW p \in Procs, runcmd_wait(p)
  PROVE  RunInv'
<1> DEFINE m == mem[p]
           k == Spot(line, m)
<1>1. /\ pc[p] = "wait" /\ Gone(m.child) /\ exit(p, 0)
      /\ UNCHANGED <<line, parent, recving, mail, ran>>
  BY DEF runcmd_wait, ipc
<1>2. /\ line \in Seq(Words)
      /\ ByNow(line, ran, Level(line, "wait", m, parent[p])) /\ Own(line, "wait", m, parent[p])
  BY <1>1, AtRun
<1>3. /\ Holding(line, m) /\ line[k] \in Programs
      /\ parent[p] = Shell => IsLast(line, k)
  BY <1>2 DEF Own, Running, Spawning, Bare, Holding, Has
<1>4. ByNow(line, ran, k)
  BY <1>2, Levels
<1>5. ASSUME parent[p] = Shell PROVE ByNow(line, ran, Len(line))
  <2>1. \A i \in DueIn(line) : i \in 1..Len(line) /\ i <= k
    BY <1>2, <1>3, <1>5, Tokens DEF IsLast, DueIn
  <2>2. \A i \in DueIn(line) : i <= k <=> i <= Len(line)
    BY <2>1
  <2> QED BY <1>4, <2>2, NowMoves
<1>6. Says(line, 0, k)
  BY <1>3 DEF Says, Succeeds
<1>7. ByNow(line, ran', IF parent[p] = Shell THEN Len(line) ELSE k)
  BY <1>1, <1>4, <1>5
<1>8. Holding(line, m)
  BY <1>3
<1> QED BY <1>1, <1>6, <1>7, <1>8, RunExits

LEMMA RunProgram ==
  ASSUME Plain, LineInv, Chain(line), RunInv, NEW p \in Procs, program(p)
  PROVE  RunInv'
<1> DEFINE m == mem[p]
           k == Spot(line, m)
<1>1. PICK s \in {0, 1} : exit(p, s)
  BY DEF program
<1>2. /\ pc[p] = "program" /\ ran' = Append(ran, m.argv[1]) /\ UNCHANGED <<line, parent, recving, mail>>
  BY DEF program, Command, ipc
<1>3. /\ ByNow(line, ran, Level(line, "program", m, parent[p])) /\ Own(line, "program", m, parent[p])
  BY <1>2, AtRun
<1>4. parent[p] # Shell /\ Holding(line, m) /\ k \in DueIn(line)
  BY <1>3 DEF Own
<1>5. m.argv[1] = line[k]
  BY <1>4, Spots DEF Has
<1>6. ByNow(line, ran, k - 1)
  BY <1>3, Levels
<1>7. ByNow(line, ran', IF parent[p] = Shell THEN Len(line) ELSE k)
  BY <1>2, <1>4, <1>5, <1>6, Executes
<1> QED BY <1>1, <1>2, <1>4, <1>7, RunExits

-----------------------------------------------------------------------------
(* Asking the file server, and exit. *)

LEMMA RunCloses ==
  ASSUME Plain, LineInv, LineInv', RunInv, NEW p \in Procs, runcmd_close(p) \/ exit_close(p)
  PROVE  RunInv'
<1>1. PICK l \in {"wait", "tell"} :
        /\ close_all(p, l) /\ UNCHANGED <<line, parent, recving, mail, ran>>
        /\ pc[p] = IF l = "wait" THEN "spawned" ELSE "exit"
  BY DEF runcmd_close, exit_close, ipc
<1> DEFINE m == [mem[p] EXCEPT !.inp = Console, !.out = Console]
           n == [m EXCEPT !.then = l]
<1>2. DOMAIN mem[p] = Fields
  BY Places
<1>3. /\ Alike(mem[p], m) /\ m.child = mem[p].child
      /\ Alike(mem[p], n) /\ n.child = mem[p].child /\ n.then = l
  BY <1>2 DEF Alike, Fields
<1>4. \/ pc' = [pc EXCEPT ![p] = "send"] /\ mem' = [mem EXCEPT ![p] = n]
      \/ pc' = [pc EXCEPT ![p] = l] /\ mem' = [mem EXCEPT ![p] = m]
  BY <1>1 DEF close_all, Ask, Goto, Set
<1> HIDE DEF m, n
<1>5. At(p) = pc[p] /\ Kin(l, At(p)) /\ At(p) # "asleep" /\ pc[p] \notin Ended /\ ~recving[p]
      /\ p # Shell
  <2>1. At(p) = pc[p]
    BY <1>1 DEF At, Phase
  <2>2. ~recving[p]
    BY <1>1 DEF RunInv, Dozing
  <2>3. p # Shell
    BY <1>1, <2>1, Places
  <2> QED BY <1>1, <2>1, <2>2, <2>3 DEF Kin, Ended
<1>6. Mem(pc'[p], mem'[p]) /\ pc \in [Procs -> Labels] /\ mem = [x \in Procs |-> mem[x]]
  BY DEF LineInv, Types, Mems
<1>7. l = Phase("send", n) /\ l = Phase(l, m) /\ {"send", l} \subseteq Labels \ Ended /\ l # "prompt"
  BY <1>3 DEF Phase, Labels, Ended
<1>8. CASE pc' = [pc EXCEPT ![p] = "send"] /\ mem' = [mem EXCEPT ![p] = n]
  <2>1. Mem("send", n)
    BY <1>6, <1>8
  <2> QED BY <1>1, <1>3, <1>5, <1>7, <1>8, <2>1, RunStays
<1>9. CASE pc' = [pc EXCEPT ![p] = l] /\ mem' = [mem EXCEPT ![p] = m]
  <2>1. Mem(l, m)
    BY <1>6, <1>9
  <2> QED BY <1>1, <1>3, <1>5, <1>7, <1>9, <2>1, RunStays
<1> QED BY <1>4, <1>8, <1>9

LEMMA RunAsks ==
  ASSUME Plain, LineInv, LineInv', RunInv, NEW p \in Procs,
         fsipc_send(p) \/ fsipc_recv(p) \/ fsipc_return(p)
  PROVE  RunInv'
<1> DEFINE m == mem[p]
           f == At(p)
<1>1. /\ pc[p] \in {"send", "recv", "reply"} /\ UNCHANGED <<line, mem, parent, mail, ran>>
      /\ \/ pc' = [pc EXCEPT ![p] = "recv"] /\ recving' = recving /\ ~recving[p]
         \/ pc' = [pc EXCEPT ![p] = "reply"] /\ recving' = [recving EXCEPT ![p] = TRUE]
         \/ pc' = [pc EXCEPT ![p] = m.then] /\ recving' = recving /\ ~recving[p]
  <2>1. ASSUME fsipc_send(p) PROVE ~recving[p]
    BY <2>1 DEF fsipc_send, RunInv, Dozing
  <2> QED BY <2>1 DEF fsipc_send, fsipc_recv, fsipc_return, sys_ipc_recv, Goto, ipc
<1>2. /\ f = m.then /\ f \in {"parse", "exofork", "wait", "tell"}
  BY <1>1, Phases DEF At, LineInv, Types, Mems
<1>3. PICK l \in {"recv", "reply", f} :
        /\ pc' = [pc EXCEPT ![p] = l] /\ (recving'[p] => l = "reply")
        /\ \A q \in Procs : q # p => recving'[q] = recving[q]
  <2>1. recving \in [Procs -> BOOLEAN]
    BY DEF LineInv, Types
  <2> QED BY <1>1, <1>2, <2>1
<1>4. mem' = [mem EXCEPT ![p] = m] /\ Mem(pc'[p], mem'[p]) /\ pc'[p] = l /\ mem'[p] = m
  BY <1>1, <1>3 DEF LineInv, Types, Mems
<1>5. Alike(mem[p], m) /\ m.child = mem[p].child
  BY DEF Alike
<1>6. /\ l \in Labels \ Ended /\ l # "prompt" /\ f = Phase(l, m) /\ f # "asleep" /\ Kin(f, f)
      /\ pc[p] \notin Ended
  BY <1>1, <1>2 DEF Labels, Ended, Phase, Kin
<1>7. Mem(l, m)
  BY <1>4
<1> HIDE DEF m
<1> QED BY <1>1, <1>3, <1>4, <1>5, <1>6, <1>7, RunStays

LEMMA RunServes ==
  ASSUME Plain, LineInv, RunInv, serve_reply
  PROVE  RunInv'
<1>1. serving \in Procs /\ ~panicked
  BY DEF LineInv, Types, serve_reply
<1>2. PICK p \in Procs : p = serving
  BY <1>1
<1>3. ~Gone(p)
  BY <1>2, Names DEF LineInv, Unanswered, Gone
<1>4. /\ recving[p] /\ recving' = [recving EXCEPT ![p] = FALSE]
      /\ \E o : mail' = [mail EXCEPT ![p] = o]
      /\ UNCHANGED <<line, pc, mem, parent, ran>>
  BY <1>1, <1>2, <1>3 DEF serve_reply, Delivered
<1>5. pc[p] = "reply"
  BY <1>2, <1>4 DEF LineInv, Unanswered, RunInv, Dozing
<1> DEFINE m == mem[p]
<1>6. /\ pc' = [pc EXCEPT ![p] = "reply"] /\ mem' = [mem EXCEPT ![p] = m] /\ Mem("reply", m)
      /\ ~recving'[p] /\ \A q \in Procs : q # p => recving'[q] = recving[q] /\ mail'[q] = mail[q]
  BY <1>4, <1>5 DEF LineInv, Types, Mems
<1>7. /\ At(p) = Phase("reply", m) /\ At(p) \in {"parse", "exofork", "wait", "tell"}
  BY <1>5, <1>6, Phases DEF At, Labels
<1>8. /\ Alike(mem[p], m) /\ m.child = mem[p].child /\ Kin(At(p), At(p)) /\ At(p) # "asleep"
      /\ "reply" \in Labels \ Ended /\ pc[p] \notin Ended
  BY <1>5, <1>7 DEF Alike, Kin, Labels, Ended
<1> HIDE DEF m
<1> QED BY <1>4, <1>6, <1>7, <1>8, RunStays

(* The status goes to the env that sleeps for it. *)
LEMMA RunTells ==
  ASSUME Plain, LineInv, RunInv, NEW p \in Procs, exit_tell(p)
  PROVE  RunInv'
<1> DEFINE m == mem[p]
           q == parent[p]
<1>1. /\ pc[p] = "tell" /\ ~(Busy(q) /\ mem[q].child = p)
      /\ IF recving[q] THEN Delivered(q, p, m.status) ELSE UNCHANGED <<recving, mail>>
      /\ pc' = [pc EXCEPT ![p] = "destroy"] /\ UNCHANGED <<line, mem, parent, ran>>
  BY DEF exit_tell, Goto, Plain
<1>2. At(p) = "tell" /\ p # Shell /\ ~recving[p]
  BY <1>1, Places DEF At, Phase, RunInv, Dozing
<1>3. /\ Turn(p) /\ ByNow(line, ran, Level(line, "tell", m, parent[p])) /\ Own(line, "tell", m, parent[p])
  BY <1>2, OnTurn DEF Ended, Waiting, Forking, Spawning
<1>4. q \in Procs /\ At(q) \in Waiting /\ mem[q].child = p
  BY <1>1, <1>2, Places DEF LineInv, Awaited
<1>5. q # p /\ Pair(line, At(q), mem[q], recving[q], mail[q].value, "tell", m)
  BY <1>2, <1>4, OfParent
<1>6. At(q) = pc[q] /\ At(q) \in {"asleep", "wait", "waiting"}
  <2>1. pc[q] \notin {"forked", "spawned"} /\ ~(pc[q] \in {"send", "recv", "reply"} /\ mem[q].then = "wait")
    BY <1>1, <1>4 DEF Busy
  <2>2. pc[q] \notin {"send", "recv", "reply"}
    BY <1>4, <2>1 DEF At, Phase, Waiting, Forking, Spawning, LineInv, Mems, Mem
  <2>3. At(q) = pc[q]
    BY <2>2 DEF At, Phase
  <2> QED BY <1>4, <2>1, <2>3 DEF Waiting, Forking, Spawning
<1>7. recving[q] = (At(q) = "asleep")
  <2>1. recving[q] \in BOOLEAN
    BY <1>4 DEF LineInv, Types
  <2>2. At(q) = "asleep" => recving[q]
    BY <1>5 DEF Pair
  <2>3. recving[q] => At(q) = "asleep"
    BY <1>4, <1>6 DEF RunInv, Dozing
  <2> QED BY <2>1, <2>2, <2>3
<1>8. /\ At(q) = "asleep" => ~recving'[q] /\ mail'[q].value = m.status
      /\ \A x \in Procs : x # q => recving'[x] = recving[x] /\ mail'[x] = mail[x]
      /\ \A x \in Procs : recving'[x] => recving[x]
  <2>1. recving \in [Procs -> BOOLEAN] /\ DOMAIN mail = Procs
    BY DEF LineInv, Types
  <2>2. CASE recving[q]
    <3>1. /\ recving' = [recving EXCEPT ![q] = FALSE]
          /\ mail' = [mail EXCEPT ![q] = [from |-> p, value |-> m.status]]
      BY <1>1, <2>2 DEF Delivered
    <3> HIDE DEF q, m
    <3> QED BY <1>4, <2>1, <3>1
  <2>3. CASE ~recving[q]
    BY <1>1, <1>7, <2>3
  <2> QED BY <2>2, <2>3
<1>9. Pair(line, At(q), mem[q], recving'[q], mail'[q].value, "destroy", m)
  <2>1. CASE At(q) = "asleep"
    <3>1. /\ Holding(line, m) /\ Segment(line, Spot(line, m), Read(line, mem[q]))
          /\ Says(line, m.status, Spot(line, m))
      BY <1>5, <2>1 DEF Pair, Forking, Exiting
    <3>2. Pair(line, "asleep", mem[q], FALSE, m.status, "destroy", m)
      BY <3>1 DEF Pair, Forking, Running, Spawning, Exiting
    <3>3. recving'[q] = FALSE
      <4>1. recving' \in [Procs -> BOOLEAN]
        BY <1>1 DEF Delivered, LineInv, Types
      <4> QED BY <1>4, <1>8, <2>1, <4>1
    <3> QED BY <1>8, <2>1, <3>2, <3>3
  <2>2. CASE At(q) = "wait"
    BY <1>5, <2>2 DEF Pair, Forking, Spawning, Exiting
  <2>3. CASE At(q) = "waiting"
    BY <2>3 DEF Pair, Forking, Spawning
  <2> QED BY <1>6, <2>1, <2>2, <2>3
<1>10. mem' = [mem EXCEPT ![p] = m]
  BY <1>1 DEF LineInv, Types
<1>11. ASSUME NEW x \in Procs, x # p, At(x) \in Waiting
       PROVE  IF mem[x].child = p THEN Pair(line, At(x), mem[x], recving'[x], mail'[x].value, "destroy", m)
              ELSE recving'[x] = recving[x] /\ mail'[x] = mail[x]
  <2>1. mem[x].child = p => x = q
    BY <1>11, OfParent
  <2>2. x = q => mem[x].child = p
    BY <1>4
  <2> QED BY <1>8, <1>9, <1>11, <2>1, <2>2
<1>12. /\ Own(line, "destroy", m, parent[p])
       /\ Level(line, "destroy", m, parent[p]) = Level(line, "tell", m, parent[p])
  <2>1. Own(line, "destroy", m, parent[p])
    BY <1>3 DEF Own, Parsing, Forking, Running, Spawning, Exiting
  <2>2. "destroy" \in Exiting /\ "tell" \in Exiting
    BY DEF Exiting
  <2>3. Level(line, "destroy", m, parent[p]) = IF parent[p] = Shell THEN Len(line) ELSE Spot(line, m)
    BY <2>2, Levels
  <2>4. Level(line, "tell", m, parent[p]) = IF parent[p] = Shell THEN Len(line) ELSE Spot(line, m)
    BY <2>2, Levels
  <2> QED BY <2>1, <2>3, <2>4
<1>13. /\ "destroy" \in Labels /\ "destroy" \notin Ended /\ "destroy" \notin Waiting /\ pc[p] \notin Ended
       /\ "destroy" = Phase("destroy", m)
  BY <1>1 DEF Labels, Ended, Waiting, Forking, Spawning, Phase
<1> HIDE DEF m, q
<1>14. \A x \in Procs : recving'[x] => IF x = p THEN "destroy" \in {"asleep", "reply"} ELSE recving[x]
  BY <1>2, <1>8
<1>15. GoesOn(p, "destroy", m, "destroy")
  BY <1>1, <1>3, <1>10, <1>11, <1>12, <1>13, <1>14 DEF GoesOn
<1> QED BY <1>13, <1>15, RunMoves

(* An env is gone, and it is its parent's turn. *)
LEMMA RunDestroys ==
  ASSUME Plain, LineInv, RunInv, NEW p \in Procs, exit_destroy(p)
  PROVE  RunInv'
<1> DEFINE m == mem[p]
           k == Spot(line, m)
<1>1. /\ pc[p] = "destroy" /\ pc' = [pc EXCEPT ![p] = "gone"]
      /\ UNCHANGED <<line, mem, parent, recving, mail, ran>>
  BY DEF exit_destroy, Goto, ipc
<1>2. /\ pc'[p] = "gone" /\ \A x \in Procs : x # p => pc'[x] = pc[x]
  BY <1>1 DEF LineInv, Types
<1>3. At(p) = "destroy" /\ At(p)' = "gone" /\ \A x \in Procs : x # p => At(x)' = At(x)
  <2>1. At(p)' = Phase(pc'[p], mem'[p])
    BY DEF At
  <2>2. Phase(pc'[p], mem'[p]) = "gone" /\ At(p) = "destroy"
    BY <1>1, <1>2 DEF At, Phase
  <2>3. \A x \in Procs : x # p => At(x)' = At(x)
    BY <1>1, <1>2 DEF At
  <2> QED BY <2>1, <2>2, <2>3
<1>4. p # Shell /\ line \in Seq(Words)
  BY <1>3, Places DEF LineInv, Types, Plain
<1>5. /\ Turn(p) /\ ByNow(line, ran, Level(line, "destroy", m, parent[p]))
  BY <1>3, OnTurn DEF Ended, Waiting, Forking, Spawning
<1>6. Owned /\ Paired /\ Starts /\ Orphan /\ Dozing /\ OneTurn /\ SoFar
  BY DEF RunInv
<1>7. Owned'
  <2>1. ASSUME NEW x \in Procs \ {Shell}, At(x)' \notin Ended
        PROVE  Own(line', At(x)', mem'[x], parent'[x])
    <3>1. x # p
      BY <1>3, <2>1 DEF Ended
    <3>2. At(x)' = At(x)
      BY <1>3, <3>1
    <3>3. Own(line, At(x), mem[x], parent[x])
      BY <1>6, <2>1, <3>2 DEF Owned
    <3> QED BY <1>1, <3>2, <3>3
  <2> QED BY <2>1 DEF Owned
<1>8. Paired'
  <2>1. ASSUME NEW x \in Procs, At(x)' \in Waiting, NEW c, c = mem[x].child
        PROVE  /\ c \in Procs /\ pc'[c] # "none" /\ parent[c] = x
               /\ Pair(line, At(x)', mem[x], recving[x], mail[x].value, At(c)', mem[c])
    <3>1. x # p
      BY <1>3, <2>1 DEF Waiting, Forking, Spawning
    <3>2. At(x)' = At(x)
      BY <1>3, <3>1
    <3>3. /\ c \in Procs /\ pc[c] # "none" /\ parent[c] = x
          /\ Pair(line, At(x), mem[x], recving[x], mail[x].value, At(c), mem[c])
      BY <1>6, <2>1, <3>2 DEF Paired, Tied
    <3>4. pc'[c] # "none"
      BY <1>2, <3>3
    <3>5. CASE c = p
      <4>1. Pair(line, At(x), mem[x], recving[x], mail[x].value, "destroy", m)
        BY <1>3, <3>3, <3>5
      <4>2. Pair(line, At(x), mem[x], recving[x], mail[x].value, "gone", m)
        BY <4>1 DEF Pair, Forking, Running, Spawning, Exiting
      <4>3. At(c)' = "gone"
        BY <1>3, <3>5
      <4> QED BY <3>2, <3>3, <3>4, <3>5, <4>2, <4>3
    <3>6. CASE c # p
      <4>1. At(c)' = At(c)
        BY <1>3, <3>3, <3>6
      <4> QED BY <3>2, <3>3, <3>4, <4>1
    <3> QED BY <3>5, <3>6
  <2> QED BY <1>1, <2>1 DEF Paired, Tied
<1>9. Starts' /\ Orphan' /\ Dozing'
  <2>1. Starts' /\ Orphan'
    BY <1>1, <1>2, <1>4, <1>6, Names DEF Starts, Orphan
  <2>2. Dozing'
    BY <1>1, <1>2, <1>6 DEF Dozing
  <2> QED BY <2>1, <2>2
<1>10. ASSUME NEW x \in Procs, Turn(x)'
       PROVE  /\ x # p /\ x = parent[p] /\ At(x)' = At(x) /\ At(x) \in Waiting
              /\ Pair(line, At(x), mem[x], recving[x], mail[x].value, "destroy", m)
  <2>1. At(x)' \notin Ended /\ (At(x)' \in Waiting => pc'[mem'[x].child] = "gone")
    BY <1>10 DEF Turn
  <2>2. x # p /\ At(x)' = At(x)
    BY <1>3, <2>1 DEF Ended
  <2>3. ~Turn(x)
    BY <1>5, <1>6, <2>2 DEF OneTurn
  <2>4. At(x) \in Waiting /\ pc[mem[x].child] # "gone"
    BY <2>1, <2>2, <2>3 DEF Turn
  <2>5. mem[x].child \in Procs /\ pc'[mem[x].child] = "gone"
    BY <1>1, <1>6, <2>1, <2>2, <2>4 DEF Paired, Tied
  <2>6. mem[x].child = p
    BY <1>2, <2>4, <2>5
  <2> QED BY <1>3, <2>2, <2>4, <2>6, OfParent
<1>11. OneTurn'
  BY <1>10 DEF OneTurn
<1>12. SoFar'
  <2>1. ASSUME NEW x \in Procs, Turn(x)'
        PROVE  ByNow(line, ran, Level(line, At(x), mem[x], parent[x]))
    <3>1. /\ x = parent[p] /\ At(x) \in Waiting
          /\ Pair(line, At(x), mem[x], recving[x], mail[x].value, "destroy", m)
      BY <1>10, <2>1
    <3>2. Level(line, "destroy", m, parent[p]) = IF x = Shell THEN Len(line) ELSE k
      <4>1. "destroy" \in Exiting
        BY DEF Exiting
      <4> QED BY <3>1, <4>1, Levels
    <3>3. CASE x = Shell
      <4>1. At(x) = "waiting"
        BY <3>1, <3>3, Places DEF Waiting, Forking, Spawning
      <4> QED BY <1>5, <3>2, <3>3, <4>1, Levels
    <3>4. CASE x # Shell
      <4>1. ByNow(line, ran, k)
        BY <1>5, <3>2, <3>4
      <4>2. At(x) \in Forking \cup Spawning
        BY <3>1, <3>4, Places DEF Waiting
      <4>3. CASE At(x) \in Forking
        <5> DEFINE n == Read(line, mem[x])
        <5>1. Segment(line, k, n)
          BY <3>1, <4>3 DEF Pair
        <5>2. Level(line, At(x), mem[x], parent[x]) = n
          BY <4>3, Levels DEF Forking
        <5> HIDE DEF n, k
        <5>3. \A i \in DueIn(line) : i <= k <=> i <= n
          <6>1. k \in Nat /\ n \in Nat /\ k <= n
            BY <1>4, <5>1, Tokens DEF Segment
          <6>2. ASSUME NEW i \in DueIn(line), i <= n PROVE i <= k
            <7>1. i \in Nat /\ line[i] \in Commands /\ line[i] # ">"
              BY <1>4, Tokens DEF DueIn
            <7>2. ~(i \in (k + 1)..n)
              BY <5>1, <7>1 DEF Segment
            <7> QED BY <6>1, <6>2, <7>1, <7>2
          <6>3. DueIn(line) \subseteq Nat
            BY <1>4, Tokens
          <6> QED BY <6>1, <6>2, <6>3
        <5> QED BY <4>1, <5>2, <5>3, NowMoves
      <4>4. CASE At(x) \in Spawning
        <5>1. m.argv = mem[x].argv /\ m.argc = mem[x].argc
          BY <3>1, <4>4 DEF Pair
        <5>2. Spot(line, m) = Spot(line, mem[x])
          BY <5>1, SameWords
        <5>3. Level(line, At(x), mem[x], parent[x]) = Spot(line, mem[x])
          BY <4>4, Levels DEF Spawning
        <5> QED BY <4>1, <5>2, <5>3
      <4> QED BY <4>2, <4>3, <4>4
    <3> QED BY <3>3, <3>4
  <2>2. ASSUME NEW x \in Procs, Turn(x)'
        PROVE  ByNow(line', ran', Level(line', At(x)', mem'[x], parent'[x]))
    <3>1. At(x)' = At(x)
      BY <1>10, <2>2
    <3> QED BY <1>1, <2>1, <2>2, <3>1
  <2> QED BY <2>2 DEF SoFar
<1> QED BY <1>7, <1>8, <1>9, <1>11, <1>12 DEF RunInv

-----------------------------------------------------------------------------
(* The shell, and the whole. *)

(* Nobody waits for the shell. *)
LEMMA NoParent ==
  ASSUME LineInv, RunInv, NEW q \in Procs, At(q) \in Waiting, q # Shell
  PROVE  mem[q].child # Shell
<1> SUFFICES ASSUME mem[q].child = Shell PROVE FALSE
  OBVIOUS
<1>1. Pair(line, At(q), mem[q], recving[q], mail[q].value, At(Shell), mem[Shell])
  BY OfParent
<1>2. At(Shell) \in {"prompt", "waiting", "done"}
  BY Names, Places
<1>3. At(q) \in Forking \cup Spawning
  BY Places DEF Waiting
<1> QED BY <1>1, <1>2, <1>3 DEF Pair, Forking, Running, Spawning, Exiting

LEMMA RunMain ==
  ASSUME Plain, LineInv, RunInv, main
  PROVE  RunInv'
<1>1. Shell \in Procs /\ pc[Shell] \in {"prompt", "waiting", "done"} /\ line \in Seq(Words)
      /\ DOMAIN mem[Shell] = Fields
  BY Names, Places DEF LineInv, Types, Plain, OneShell
<1>2. At(Shell) = pc[Shell] /\ ~recving[Shell]
  BY <1>1 DEF At, Phase, RunInv, Dozing
<1>3. CASE main_fork
  <2> DEFINE m == [mem[Shell] EXCEPT !.child = New]
             mc == [mem[Shell] EXCEPT !.todo = line]
  <2>1. pc[Shell] = "prompt" /\ Spare /\ fork(Shell, "waiting", m, New, "parse", mc) /\ ran' = ran
    BY <1>3 DEF main_fork
  <2>2. Bare(mem[Shell]) /\ mem[Shell].excu = TRUE
    BY <2>1 DEF RunInv, Starts
  <2>3. /\ m.child = New
        /\ mc.argc = 0 /\ mc.argv = <<>> /\ mc.todo = line /\ mc.excu = TRUE
    BY <1>1, <2>2 DEF Fields, Bare
  <2> HIDE DEF m, mc
  <2>4. /\ Len(line) \in Nat /\ OpsOf(line) \subseteq 1..Len(line) /\ DueIn(line) \subseteq 1..Len(line)
    BY <1>1, Tokens
  <2>5. Read(line, mc) = 0
    BY <2>3, <2>4 DEF Read
  <2>6. Unread(line, mc)
    <3>1. \A i \in 1..Len(line) : Read(line, mc) + i = i
      BY <2>4, <2>5
    <3> QED BY <2>3, <2>4, <3>1 DEF Unread
  <2>7. Go(line, 0) = TRUE
    <3>1. \A j \in OpsOf(line) : ~(j <= 0)
      BY <2>4
    <3> QED BY <3>1 DEF Go
  <2>8. Own(line, "parse", mc, Shell)
    BY <2>3, <2>5, <2>6, <2>7 DEF Own, Parsing, Forking, Running, Spawning, Exiting, Bare
  <2>9. ByNow(line, ran, Level(line, "parse", mc, Shell))
    <3>1. ByNow(line, ran, Level(line, "prompt", mem[Shell], parent[Shell]))
      BY <1>1, <1>2, <2>1, OnTurn DEF Ended, Waiting, Forking, Spawning
    <3> QED BY <2>3, <2>5, <3>1, Levels
  <2>10. Pair(line, "waiting", m, recving[Shell], mail[Shell].value, "parse", mc)
    BY DEF Pair, Forking, Spawning
  <2>11. At(Shell) \notin Waiting \cup Ended
    BY <1>2, <2>1 DEF Waiting, Forking, Spawning, Ended
  <2> QED BY <1>1, <2>1, <2>3, <2>8, <2>9, <2>10, <2>11, NoParent, RunForks
<1>4. CASE main_wait
  <2> DEFINE m == mem[Shell]
  <2>1. /\ pc[Shell] = "waiting" /\ Gone(m.child) /\ pc' = [pc EXCEPT ![Shell] = "done"]
        /\ UNCHANGED <<line, mem, parent, recving, mail, ran>>
    BY <1>4 DEF main_wait, Goto, ipc
  <2>2. mem' = [mem EXCEPT ![Shell] = m]
    BY <2>1 DEF LineInv, Types
  <2>3. pc[m.child] = "gone"
    <3>1. m.child \in Procs
      BY <1>1, <1>2, <2>1 DEF RunInv, Paired, Tied, Waiting
    <3> QED BY <2>1, <3>1, Names DEF Gone
  <2>4. Turn(Shell) /\ ByNow(line, ran, Level(line, "waiting", m, parent[Shell]))
    BY <1>1, <1>2, <2>1, <2>3, OnTurn DEF Ended
  <2>5. ByNow(line, ran', Level(line, "done", m, parent[Shell]))
    BY <2>1, <2>4, Levels
  <2>6. "done" \in Labels \ Ended /\ "done" \notin Ended \cup Waiting
        /\ "done" = Phase("done", m) /\ pc[Shell] \notin Ended
    BY <2>1 DEF Labels, Ended, Waiting, Forking, Spawning, Phase
  <2> HIDE DEF m
  <2> QED BY <1>1, <1>2, <2>1, <2>2, <2>4, <2>5, <2>6, NoParent, RunGoes
<1> QED BY <1>3, <1>4 DEF main

LEMMA RunInit == Init => RunInv
<1> SUFFICES ASSUME Init PROVE RunInv
  OBVIOUS
<1>1. \A x \in Procs : At(x) = IF x = Shell THEN "prompt" ELSE "none"
  BY DEF Init, At, Phase
<1>2. Owned /\ Paired
  BY <1>1 DEF Owned, Paired, Ended, Waiting, Forking, Spawning
<1>3. Starts /\ Orphan /\ Dozing
  BY Names DEF Init, Starts, Orphan, Dozing, Bare
<1>4. \A x \in Procs : Turn(x) => x = Shell
  BY <1>1 DEF Turn, Ended
<1>5. OneTurn
  BY <1>4 DEF OneTurn
<1>6. ByNow(line, ran, 0)
  <2>1. ran = <<>>
    BY DEF Init
  <2>2. line \in Seq(Commands \cup {"&&", "||", ";", "|", ">"})
    BY CommandsAssumption DEF Init
  <2>3. DueIn(line) \subseteq 1..Len(line) /\ Len(line) \in Nat
    <3>1. DOMAIN line = 1..Len(line) /\ Len(line) \in Nat
      BY <2>2, LenProperties
    <3> QED BY <3>1 DEF DueIn
  <2>4. \A i \in DueIn(line) : ~(i <= 0)
    BY <2>3
  <2> QED BY <2>1, <2>4 DEF ByNow
<1>7. SoFar
  <2>1. ASSUME NEW x \in Procs, Turn(x)
        PROVE  ByNow(line, ran, Level(line, At(x), mem[x], parent[x]))
    <3>1. At(x) = "prompt"
      BY <1>1, <1>4, <2>1
    <3> QED BY <1>6, <3>1, Levels
  <2> QED BY <2>1 DEF SoFar
<1> QED BY <1>2, <1>3, <1>5, <1>7 DEF RunInv

LEMMA RunStep ==
  Plain /\ Disjoint /\ LineInv /\ LineInv' /\ Chain(line) /\ RunInv /\ [Next]_vars => RunInv'
<1> SUFFICES ASSUME Plain, Disjoint, LineInv, LineInv', Chain(line), RunInv, [Next]_vars PROVE RunInv'
  OBVIOUS
<1>1. ASSUME NEW p \in Procs, parsecmd(p) PROVE RunInv'
  BY <1>1, NoPipe, RunWord, RunRedirect, RunAndor, RunAndorRecv, RunAndorWait, RunParsed
     DEF parsecmd, pipeline, semicolon
<1>2. ASSUME NEW p \in Procs, runcmd(p) PROVE RunInv'
  BY <1>2, RunNothing, RunBuiltin, RunSpawns, RunSpawn, RunCloses, RunWait, RunProgram DEF runcmd, Disjoint
<1>3. ASSUME NEW p \in Procs, fsipc(p) PROVE RunInv'
  BY <1>3, RunAsks DEF fsipc
<1>4. ASSUME NEW p \in Procs, exit_r(p) PROVE RunInv'
  BY <1>4, RunCloses, RunTells, RunDestroys DEF exit_r
<1>5. ASSUME NEW p \in Procs, Step(p) PROVE RunInv'
  BY <1>1, <1>2, <1>3, <1>4, <1>5 DEF Step
<1>6. CASE UNCHANGED vars
  BY <1>6 DEF vars, RunInv, Owned, Paired, Starts, Orphan, Dozing, OneTurn, SoFar, Tied, Turn, At
<1> QED BY <1>5, <1>6, RunMain, RunServes DEF Next

LEMMA SameLine == [Next]_vars => line' = line
<1> SUFFICES ASSUME [Next]_vars PROVE line' = line
  OBVIOUS
<1>1. ASSUME NEW p \in Procs, parsecmd(p) PROVE line' = line
  BY <1>1 DEF parsecmd, word, redirect, pipeline, semicolon, andor, andor_recv, andor_wait, parsed, fork
<1>2. ASSUME NEW p \in Procs, runcmd(p) PROVE line' = line
  BY <1>2 DEF runcmd, runcmd_nothing, runcmd_builtin, runcmd_spawn, spawn, runcmd_close, runcmd_wait,
              program, fork
<1>3. ASSUME NEW p \in Procs, Step(p) PROVE line' = line
  BY <1>1, <1>2, <1>3 DEF Step, fsipc, fsipc_send, fsipc_recv, fsipc_return,
                          exit_r, exit_close, exit_tell, exit_destroy
<1>4. CASE UNCHANGED vars
  BY <1>4 DEF vars
<1> QED BY <1>3, <1>4 DEF Next, main, main_fork, main_wait, fork, serve_reply

LEMMA RunInvariant ==
  ASSUME Plain, Disjoint
  PROVE  Spec => []LineInv /\ [](Chain(line) => RunInv)
<1> DEFINE Inv == LineInv /\ (Chain(line) => RunInv)
<1>1. Init => Inv
  BY LineInit, RunInit
<1>2. Inv /\ [Next]_vars => Inv'
  <2> SUFFICES ASSUME Inv, [Next]_vars PROVE Inv'
    OBVIOUS
  <2>1. LineInv'
    BY LineStep
  <2>2. Chain(line)' <=> Chain(line)
    BY SameLine
  <2> QED BY <2>1, <2>2, RunStep
<1>3. Inv => LineInv /\ (Chain(line) => RunInv)
  OBVIOUS
<1> HIDE DEF Inv
<1> QED BY <1>1, <1>2, <1>3, PTL DEF Spec

(* The command to the left of an operator before a command that is due is   *)
(* due too. *)
LEMMA LeftIsDue ==
  ASSUME NEW w \in Seq(Words), Chain(w), NEW i \in DueIn(w), NEW j \in OpsOf(w), j < i
  PROVE  \E k \in DueIn(w) : k < j /\ LeftIn(w, j) = w[k]
<1> DEFINE S == {k \in 1..(j - 1) : w[k] \in Commands}
           k == Max(S)
<1>1. Len(w) \in Nat /\ DOMAIN w = 1..Len(w) /\ i \in 1..Len(w) /\ j \in 1..Len(w)
  BY Tokens
<1>2. w[1] \in Commands /\ 1 \in DOMAIN w
  BY <1>1 DEF Chain
<1>3. j # 1
  BY <1>2, Tokens
<1>4. S \in SUBSET (1..(j - 1)) /\ 1 \in S /\ j - 1 \in Nat
  BY <1>1, <1>2, <1>3
<1>5. k \in S
  <2> HIDE DEF S
  <2> QED BY <1>4, Greatest
<1> HIDE DEF k
<1>6. k \in 1..Len(w) /\ w[k] \in Commands /\ k < j
  BY <1>1, <1>5
<1>7. \A o \in OpsOf(w) : o < k => Agrees(w, o)
  <2>1. \A o \in OpsOf(w) : o \in Int /\ (o < i => Agrees(w, o))
    BY Tokens DEF DueIn
  <2> QED BY <1>1, <1>6, <2>1
<1>8. k \in DueIn(w)
  BY <1>1, <1>6, <1>7 DEF DueIn
<1>9. LeftIn(w, j) = w[k]
  BY DEF LeftIn, k
<1> QED BY <1>6, <1>8, <1>9

(* What has been executed in the end. *)
LEMMA NowAll ==
  ASSUME NEW w \in Seq(Words), Chain(w), NEW r \in Seq(Commands), ByNow(w, r, Len(w))
  PROVE  /\ Len(r) = Cardinality(DueIn(w))
         /\ {r[a] : a \in DOMAIN r} = {w[i] : i \in DueIn(w)}
         /\ \A i \in DueIn(w) : \E a \in DOMAIN r : r[a] = w[i] /\ Max({b \in DOMAIN r : r[b] = w[i]}) = a
         /\ \A a, b \in DOMAIN r, i, j \in DueIn(w) : r[a] = w[i] /\ r[b] = w[j] => (i < j <=> a < b)
<1> DEFINE D == DueIn(w)
           Of(a) == CHOOSE i \in D : r[a] = w[i]
           f == [a \in 1..Len(r) |-> Of(a)]
<1>1. /\ Len(w) \in Nat /\ DOMAIN w = 1..Len(w) /\ D \subseteq 1..Len(w)
      /\ Len(r) \in Nat /\ DOMAIN r = 1..Len(r)
  BY Tokens
<1>2. \A a \in DOMAIN r : \E i \in D : r[a] = w[i]
  BY DEF ByNow
<1>3. \A i \in D : \E a \in DOMAIN r : r[a] = w[i]
  BY <1>1 DEF ByNow
<1>4. \A a, b \in DOMAIN r, i, j \in D : r[a] = w[i] /\ r[b] = w[j] => (i < j <=> a < b)
  BY DEF ByNow
<1>5. \A a, b \in DOMAIN r, i \in D : r[a] = w[i] /\ r[b] = w[i] => a = b
  <2> SUFFICES ASSUME NEW a \in DOMAIN r, NEW b \in DOMAIN r, NEW i \in D, r[a] = w[i], r[b] = w[i]
               PROVE  a = b
    OBVIOUS
  <2>1. i \in Nat /\ a \in Nat /\ b \in Nat
    BY <1>1
  <2>2. ~(i < i)
    BY <2>1
  <2>3. ~(a < b) /\ ~(b < a)
    BY <1>4, <2>2
  <2> QED BY <2>1, <2>3
<1>6. \A i, j \in D : w[i] = w[j] => i = j
  BY DEF Chain, DueIn
<1> HIDE DEF D
<1>7. \A a \in DOMAIN r : Of(a) \in D /\ r[a] = w[Of(a)]
  BY <1>2
<1> HIDE DEF Of
<1>8. f \in Bijection(1..Len(r), D)
  <2>1. f \in [1..Len(r) -> D]
    BY <1>1, <1>7
  <2>2. \A a, b \in 1..Len(r) : f[a] = f[b] => a = b
    BY <1>1, <1>5, <1>7
  <2>3. \A i \in D : \E a \in 1..Len(r) : f[a] = i
    <3>1. ASSUME NEW i \in D PROVE \E a \in 1..Len(r) : f[a] = i
      <4>1. PICK a \in DOMAIN r : r[a] = w[i]
        BY <1>3
      <4>2. Of(a) = i
        BY <1>6, <1>7, <4>1
      <4>3. a \in 1..Len(r) /\ f[a] = Of(a)
        BY <1>1
      <4> QED BY <4>2, <4>3
    <3> QED BY <3>1
  <2> HIDE DEF f
  <2> QED BY <2>1, <2>2, <2>3 DEF Bijection, Injection, Surjection, IsInjective
<1>9. Len(r) = Cardinality(D)
  BY <1>1, <1>8, FS_CountingElements DEF ExistsBijection
<1>10. {r[a] : a \in DOMAIN r} = {w[i] : i \in D}
  BY <1>2, <1>3
<1>11. ASSUME NEW i \in D
       PROVE  \E a \in DOMAIN r : r[a] = w[i] /\ Max({b \in DOMAIN r : r[b] = w[i]}) = a
  <2> DEFINE S == {b \in DOMAIN r : r[b] = w[i]}
  <2>1. PICK a \in DOMAIN r : r[a] = w[i]
    BY <1>3
  <2>2. \A b \in S : b = a
    BY <1>5, <2>1
  <2>3. S \in SUBSET Int /\ a \in S /\ a \in Int
    BY <1>1, <2>1
  <2> HIDE DEF S
  <2>4. \A b \in S : b <= a
    BY <2>2, <2>3
  <2>5. Max(S) = a
    BY <2>3, <2>4, MaxIs
  <2> QED BY <2>1, <2>5 DEF S
<1> QED BY <1>4, <1>9, <1>10, <1>11 DEF D

(* Of a line in which a command stands in front and behind each operator,   *)
(* each of another name, and no && behind a command that is skipped, what   *)
(* is due has been executed when the line has ended, once and in its order, *)
(* and nothing else has: whatever the redirections in it, with any number   *)
(* of envs, and however they are scheduled. *)
THEOREM ChainsRunAsWritten ==
  ASSUME Plain, Disjoint
  PROVE  Spec => [](Chain(line) => RanAsWritten)
<1>1. ASSUME LineInv, Chain(line), RunInv PROVE RanAsWritten
  <2> SUFFICES ASSUME Quiet
               PROVE  /\ Len(ran) = Cardinality(Due)
                      /\ {ran[k] : k \in DOMAIN ran} = {line[i] : i \in Due}
                      /\ \A i \in Due, j \in Ops : j < i => PlaceOf(LeftOf(j)) < PlaceOf(line[i])
    BY DEF RanAsWritten
  <2>1. line \in Seq(Words) /\ ran \in Seq(Commands)
    BY <1>1 DEF LineInv, Types, Plain
  <2>2. ByNow(line, ran, Len(line))
    <3>1. Shell \in Procs /\ pc[Shell] = "done" /\ At(Shell) = "done"
      BY Names DEF Quiet, At, Phase
    <3>2. Turn(Shell)
      BY <3>1 DEF Turn, Ended, Waiting, Forking, Spawning
    <3> QED BY <1>1, <3>1, <3>2, Levels DEF RunInv, SoFar
  <2>3. Ops = OpsOf(line) /\ \A j : LeftOf(j) = LeftIn(line, j)
    BY DEF Ops, OpsOf, LeftOf, LeftIn
  <2>4. Due = DueIn(line)
    BY <2>3 DEF Due, DueIn, Agrees
  <2>5. ASSUME NEW i \in Due, NEW j \in Ops, j < i PROVE PlaceOf(LeftOf(j)) < PlaceOf(line[i])
    <3>1. PICK k \in DueIn(line) : k < j /\ LeftIn(line, j) = line[k]
      BY <1>1, <2>1, <2>3, <2>4, <2>5, LeftIsDue
    <3>2. PICK a \in DOMAIN ran : ran[a] = line[k] /\ PlaceOf(line[k]) = a
      BY <1>1, <2>1, <2>2, NowAll DEF PlaceOf
    <3>3. PICK b \in DOMAIN ran : ran[b] = line[i] /\ PlaceOf(line[i]) = b
      BY <1>1, <2>1, <2>2, <2>4, NowAll DEF PlaceOf
    <3>4. k < i
      <4>1. k \in Nat /\ j \in Nat /\ i \in Nat
        BY <2>1, <2>3, <2>4, Tokens
      <4> QED BY <2>5, <3>1, <4>1
    <3>5. a < b
      BY <1>1, <2>1, <2>2, <2>4, <3>2, <3>3, <3>4, NowAll
    <3> QED BY <2>3, <3>1, <3>2, <3>3, <3>5
  <2> QED BY <1>1, <2>1, <2>2, <2>4, <2>5, NowAll
<1> QED BY <1>1, RunInvariant, PTL
=============================================================================
