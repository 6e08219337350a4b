------------------------------ MODULE ShellVars ------------------------------
(***************************************************************************)
(* The shell's variables: the kernel's table of exported variables, with a *)
(* row for each level of nesting (sys_get_set_globalVar), the page of a    *)
(* shell's own variables (sh.c), and the file /shellId through which a     *)
(* shell tells the one it starts which row is its own.                     *)
(*                                                                         *)
(* A built-in runs in a forked child.  localVar's page is mapped with      *)
(* PTE_D and PTE_COW, which fork passes on as it is: the child writes the  *)
(* shell's page.  A shell waits for its child, so one command runs at a    *)
(* time, in the innermost shell.                                           *)
(***************************************************************************)
EXTENDS Integers, Sequences, FiniteSets, FiniteSetsExt

CONSTANTS
  Names, Values,
  NSlots,     \* entries of a table: 100 in the code
  NRows,      \* rows of globalVar: 7 in the code
  Absent

ASSUME ShellVarsAssumption ==
  /\ NSlots \in Nat \ {0} /\ NRows \in Nat \ {0}
  /\ Names # {} /\ Values # {}
ASSUME AbsentAssumption ==
  Absent \notin [name : Names, val : Values, ro : BOOLEAN]
               \cup [val : Values, ro : BOOLEAN, exported : BOOLEAN]

VARIABLES
  globalVar,  \* [rows -> tables]
  stack,      \* the running shells: shellId, localVar, and whether it has
              \* got past the start of main
  shellIdFile \* the number in /shellId

vars == <<globalVar, stack, shellIdFile>>

Slots == 1..NSlots
Rows == 0..(NRows - 1)
AVar == [name : Names, val : Values, ro : BOOLEAN]
Tables == [Slots -> AVar \cup {Absent}]  \* Absent: mode is 0
Clear == [i \in Slots |-> Absent]

-----------------------------------------------------------------------------
(* The modes of sys_get_set_globalVar, which get_set_localVar has as well.  *)

At(t, n) == {i \in Slots : t[i] # Absent /\ t[i].name = n}
Has(t, n) == At(t, n) # {}
ReadOnly(t, n) == t[Min(At(t, n))].ro
Entry(n, v, r) == [name |-> n, val |-> v, ro |-> r]

(* mode 1 *)
Set(t, n, v, r) == [t EXCEPT ![Min(At(t, n))] = Entry(n, v, r)]
(* modes 2 and 5 of get_set_localVar, once it may *)
Delete(t, n) == [t EXCEPT ![Min(At(t, n))] = Absent]
(* mode 4: the first free entry *)
Create(t, n, v, r) == [t EXCEPT ![Min({i \in Slots : t[i] = Absent})] = Entry(n, v, r)]
Room(t) == \E i \in Slots : t[i] = Absent
Copy_writable(t, from) ==   \* faulty: the mode is not copied
  [i \in Slots |-> IF from[i] # Absent THEN [from[i] EXCEPT !.ro = FALSE] ELSE t[i]]
(* mode 5 of the system call: entry by entry, and only those in use *)
Copy(t, from) == [i \in Slots |-> IF from[i] # Absent THEN from[i] ELSE t[i]]

-----------------------------------------------------------------------------
Shell == stack[Len(stack)]
Running == stack # <<>> /\ Shell.started
Global == globalVar[Shell.id]
Local == Shell.local
(* The one system call, and the one call on the shell's page, that change.  *)
sys_get_set_globalVar(t) == globalVar' = [globalVar EXCEPT ![Shell.id] = t]
get_set_localVar(t) == stack' = [stack EXCEPT ![Len(stack)].local = t]

(* init writes 0 to the file before it starts the first shell. *)
Init ==
  /\ globalVar = [id \in Rows |-> Clear]
  /\ stack = <<>>
  /\ shellIdFile = 0

New == [id |-> 0, local |-> Clear, started |-> FALSE]

init_loop ==
  /\ stack = <<>>
  /\ shellIdFile' = 0
  /\ stack' = <<New>>
  /\ UNCHANGED globalVar

(* addShellIdToFile: the number without leading zeros, so that for 0 there  *)
(* is nothing to write; the file is not truncated. *)
addShellIdToFile(type) ==
  LET ans == Max({0, Shell.id + type})
  IN shellIdFile' = IF ans = 0 THEN shellIdFile ELSE ans

(* The built-in sh, in the forked child, and the spawn of sh.b.  Bound: as  *)
(* many shells as there are rows (the code checks no bound). *)
sh ==
  /\ Running /\ Len(stack) < NRows
  /\ addShellIdToFile(1)
  /\ stack' = Append(stack, New)
  /\ UNCHANGED globalVar

(* The start of main: getShellId, and mode 5 with the id.                   *)
main_start ==
  /\ stack # <<>> /\ ~Shell.started
  /\ LET id == shellIdFile IN
     /\ stack' = [stack EXCEPT ![Len(stack)] = [@ EXCEPT !.id = id, !.started = TRUE]]
     /\ globalVar' = IF id = 0 THEN globalVar
                     ELSE [globalVar EXCEPT ![id] = Copy(@, globalVar[id - 1])]
  /\ UNCHANGED shellIdFile

main_exit_keeps ==   \* faulty: the row is not cleared
  /\ Running
  /\ addShellIdToFile(-1)
  /\ stack' = SubSeq(stack, 1, Len(stack) - 1)
  /\ UNCHANGED globalVar

(* The line exit: mode 7 clears the row. *)
main_exit ==
  /\ Running
  /\ sys_get_set_globalVar(Clear)
  /\ addShellIdToFile(-1)
  /\ stack' = SubSeq(stack, 1, Len(stack) - 1)

-----------------------------------------------------------------------------
(* declare [-x] [-r] n=v; a step per path that changes something.           *)

declare_export_keeps(n, v, r) ==   \* faulty: the page keeps its entry
  /\ Running
  /\ IF Has(Global, n)
     THEN ~ReadOnly(Global, n) /\ sys_get_set_globalVar(Set(Global, n, v, r))
     ELSE Room(Global) /\ sys_get_set_globalVar(Create(Global, n, v, r))
  /\ UNCHANGED <<stack, shellIdFile>>

(* -x: into the table, and out of the page whatever the mode there. *)
declare_export(n, v, r) ==
  /\ Running
  /\ IF Has(Global, n)
     THEN ~ReadOnly(Global, n) /\ sys_get_set_globalVar(Set(Global, n, v, r))
     ELSE Room(Global) /\ sys_get_set_globalVar(Create(Global, n, v, r))
  /\ IF Has(Local, n) THEN get_set_localVar(Delete(Local, n)) ELSE UNCHANGED stack
  /\ UNCHANGED shellIdFile

declare_global(n, v, r) ==
  /\ Running /\ Has(Global, n) /\ ~ReadOnly(Global, n)
  /\ sys_get_set_globalVar(Set(Global, n, v, r))
  /\ UNCHANGED <<stack, shellIdFile>>

declare_local(n, v, r) ==
  /\ Running /\ ~Has(Global, n)
  /\ IF Has(Local, n)
     THEN ~ReadOnly(Local, n) /\ get_set_localVar(Set(Local, n, v, r))
     ELSE Room(Local) /\ get_set_localVar(Create(Local, n, v, r))
  /\ UNCHANGED <<globalVar, shellIdFile>>

(* unset: the exported variable, else the shell's own. *)
unset_global(n) ==
  /\ Running /\ Has(Global, n) /\ ~ReadOnly(Global, n)
  /\ sys_get_set_globalVar(Delete(Global, n))
  /\ UNCHANGED <<stack, shellIdFile>>

unset_local(n) ==
  /\ Running /\ ~Has(Global, n) /\ Has(Local, n) /\ ~ReadOnly(Local, n)
  /\ get_set_localVar(Delete(Local, n))
  /\ UNCHANGED <<globalVar, shellIdFile>>

declare(n) ==
  \E v \in Values, r \in BOOLEAN :
    declare_export(n, v, r) \/ declare_global(n, v, r) \/ declare_local(n, v, r)
unset(n) == unset_global(n) \/ unset_local(n)

Next ==
  \/ init_loop \/ sh \/ main_start \/ main_exit
  \/ \E n \in Names : declare(n) \/ unset(n)

Spec == Init /\ [][Next]_vars

-----------------------------------------------------------------------------
TypeOK ==
  /\ globalVar \in [Rows -> Tables]
  /\ stack \in Seq([id : Rows, local : Tables, started : BOOLEAN])
  /\ shellIdFile \in Rows

(* What replaceEnvVar finds for $n in a shell: the exported variable, else  *)
(* the shell's own. *)
Found(t, n, exported) ==
  [val |-> t[Min(At(t, n))].val, ro |-> ReadOnly(t, n), exported |-> exported]
replaceEnvVar(s, n) ==
  IF Has(globalVar[s.id], n) THEN Found(globalVar[s.id], n, TRUE)
  ELSE IF Has(s.local, n) THEN Found(s.local, n, FALSE) ELSE Absent

(* The shells that have started have one scope each: a nested shell sees    *)
(* what its parent had exported, a change is seen by no other shell, and    *)
(* what an outer shell had is there again after exit.                       *)
Started == {i \in DOMAIN stack : stack[i].started}
StartedScopes ==
  [i \in 1..Cardinality(Started) |-> [n \in Names |-> replaceEnvVar(stack[i], n)]]
ShellScopes == INSTANCE Scopes WITH scopes <- StartedScopes
ImplementsScopes == ShellScopes!Spec

(* A name is in one place: once in the row or once in the page of a shell,  *)
(* so that after declare and unset no older value comes to light.           *)
NameOnce ==
  \A i \in Started : \A n \in Names :
    Cardinality(At(globalVar[stack[i].id], n)) + Cardinality(At(stack[i].local, n)) <= 1

(* The row a shell has found in the file is its own: the number of shells   *)
(* it is nested in, and the rows of no shell are empty. *)
RowIsDepth ==
  /\ \A i \in Started : stack[i].id = i - 1
  /\ \A id \in Rows : id >= Cardinality(Started) => globalVar[id] = Clear
=============================================================================
