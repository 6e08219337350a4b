--------------------------- MODULE ShellVarsProofs ---------------------------
(***************************************************************************)
(* The shell's variables for any names, values, sizes of the tables and    *)
(* number of rows: every shell finds its own row, and no name is twice in  *)
(* what a shell can see.                                                   *)
(***************************************************************************)
EXTENDS ShellVars, FiniteSetTheorems, SequenceTheorems, WellFoundedInduction, TLAPS

ShellRec == [id : Rows, local : Tables, started : BOOLEAN]

(* The shells that have started are the outer ones.                        *)
Depth == IF stack = <<>> THEN 0 ELSE IF Shell.started THEN Len(stack) ELSE Len(stack) - 1

(* The inductive invariant: a shell that has not started finds its row in  *)
(* the file. *)
Levels ==
  /\ Len(stack) <= NRows
  /\ \A i \in 1..Len(stack) : stack[i].started => stack[i].id = i - 1
  /\ \A i \in 1..Len(stack) : i < Len(stack) => stack[i].started
  /\ stack # <<>> /\ ~Shell.started => shellIdFile = Len(stack) - 1 /\ Shell.local = Clear
  /\ \A id \in Rows : id >= Depth => globalVar[id] = Clear

LevelsInv == TypeOK /\ Levels

----------------------------------------------------------------------------
(* Tables.                                                                 *)

(* FiniteSetsExt's Min of a set of entries is one of them.                 *)
Less == {ss \in Nat \X Nat : ss[1] < ss[2]}

LEMMA LessWellFounded == IsWellFoundedOn(Less, Nat)
<1>1. OpToRel(<, Nat) = Less
  BY Zenon DEF OpToRel, Less
<1> QED BY <1>1, NatLessThanWellFounded, Zenon

LEMMA MinOfSlots ==
  ASSUME NEW S \in SUBSET Slots, S # {}
  PROVE  Min(S) \in S
<1>1. S \subseteq Nat
  BY ShellVarsAssumption DEF Slots
<1>2. PICK x \in S : \A y \in S : ~(<<y, x>> \in Less)
  BY <1>1, LessWellFounded, WFMin
<1>3. ASSUME NEW y \in S PROVE x <= y
  <2>1. x \in Nat /\ y \in Nat /\ ~(<<y, x>> \in Less)
    BY <1>1, <1>2
  <2>2. <<y, x>> \in Nat \X Nat => ~(y < x)
    BY <2>1 DEF Less
  <2> QED BY <2>1, <2>2
<1> QED BY <1>3 DEF Min

LEMMA AtSlots == \A t, n : At(t, n) \subseteq Slots
BY DEF At

LEMMA TableTypes ==
  ASSUME NEW t \in Tables, NEW n \in Names, NEW v \in Values, NEW r \in BOOLEAN
  PROVE  /\ Clear \in Tables
         /\ Has(t, n) => Set(t, n, v, r) \in Tables /\ Delete(t, n) \in Tables
         /\ Room(t) => Create(t, n, v, r) \in Tables
         /\ \A from \in Tables : Copy(t, from) \in Tables
<1>1. Entry(n, v, r) \in AVar
  BY DEF Entry, AVar
<1>2. Clear \in Tables
  BY DEF Clear, Tables
<1>3. Set(t, n, v, r) \in Tables /\ Delete(t, n) \in Tables
  BY <1>1 DEF Set, Delete, Tables
<1>4. Create(t, n, v, r) \in Tables
  BY <1>1 DEF Create, Tables
<1>5. \A from \in Tables : Copy(t, from) \in Tables
  BY DEF Copy, Tables
<1> QED BY <1>2, <1>3, <1>4, <1>5

----------------------------------------------------------------------------
(* Stacks.                                                                 *)

LEMMA NewType == New \in ShellRec
<1>1. 0 \in Rows
  BY ShellVarsAssumption DEF Rows
<1>2. Clear \in Tables
  BY DEF Clear, Tables
<1> QED BY <1>1, <1>2 DEF New, ShellRec

LEMMA TopType ==
  ASSUME TypeOK, stack # <<>>
  PROVE  /\ Len(stack) \in Nat \ {0} /\ stack \in Seq(ShellRec)
         /\ Shell \in ShellRec /\ Shell.id \in Rows /\ Shell.local \in Tables
         /\ Shell.started \in BOOLEAN
<1>1. stack \in Seq(ShellRec)
  BY DEF TypeOK, ShellRec
<1>2. Len(stack) \in Nat \ {0}
  BY <1>1, EmptySeq
<1>3. Shell \in ShellRec
  BY <1>1, <1>2, ElementOfSeq DEF Shell
<1> QED BY <1>1, <1>2, <1>3 DEF ShellRec

LEMMA TopReplaced ==
  ASSUME TypeOK, stack # <<>>, NEW r \in ShellRec, stack' = [stack EXCEPT ![Len(stack)] = r]
  PROVE  /\ stack' \in Seq(ShellRec) /\ Len(stack') = Len(stack) /\ stack' # <<>> /\ Shell' = r
         /\ \A i \in 1..Len(stack) : stack'[i] = IF i = Len(stack) THEN r ELSE stack[i]
<1>1. Len(stack) \in Nat \ {0} /\ stack \in Seq(ShellRec) /\ Len(stack) \in 1..Len(stack)
  BY TopType
<1>2. /\ stack' \in Seq(ShellRec) /\ Len(stack') = Len(stack)
      /\ \A i \in 1..Len(stack) : stack'[i] = IF i = Len(stack) THEN r ELSE stack[i]
  BY <1>1, ExceptSeq
<1>3. stack' # <<>>
  BY <1>1, <1>2, EmptySeq
<1> QED BY <1>1, <1>2, <1>3 DEF Shell

(* declare and unset on the shell's page.                                  *)
LEMMA LocalReplaced ==
  ASSUME TypeOK, stack # <<>>, NEW t \in Tables, get_set_localVar(t)
  PROVE  /\ stack' \in Seq(ShellRec) /\ Len(stack') = Len(stack) /\ stack' # <<>>
         /\ Shell'.local = t /\ Shell'.id = Shell.id /\ Shell'.started = Shell.started
         /\ \A i \in 1..Len(stack) : i # Len(stack) => stack'[i] = stack[i]
<1> DEFINE r == [Shell EXCEPT !.local = t]
<1>1. r \in ShellRec /\ r.local = t /\ r.id = Shell.id /\ r.started = Shell.started
  BY TopType DEF ShellRec
<1>2. stack' = [stack EXCEPT ![Len(stack)] = r]
  BY DEF get_set_localVar, Shell
<1> HIDE DEF r
<1> QED BY <1>1, <1>2, TopReplaced

LEMMA Pushed ==
  ASSUME TypeOK, stack' = Append(stack, New)
  PROVE  /\ Len(stack) \in Nat /\ stack' \in Seq(ShellRec) /\ Len(stack') = Len(stack) + 1 /\ stack' # <<>>
         /\ Shell' = New /\ \A i \in 1..Len(stack) : stack'[i] = stack[i]
<1>1. stack \in Seq(ShellRec) /\ Len(stack) \in Nat
  BY DEF TypeOK, ShellRec
<1> QED BY <1>1, NewType, AppendProperties DEF Shell

LEMMA Popped ==
  ASSUME TypeOK, stack # <<>>, stack' = SubSeq(stack, 1, Len(stack) - 1)
  PROVE  /\ stack' \in Seq(ShellRec) /\ Len(stack') = Len(stack) - 1
         /\ \A i \in 1..Len(stack) - 1 : stack'[i] = stack[i]
         /\ stack' # <<>> => Len(stack) - 1 \in Nat \ {0} /\ Shell' = stack[Len(stack) - 1]
         /\ stack' = <<>> => Len(stack) = 1
<1> DEFINE n == Len(stack) - 1
<1>1. n \in Nat /\ stack \in Seq(ShellRec)
  BY TopType
<1>2. \A i \in 1..n : stack[i] \in ShellRec
  BY <1>1, ElementOfSeq
<1>3. /\ stack' \in Seq(ShellRec) /\ Len(stack') = IF 1 <= n THEN n - 1 + 1 ELSE 0
      /\ \A i \in 1..n - 1 + 1 : stack'[i] = stack[1 + i - 1]
  BY <1>1, <1>2, SubSeqProperties
<1> HIDE DEF n
<1>4. Len(stack') = n /\ \A i \in 1..n : stack'[i] = stack[i]
  <2>1. n - 1 + 1 = n /\ (~(1 <= n) => n = 0)
    BY <1>1
  <2>2. Len(stack') = n
    BY <1>3, <2>1
  <2>3. ASSUME NEW i \in 1..n PROVE stack'[i] = stack[i]
    <3>1. 1 + i - 1 = i /\ i \in 1..n - 1 + 1
      BY <1>1, <2>1
    <3>2. stack'[i] = stack[1 + i - 1]
      BY <1>3, <3>1
    <3> QED BY <3>1, <3>2
  <2> QED BY <2>2, <2>3
<1>5. stack' # <<>> => n \in Nat \ {0} /\ Shell' = stack[n]
  BY <1>1, <1>3, <1>4, EmptySeq DEF Shell
<1>6. stack' = <<>> => n = 0
  BY <1>4
<1> QED BY <1>1, <1>3, <1>4, <1>5, <1>6 DEF n

-----------------------------------------------------------------------------
(* Steps preserve LevelsInv.                                               *)

LEMMA MaxOfTwo == ASSUME NEW a \in Int PROVE Max({0, a}) = IF a > 0 THEN a ELSE 0
<1>1. PICK m \in {0, a} : \A y \in {0, a} : m >= y
  <2>1. 0 >= a \/ a >= 0
    OBVIOUS
  <2> QED BY <2>1
<1>2. Max({0, a}) \in {0, a} /\ \A y \in {0, a} : Max({0, a}) >= y
  BY <1>1 DEF Max
<1> QED BY <1>2

(* A shell that runs is in the row of its depth. *)
LEMMA TopShell ==
  ASSUME LevelsInv, Running
  PROVE  stack # <<>> /\ Len(stack) \in 1..NRows /\ Len(stack) \in 1..Len(stack)
         /\ Shell.id = Len(stack) - 1 /\ Shell.id \in Rows /\ Depth = Len(stack)
<1>1. stack # <<>> /\ Shell.started
  BY DEF Running
<1>2. Len(stack) \in Nat \ {0} /\ Len(stack) <= NRows /\ Shell.id \in Rows
  BY <1>1, TopType DEF LevelsInv, Levels
<1>3. Len(stack) \in 1..Len(stack)
  BY <1>2
<1>4. Shell.id = Len(stack) - 1
  BY <1>1, <1>3 DEF LevelsInv, Levels, Shell
<1>5. Depth = Len(stack)
  BY <1>1 DEF Depth
<1> QED BY <1>1, <1>2, <1>3, <1>4, <1>5, ShellVarsAssumption

(* declare and unset change the row and the page of the innermost shell. *)
LEMMA TableStep ==
  ASSUME LevelsInv, Running, NEW g \in Tables, NEW l \in Tables,
         globalVar' = globalVar \/ sys_get_set_globalVar(g),
         stack' = stack \/ get_set_localVar(l),
         shellIdFile' = shellIdFile
  PROVE  LevelsInv' /\ Depth' = Depth /\ Len(stack') = Len(stack)
         /\ (\A i \in 1..Len(stack) : /\ stack'[i].started = stack[i].started
                                      /\ i < Len(stack) => stack'[i] = stack[i])
         /\ (\A id \in Rows : id # Len(stack) - 1 => globalVar'[id] = globalVar[id])
<1>1. TypeOK /\ Levels
  BY DEF LevelsInv
<1>2. stack # <<>> /\ Len(stack) \in 1..NRows /\ Len(stack) \in 1..Len(stack)
      /\ Shell.id = Len(stack) - 1 /\ Shell.id \in Rows /\ Depth = Len(stack)
  BY TopShell
<1>3. /\ stack' \in Seq(ShellRec) /\ Len(stack') = Len(stack) /\ stack' # <<>>
      /\ Shell'.id = Shell.id /\ Shell'.started = Shell.started
      /\ \A i \in 1..Len(stack) : i # Len(stack) => stack'[i] = stack[i]
  <2>1. CASE stack' = stack
    BY <1>1, <1>2, <2>1 DEF TypeOK, ShellRec, Shell
  <2>2. CASE get_set_localVar(l)
    BY <1>1, <1>2, <2>2, LocalReplaced
  <2> QED BY <2>1, <2>2
<1>4. \A i \in 1..Len(stack) : /\ stack'[i].started = stack[i].started /\ stack'[i].id = stack[i].id
                               /\ i < Len(stack) => stack'[i] = stack[i]
  BY <1>2, <1>3 DEF Shell
<1>5. /\ globalVar' \in [Rows -> Tables]
      /\ \A id \in Rows : id # Len(stack) - 1 => globalVar'[id] = globalVar[id]
  BY <1>1, <1>2 DEF TypeOK, sys_get_set_globalVar
<1>6. TypeOK'
  BY <1>1, <1>3, <1>5 DEF TypeOK, ShellRec
<1>7. Depth' = Depth /\ Shell'.started
  BY <1>2, <1>3 DEF Depth, Running
<1>8. \A id \in Rows : id >= Depth => globalVar'[id] = Clear
  BY <1>1, <1>2, <1>5 DEF Levels, Rows
<1>9. Levels'
  BY <1>1, <1>2, <1>3, <1>4, <1>7, <1>8 DEF Levels
<1> QED BY <1>3, <1>4, <1>5, <1>6, <1>7, <1>9 DEF LevelsInv

(* A new shell, which has not started: init's or the built-in's. *)
LEMMA NewShellStep ==
  ASSUME LevelsInv, init_loop \/ sh
  PROVE  LevelsInv' /\ Len(stack') = Len(stack) + 1 /\ Depth' = Len(stack) /\ Shell' = New
         /\ (\A i \in 1..Len(stack) : stack'[i] = stack[i]) /\ globalVar' = globalVar
         /\ \A i \in 1..Len(stack) : stack[i].started
<1>1. TypeOK /\ Levels
  BY DEF LevelsInv
<1>2. stack' = Append(stack, New) /\ globalVar' = globalVar
  <2>1. CASE init_loop
    BY <2>1 DEF init_loop
  <2>2. CASE sh
    BY <2>2 DEF sh
  <2> QED BY <2>1, <2>2
<1>3. /\ Len(stack) \in Nat /\ stack' \in Seq(ShellRec) /\ Len(stack') = Len(stack) + 1
      /\ stack' # <<>> /\ Shell' = New /\ \A i \in 1..Len(stack) : stack'[i] = stack[i]
  BY <1>1, <1>2, Pushed
<1>4. /\ shellIdFile' = Len(stack) /\ Len(stack) < NRows /\ Depth = Len(stack)
      /\ \A i \in 1..Len(stack) : stack[i].started
  <2>1. CASE init_loop
    <3>1. stack = <<>> /\ Len(stack) = 0
      BY <2>1, EmptySeq DEF init_loop
    <3> QED BY <2>1, <3>1, ShellVarsAssumption DEF init_loop, Depth
  <2>2. CASE sh
    <3>1. Running /\ Len(stack) < NRows /\ addShellIdToFile(1)
      BY <2>2 DEF sh
    <3>2. Shell.id = Len(stack) - 1 /\ Len(stack) \in 1..NRows /\ Depth = Len(stack)
      BY <3>1, TopShell
    <3>3. Shell.id + 1 = Len(stack) /\ Len(stack) > 0 /\ Shell.id + 1 \in Int
      BY <3>2
    <3>4. Max({0, Shell.id + 1}) = Len(stack)
      BY <3>3, MaxOfTwo
    <3>5. shellIdFile' = Len(stack)
      BY <3>1, <3>3, <3>4 DEF addShellIdToFile
    <3>6. \A i \in 1..Len(stack) : stack[i].started
      BY <1>1, <3>1, <3>2 DEF Levels, Running, Shell
    <3> QED BY <3>1, <3>2, <3>5, <3>6
  <2> QED BY <2>1, <2>2
<1>5. TypeOK'
  <2>1. shellIdFile' \in Rows
    BY <1>3, <1>4, ShellVarsAssumption DEF Rows
  <2>2. globalVar' \in [Rows -> Tables]
    BY <1>1, <1>2 DEF TypeOK
  <2> QED BY <1>3, <2>1, <2>2 DEF TypeOK, ShellRec
<1>6. ~Shell'.started /\ Shell'.local = Clear /\ stack'[Len(stack) + 1] = New
  BY <1>3 DEF New, Shell
<1>7. Depth' = Len(stack)
  BY <1>3, <1>6 DEF Depth
<1>8. \A i \in 1..Len(stack') : i \in 1..Len(stack) \/ (i = Len(stack) + 1 /\ ~stack'[i].started)
  BY <1>3, <1>6 DEF New
<1>9. Levels'
  BY <1>1, <1>2, <1>3, <1>4, <1>6, <1>7, <1>8, ShellVarsAssumption DEF Levels
<1> QED BY <1>2, <1>3, <1>4, <1>5, <1>7, <1>9 DEF LevelsInv

(* The shell that starts finds its row, which is empty, and copies the row *)
(* above. *)
LEMMA StartStep ==
  ASSUME LevelsInv, main_start
  PROVE  LevelsInv' /\ Len(stack') = Len(stack) /\ Len(stack) \in Nat \ {0} /\ Shell'.started
         /\ Shell'.local = Clear /\ Shell' = stack'[Len(stack)]
         /\ (\A i \in 1..Len(stack) : i < Len(stack) => stack'[i] = stack[i] /\ stack[i].started)
         /\ Len(stack) - 1 \in Rows
         /\ (\A id \in Rows : id # Len(stack) - 1 => globalVar'[id] = globalVar[id])
         /\ globalVar'[Len(stack) - 1] = IF Len(stack) = 1 THEN Clear ELSE globalVar[Len(stack) - 2]
<1>1. TypeOK /\ Levels /\ stack # <<>> /\ ~Shell.started
  BY DEF LevelsInv, main_start
<1>2. /\ Len(stack) \in Nat \ {0} /\ Shell \in ShellRec /\ Len(stack) <= NRows
      /\ shellIdFile = Len(stack) - 1 /\ Shell.local = Clear /\ shellIdFile' = shellIdFile
  BY <1>1, TopType DEF Levels, main_start
<1> DEFINE id == Len(stack) - 1
           r == [Shell EXCEPT !.id = id, !.started = TRUE]
<1>3. id \in Rows /\ id \in Nat
  BY <1>2, ShellVarsAssumption DEF Rows
<1>4. r \in ShellRec /\ r.id = id /\ r.started /\ r.local = Clear
  BY <1>2, <1>3 DEF ShellRec
<1>5. stack' = [stack EXCEPT ![Len(stack)] = r]
  BY <1>2 DEF main_start, Shell
<1>6. globalVar' = IF id = 0 THEN globalVar
                   ELSE [globalVar EXCEPT ![id] = Copy(globalVar[id], globalVar[id - 1])]
  BY <1>2 DEF main_start
<1> HIDE DEF r
<1>7. /\ stack' \in Seq(ShellRec) /\ Len(stack') = Len(stack) /\ stack' # <<>> /\ Shell' = r
      /\ \A i \in 1..Len(stack) : stack'[i] = IF i = Len(stack) THEN r ELSE stack[i]
  BY <1>1, <1>4, <1>5, TopReplaced
<1>8. Depth = id /\ globalVar[id] = Clear
  <2>1. Depth = id
    BY <1>1 DEF Depth
  <2>2. id >= Depth
    BY <1>3, <2>1
  <2> QED BY <1>1, <1>3, <2>1, <2>2 DEF Levels
<1>9. globalVar \in [Rows -> Tables]
  BY <1>1 DEF TypeOK
<1>10. id # 0 => id - 1 \in Rows /\ globalVar[id - 1] \in Tables
  BY <1>3, <1>9, ShellVarsAssumption DEF Rows
<1>11. ASSUME NEW t \in Tables PROVE Copy(Clear, t) = t
  <2>1. t = [i \in Slots |-> t[i]]
    BY DEF Tables
  <2>2. \A i \in Slots : (IF t[i] # Absent THEN t[i] ELSE Clear[i]) = t[i]
    BY DEF Clear
  <2> QED BY <2>1, <2>2 DEF Copy
<1>12. globalVar'[id] = IF id = 0 THEN Clear ELSE globalVar[id - 1]
  <2>1. CASE id = 0
    BY <1>6, <1>8, <2>1
  <2>2. CASE id # 0
    <3>1. globalVar'[id] = Copy(Clear, globalVar[id - 1])
      BY <1>3, <1>6, <1>8, <1>9, <2>2
    <3> QED BY <1>10, <1>11, <2>2, <3>1
  <2> QED BY <2>1, <2>2
<1>13. \A k \in Rows : k # id => globalVar'[k] = globalVar[k]
  BY <1>6, <1>9
<1>14. globalVar' \in [Rows -> Tables]
  <2>1. CASE id = 0
    BY <1>6, <1>9, <2>1
  <2>2. CASE id # 0
    <3>1. Copy(globalVar[id], globalVar[id - 1]) \in Tables
      BY <1>8, <1>10, <1>11, <2>2
    <3> QED BY <1>6, <1>9, <2>2, <3>1
  <2> QED BY <2>1, <2>2
<1>15. TypeOK'
  BY <1>1, <1>2, <1>7, <1>14 DEF TypeOK, ShellRec
<1>16. \A i \in 1..Len(stack) : i < Len(stack) => stack'[i] = stack[i] /\ stack[i].started
  BY <1>1, <1>2, <1>7 DEF Levels
<1>17. Shell'.started /\ Depth' = Len(stack) /\ Shell'.local = Clear
  BY <1>4, <1>7 DEF Depth
<1>18. \A k \in Rows : k >= Len(stack) => globalVar'[k] = Clear
  BY <1>1, <1>2, <1>8, <1>13 DEF Levels, Rows
<1>19. Levels'
  BY <1>1, <1>2, <1>4, <1>7, <1>16, <1>17, <1>18 DEF Levels
<1> QED BY <1>2, <1>3, <1>7, <1>12, <1>13, <1>15, <1>16, <1>17, <1>19 DEF LevelsInv, Shell

(* The shell that exits leaves its row empty. *)
LEMMA ExitStep ==
  ASSUME LevelsInv, main_exit
  PROVE  LevelsInv' /\ Len(stack') = Len(stack) - 1 /\ Len(stack) \in Nat \ {0}
         /\ (\A i \in 1..Len(stack) - 1 : stack'[i] = stack[i])
         /\ \A id \in Rows : id # Len(stack) - 1 => globalVar'[id] = globalVar[id]
<1>1. TypeOK /\ Levels /\ Running /\ stack' = SubSeq(stack, 1, Len(stack) - 1)
  BY DEF LevelsInv, main_exit
<1>2. stack # <<>> /\ Len(stack) \in 1..NRows /\ Len(stack) \in 1..Len(stack)
      /\ Shell.id = Len(stack) - 1 /\ Shell.id \in Rows /\ Depth = Len(stack)
  BY <1>1, TopShell
<1>3. /\ stack' \in Seq(ShellRec) /\ Len(stack') = Len(stack) - 1
      /\ \A i \in 1..Len(stack) - 1 : stack'[i] = stack[i]
      /\ stack' # <<>> => Len(stack) - 1 \in Nat \ {0} /\ Shell' = stack[Len(stack) - 1]
      /\ stack' = <<>> => Len(stack) = 1
  BY <1>1, <1>2, Popped
<1>4. globalVar' = [globalVar EXCEPT ![Len(stack) - 1] = Clear] /\ globalVar \in [Rows -> Tables]
  BY <1>1, <1>2 DEF main_exit, sys_get_set_globalVar, TypeOK
<1>5. Clear \in Tables
  BY DEF Clear, Tables
<1>6. globalVar' \in [Rows -> Tables]
  BY <1>2, <1>4, <1>5
<1>7. shellIdFile' \in Rows
  <2>1. Shell.id + -1 \in Int /\ (Shell.id + -1 > 0 => Shell.id + -1 \in Rows)
    BY <1>2, ShellVarsAssumption DEF Rows
  <2>2. Max({0, Shell.id + -1}) = IF Shell.id + -1 > 0 THEN Shell.id + -1 ELSE 0
    BY <2>1, MaxOfTwo
  <2>3. addShellIdToFile(-1) /\ shellIdFile \in Rows
    BY <1>1 DEF main_exit, TypeOK
  <2>4. shellIdFile' = IF Max({0, Shell.id + -1}) = 0 THEN shellIdFile ELSE Max({0, Shell.id + -1})
    BY <2>3 DEF addShellIdToFile
  <2> QED BY <2>1, <2>2, <2>3, <2>4
<1>8. TypeOK'
  BY <1>3, <1>6, <1>7 DEF TypeOK, ShellRec
<1>9. stack' # <<>> => Shell'.started
  BY <1>1, <1>2, <1>3 DEF Levels
<1>10. Depth' = Len(stack) - 1
  BY <1>2, <1>3, <1>9 DEF Depth
<1>11. \A id \in Rows : id # Len(stack) - 1 => globalVar'[id] = globalVar[id]
  BY <1>4
<1>12. \A id \in Rows : id >= Len(stack) - 1 => globalVar'[id] = Clear
  BY <1>1, <1>2, <1>4 DEF Levels, Rows
<1>13. \A i \in 1..Len(stack) - 1 : i \in 1..Len(stack) /\ i < Len(stack)
  BY <1>2
<1>14. Levels'
  BY <1>1, <1>2, <1>3, <1>9, <1>10, <1>12, <1>13, ShellVarsAssumption DEF Levels
<1> QED BY <1>2, <1>3, <1>8, <1>11, <1>14 DEF LevelsInv

-----------------------------------------------------------------------------
(* Names.                                                                  *)

AtMostOne(S) == \A i, j \in S : i = j

(* What a row and a page may hold of n: one entry of one of them.          *)
Alone(g, l, n) ==
  /\ AtMostOne(At(g, n)) /\ AtMostOne(At(l, n))
  /\ At(g, n) = {} \/ At(l, n) = {}

LEMMA AtSet ==
  ASSUME NEW t \in Tables, NEW n, Has(t, n), NEW v, NEW r, NEW m
  PROVE  At(Set(t, n, v, r), m) \subseteq At(t, m)
<1> DEFINE k == Min(At(t, n))
           s == Set(t, n, v, r)
<1>1. k \in At(t, n)
  BY AtSlots, MinOfSlots DEF Has
<1>2. k \in Slots /\ DOMAIN t = Slots
  BY <1>1, AtSlots DEF Tables
<1>3. s[k] = Entry(n, v, r) /\ \A i \in Slots : i # k => s[i] = t[i]
  BY <1>2 DEF Set
<1>4. s[k].name = n
  BY <1>3 DEF Entry
<1> HIDE DEF k, s
<1>5. \A i \in At(s, m) : i \in At(t, m)
  BY <1>1, <1>3, <1>4 DEF At
<1> QED BY <1>5 DEF s

LEMMA AtDelete ==
  ASSUME NEW t \in Tables, NEW n, Has(t, n), NEW m
  PROVE  /\ At(Delete(t, n), m) \subseteq At(t, m)
         /\ AtMostOne(At(t, n)) => At(Delete(t, n), n) = {}
<1> DEFINE k == Min(At(t, n))
           s == Delete(t, n)
<1>1. k \in At(t, n)
  BY AtSlots, MinOfSlots DEF Has
<1>2. k \in Slots /\ DOMAIN t = Slots
  BY <1>1, AtSlots DEF Tables
<1>3. s[k] = Absent /\ \A i \in Slots : i # k => s[i] = t[i]
  BY <1>2 DEF Delete
<1> HIDE DEF k, s
<1>4. \A x : \A i \in At(s, x) : i \in At(t, x) /\ i # k
  BY <1>3 DEF At
<1>5. AtMostOne(At(t, n)) => At(s, n) = {}
  BY <1>1, <1>4 DEF AtMostOne
<1> QED BY <1>4, <1>5 DEF s

LEMMA AtCreate ==
  ASSUME NEW t \in Tables, NEW n, ~Has(t, n), Room(t), NEW v, NEW r, NEW m
  PROVE  /\ m # n => At(Create(t, n, v, r), m) \subseteq At(t, m)
         /\ AtMostOne(At(Create(t, n, v, r), n))
<1> DEFINE F == {i \in Slots : t[i] = Absent}
           k == Min(F)
           s == Create(t, n, v, r)
<1>1. k \in F
  <2>1. F \in SUBSET Slots /\ F # {}
    BY DEF Room
  <2> QED BY <2>1, MinOfSlots
<1>2. k \in Slots /\ DOMAIN t = Slots
  BY <1>1 DEF Tables
<1>3. s[k] = Entry(n, v, r) /\ \A i \in Slots : i # k => s[i] = t[i]
  BY <1>2 DEF Create
<1>4. s[k].name = n
  BY <1>3 DEF Entry
<1> HIDE DEF F, k, s
<1>5. m # n => At(s, m) \subseteq At(t, m)
  BY <1>3, <1>4 DEF At
<1>6. \A i \in At(s, n) : i = k
  BY <1>3 DEF At, Has
<1> QED BY <1>5, <1>6 DEF s, AtMostOne

LEMMA AtClear == \A n : At(Clear, n) = {}
BY DEF At, Clear

LEMMA Fewer ==
  ASSUME NEW g, NEW l, NEW h, NEW k, NEW n, Alone(g, l, n),
         At(h, n) \subseteq At(g, n), At(k, n) \subseteq At(l, n)
  PROVE  Alone(h, k, n)
BY DEF Alone, AtMostOne

(* A step of the innermost shell's row to g and of its page to l. *)
Changes(g, l) ==
  /\ (globalVar' = globalVar /\ g = Global) \/ sys_get_set_globalVar(g)
  /\ (stack' = stack /\ l = Local) \/ get_set_localVar(l)
  /\ shellIdFile' = shellIdFile

(* What each path of declare and unset makes of the row and the page. *)
LEMMA BuiltIns ==
  ASSUME LevelsInv, NEW n \in Names, declare(n) \/ unset(n)
  PROVE  /\ Running /\ Global \in Tables /\ Local \in Tables
         /\ \E g, l \in Tables : /\ Changes(g, l)
                                 /\ (\A m \in Names : Alone(Global, Local, m))
                                      => \A m \in Names : Alone(g, l, m)
<1>1. Running
  BY DEF declare, unset, declare_export, declare_global, declare_local, unset_global, unset_local
<1>2. Global \in Tables /\ Local \in Tables
  <2>1. TypeOK /\ stack # <<>>
    BY <1>1 DEF LevelsInv, Running
  <2>2. Shell.id \in Rows /\ Shell.local \in Tables /\ globalVar \in [Rows -> Tables]
    BY <2>1, TopType DEF TypeOK
  <2> QED BY <2>2 DEF Global, Local
<1>3. ASSUME NEW v \in Values, NEW r \in BOOLEAN,
             declare_export(n, v, r) \/ declare_global(n, v, r) \/ declare_local(n, v, r)
      PROVE  \E g, l \in Tables : /\ Changes(g, l)
                                  /\ (\A m \in Names : Alone(Global, Local, m))
                                      => \A m \in Names : Alone(g, l, m)
  <2>1. CASE declare_export(n, v, r)
    <3> DEFINE g == IF Has(Global, n) THEN Set(Global, n, v, r) ELSE Create(Global, n, v, r)
               l == IF Has(Local, n) THEN Delete(Local, n) ELSE Local
    <3>1. g \in Tables /\ l \in Tables
      BY <1>2, <2>1, TableTypes DEF declare_export
    <3>2. Changes(g, l)
      BY <2>1 DEF declare_export, Changes
    <3>3. ASSUME NEW m \in Names, Alone(Global, Local, m) PROVE Alone(g, l, m)
      <4>1. At(l, m) \subseteq At(Local, m)
        BY <1>2, AtDelete
      <4>2. CASE m # n
        <5>1. At(g, m) \subseteq At(Global, m)
          BY <1>2, <2>1, <4>2, AtSet, AtCreate DEF declare_export
        <5> QED BY <3>3, <4>1, <5>1, Fewer
      <4>3. CASE m = n
        <5>1. At(l, n) = {}
          BY <1>2, <3>3, <4>3, AtDelete DEF Alone, Has
        <5>2. AtMostOne(At(g, n))
          <6>1. CASE Has(Global, n)
            BY <1>2, <3>3, <4>3, <6>1, AtSet DEF Alone, AtMostOne
          <6>2. CASE ~Has(Global, n)
            BY <1>2, <2>1, <6>2, AtCreate DEF declare_export
          <6> QED BY <6>1, <6>2
        <5> QED BY <4>3, <5>1, <5>2 DEF Alone, AtMostOne
      <4> QED BY <4>2, <4>3
    <3> HIDE DEF g, l
    <3> QED BY <3>1, <3>2, <3>3
  <2>2. CASE declare_global(n, v, r)
    <3> DEFINE g == Set(Global, n, v, r)
    <3>1. Has(Global, n) /\ Changes(g, Local)
      BY <2>2 DEF declare_global, Changes
    <3>2. g \in Tables
      BY <1>2, <3>1, TableTypes
    <3>3. \A m \in Names : Alone(Global, Local, m) => Alone(g, Local, m)
      BY <1>2, <3>1, AtSet, Fewer
    <3> HIDE DEF g
    <3> QED BY <1>2, <3>1, <3>2, <3>3
  <2>3. CASE declare_local(n, v, r)
    <3> DEFINE l == IF Has(Local, n) THEN Set(Local, n, v, r) ELSE Create(Local, n, v, r)
    <3>1. ~Has(Global, n) /\ Changes(Global, l)
      BY <2>3 DEF declare_local, Changes
    <3>2. l \in Tables
      BY <1>2, <2>3, TableTypes DEF declare_local
    <3>3. ASSUME NEW m \in Names, Alone(Global, Local, m) PROVE Alone(Global, l, m)
      <4>1. CASE m # n
        <5>1. At(l, m) \subseteq At(Local, m)
          BY <1>2, <2>3, <4>1, AtSet, AtCreate DEF declare_local
        <5> QED BY <3>3, <5>1, Fewer
      <4>2. CASE m = n
        <5>1. AtMostOne(At(l, n))
          <6>1. CASE Has(Local, n)
            BY <1>2, <3>3, <4>2, <6>1, AtSet DEF Alone, AtMostOne
          <6>2. CASE ~Has(Local, n)
            BY <1>2, <2>3, <6>2, AtCreate DEF declare_local
          <6> QED BY <6>1, <6>2
        <5> QED BY <3>1, <4>2, <5>1 DEF Alone, AtMostOne, Has
      <4> QED BY <4>1, <4>2
    <3> HIDE DEF l
    <3> QED BY <1>2, <3>1, <3>2, <3>3
  <2> QED BY <1>3, <2>1, <2>2, <2>3
<1>4. CASE unset_global(n)
  <2> DEFINE g == Delete(Global, n)
  <2>1. Has(Global, n) /\ Changes(g, Local)
    BY <1>4 DEF unset_global, Changes
  <2>2. g \in Tables
    BY <1>2 DEF Delete, Tables
  <2>3. \A m \in Names : Alone(Global, Local, m) => Alone(g, Local, m)
    BY <1>2, <2>1, AtDelete, Fewer
  <2> HIDE DEF g
  <2> QED BY <1>1, <1>2, <2>1, <2>2, <2>3
<1>5. CASE unset_local(n)
  <2> DEFINE l == Delete(Local, n)
  <2>1. Has(Local, n) /\ Changes(Global, l)
    BY <1>5 DEF unset_local, Changes
  <2>2. l \in Tables
    BY <1>2 DEF Delete, Tables
  <2>3. \A m \in Names : Alone(Global, Local, m) => Alone(Global, l, m)
    BY <1>2, <2>1, AtDelete, Fewer
  <2> HIDE DEF l
  <2> QED BY <1>1, <1>2, <2>1, <2>2, <2>3
<1> QED BY <1>1, <1>2, <1>3, <1>4, <1>5 DEF declare, unset

-----------------------------------------------------------------------------
(* The invariant, step by step.                                            *)

OnceInv ==
  \A i \in 1..Len(stack) : stack[i].started =>
    \A n \in Names : Alone(globalVar[i - 1], stack[i].local, n)

VarsInv == LevelsInv /\ OnceInv

LEMMA CommandStep ==
  ASSUME VarsInv, NEW n \in Names, declare(n) \/ unset(n)
  PROVE  VarsInv'
<1>1. LevelsInv /\ OnceInv
  BY DEF VarsInv
<1>2. Running /\ Global \in Tables /\ Local \in Tables
  BY <1>1, BuiltIns
<1>3. PICK g \in Tables, l \in Tables :
        /\ Changes(g, l)
        /\ (\A m \in Names : Alone(Global, Local, m)) => \A m \in Names : Alone(g, l, m)
  BY <1>1, BuiltIns
<1>4. stack # <<>> /\ Len(stack) \in 1..NRows /\ Len(stack) \in 1..Len(stack)
      /\ Shell.id = Len(stack) - 1 /\ Shell.id \in Rows /\ Shell.started
  BY <1>1, <1>2, TopShell DEF Running
<1>5. /\ LevelsInv' /\ Len(stack') = Len(stack)
      /\ \A i \in 1..Len(stack) : i < Len(stack) => stack'[i] = stack[i]
      /\ \A id \in Rows : id # Len(stack) - 1 => globalVar'[id] = globalVar[id]
  BY <1>1, <1>2, <1>3, TableStep DEF Changes
<1>6. \A m \in Names : Alone(Global, Local, m)
  BY <1>1, <1>4 DEF OnceInv, Global, Local, Shell
<1>7. globalVar'[Len(stack) - 1] = g
  <2>1. globalVar \in [Rows -> Tables]
    BY <1>1 DEF LevelsInv, TypeOK
  <2> QED BY <1>3, <1>4, <2>1 DEF Changes, Global, sys_get_set_globalVar
<1>8. stack'[Len(stack)].local = l
  <2>1. CASE stack' = stack /\ l = Local
    BY <2>1 DEF Local, Shell
  <2>2. CASE get_set_localVar(l)
    <3>1. TypeOK
      BY <1>1 DEF LevelsInv
    <3>2. Shell'.local = l
      BY <1>4, <2>2, <3>1, LocalReplaced
    <3> QED BY <1>5, <3>2 DEF Shell
  <2> QED BY <1>3, <2>1, <2>2 DEF Changes
<1>9. ASSUME NEW i \in 1..Len(stack'), stack'[i].started, NEW m \in Names
      PROVE  Alone(globalVar'[i - 1], stack'[i].local, m)
  <2>1. CASE i = Len(stack)
    BY <1>3, <1>6, <1>7, <1>8, <2>1
  <2>2. CASE i # Len(stack)
    <3>1. i \in 1..Len(stack) /\ i < Len(stack) /\ i - 1 \in Rows /\ i - 1 # Len(stack) - 1
      BY <1>4, <1>5, <2>2, ShellVarsAssumption DEF Rows
    <3> QED BY <1>1, <1>5, <1>9, <3>1 DEF OnceInv
  <2> QED BY <2>1, <2>2
<1> QED BY <1>5, <1>9 DEF VarsInv, OnceInv

LEMMA ShellStep ==
  ASSUME VarsInv, init_loop \/ sh \/ main_start \/ main_exit
  PROVE  VarsInv'
<1>1. LevelsInv /\ OnceInv
  BY DEF VarsInv
<1>2. Len(stack) \in Nat /\ Len(stack) <= NRows /\ \A i \in 1..Len(stack) : i - 1 \in Rows
  <2>1. Len(stack) \in Nat
    BY <1>1 DEF LevelsInv, TypeOK
  <2>2. Len(stack) <= NRows
    BY <1>1 DEF LevelsInv, Levels
  <2> QED BY <2>1, <2>2, ShellVarsAssumption DEF Rows
<1>3. CASE init_loop \/ sh
  <2>1. /\ LevelsInv' /\ Len(stack') = Len(stack) + 1 /\ Shell' = New /\ globalVar' = globalVar
        /\ \A i \in 1..Len(stack) : stack'[i] = stack[i]
    BY <1>1, <1>3, NewShellStep
  <2>2. stack'[Len(stack) + 1] = New
    BY <2>1 DEF Shell
  <2>3. \A i \in 1..Len(stack') : stack'[i].started => i \in 1..Len(stack)
    BY <1>2, <2>1, <2>2 DEF New
  <2>4. OnceInv'
    BY <1>1, <2>1, <2>3 DEF OnceInv
  <2> QED BY <2>1, <2>4 DEF VarsInv
<1>4. CASE main_start
  <2>1. /\ LevelsInv' /\ Len(stack') = Len(stack) /\ Len(stack) \in Nat \ {0}
        /\ Shell'.local = Clear /\ Shell' = stack'[Len(stack)]
        /\ \A i \in 1..Len(stack) : i < Len(stack) => stack'[i] = stack[i] /\ stack[i].started
        /\ \A id \in Rows : id # Len(stack) - 1 => globalVar'[id] = globalVar[id]
        /\ globalVar'[Len(stack) - 1] = IF Len(stack) = 1 THEN Clear ELSE globalVar[Len(stack) - 2]
    BY <1>1, <1>4, StartStep
  <2>2. ASSUME NEW i \in 1..Len(stack'), stack'[i].started, NEW m \in Names
        PROVE  Alone(globalVar'[i - 1], stack'[i].local, m)
    <3>1. CASE i = Len(stack)
      <4>1. At(stack'[i].local, m) = {}
        BY <2>1, <3>1, AtClear
      <4>2. AtMostOne(At(globalVar'[i - 1], m))
        <5>1. CASE Len(stack) = 1
          BY <2>1, <3>1, <5>1, AtClear DEF AtMostOne
        <5>2. CASE Len(stack) # 1
          <6> DEFINE k == Len(stack) - 1
          <6>1. k \in 1..Len(stack) /\ k < Len(stack) /\ k - 1 = Len(stack) - 2
            BY <2>1, <5>2
          <6>2. Alone(globalVar[k - 1], stack[k].local, m)
            BY <1>1, <2>1, <6>1 DEF OnceInv
          <6> QED BY <2>1, <3>1, <5>2, <6>1, <6>2 DEF Alone
        <5> QED BY <5>1, <5>2
      <4> QED BY <4>1, <4>2 DEF Alone, AtMostOne
    <3>2. CASE i # Len(stack)
      <4>1. i \in 1..Len(stack) /\ i < Len(stack) /\ i - 1 \in Rows /\ i - 1 # Len(stack) - 1
        BY <1>2, <2>1, <3>2
      <4> QED BY <1>1, <2>1, <2>2, <4>1 DEF OnceInv
    <3> QED BY <3>1, <3>2
  <2> QED BY <2>1, <2>2 DEF VarsInv, OnceInv
<1>5. CASE main_exit
  <2>1. /\ LevelsInv' /\ Len(stack') = Len(stack) - 1
        /\ \A i \in 1..Len(stack) - 1 : stack'[i] = stack[i]
        /\ \A id \in Rows : id # Len(stack) - 1 => globalVar'[id] = globalVar[id]
    BY <1>1, <1>5, ExitStep
  <2>2. \A i \in 1..Len(stack') : i \in 1..Len(stack) /\ i - 1 \in Rows /\ i - 1 # Len(stack) - 1
    BY <1>2, <2>1
  <2>3. OnceInv'
    BY <1>1, <2>1, <2>2 DEF OnceInv
  <2> QED BY <2>1, <2>3 DEF VarsInv
<1> QED BY <1>3, <1>4, <1>5

LEMMA InitVars == Init => VarsInv
<1> SUFFICES ASSUME Init PROVE VarsInv
  OBVIOUS
<1>1. globalVar = [id \in Rows |-> Clear] /\ stack = <<>> /\ Len(stack) = 0 /\ shellIdFile = 0
  BY DEF Init
<1>2. Clear \in Tables /\ 0 \in Rows /\ stack \in Seq(ShellRec)
  BY <1>1, ShellVarsAssumption DEF Clear, Tables, Rows
<1>3. TypeOK
  BY <1>1, <1>2 DEF TypeOK, ShellRec
<1>4. Levels
  BY <1>1, ShellVarsAssumption DEF Levels
<1> QED BY <1>1, <1>3, <1>4 DEF VarsInv, LevelsInv, OnceInv

LEMMA NextVars == VarsInv /\ [Next]_vars => VarsInv'
<1> SUFFICES ASSUME VarsInv, [Next]_vars PROVE VarsInv'
  OBVIOUS
<1>1. CASE Next
  BY <1>1, CommandStep, ShellStep DEF Next
<1>2. CASE UNCHANGED vars
  BY <1>2 DEF vars, VarsInv, LevelsInv, TypeOK, Levels, OnceInv, Depth, Shell
<1> QED BY <1>1, <1>2

LEMMA VarsAlways == Spec => []VarsInv
BY InitVars, NextVars, PTL DEF Spec

-----------------------------------------------------------------------------
(* The variables keep their types: the number in the file, and the number  *)
(* a shell found there, are always those of a row, as long as no shell is  *)
(* nested deeper than there are rows (addShellIdToFile, getShellId).       *)
THEOREM VarsTypeCorrect == Spec => []TypeOK
<1>1. VarsInv => TypeOK
  BY DEF VarsInv, LevelsInv
<1> QED BY <1>1, VarsAlways, PTL

LEMMA StartedIsDepth == LevelsInv => Started = 1..Depth /\ Depth \in Nat
<1> SUFFICES ASSUME LevelsInv PROVE Started = 1..Depth /\ Depth \in Nat
  OBVIOUS
<1>1. stack \in Seq(ShellRec) /\ Len(stack) \in Nat /\ DOMAIN stack = 1..Len(stack)
  BY DEF LevelsInv, TypeOK, ShellRec
<1>2. \A i \in 1..Len(stack) : i < Len(stack) => stack[i].started
  BY DEF LevelsInv, Levels
<1>3. CASE stack = <<>>
  BY <1>1, <1>3 DEF Depth, Started
<1>4. CASE stack # <<>>
  <2>1. Len(stack) \in Nat \ {0}
    BY <1>1, <1>4, EmptySeq
  <2>2. CASE Shell.started
    <3>1. Depth = Len(stack)
      BY <1>4, <2>2 DEF Depth
    <3>2. \A i \in 1..Len(stack) : stack[i].started
      BY <1>2, <2>1, <2>2 DEF Shell
    <3> QED BY <1>1, <3>1, <3>2 DEF Started
  <2>3. CASE ~Shell.started
    <3>1. Depth = Len(stack) - 1
      BY <1>4, <2>3 DEF Depth
    <3>2. \A i \in 1..Len(stack) : stack[i].started <=> i \in 1..Len(stack) - 1
      BY <1>2, <2>1, <2>3 DEF Shell
    <3>3. 1..Len(stack) - 1 \subseteq 1..Len(stack)
      BY <2>1
    <3>4. Started = 1..Len(stack) - 1
      BY <1>1, <3>2, <3>3 DEF Started
    <3> QED BY <2>1, <3>1, <3>4
  <2> QED BY <2>2, <2>3
<1> QED BY <1>3, <1>4

(* The row a shell finds is that of its depth, whatever shells came and    *)
(* went before, and the rows of no shell are empty (sh, main's exit).      *)
THEOREM EveryShellItsRow == Spec => []RowIsDepth
<1>1. VarsInv => RowIsDepth
  <2> SUFFICES ASSUME VarsInv PROVE RowIsDepth
    OBVIOUS
  <2>1. LevelsInv
    BY DEF VarsInv
  <2>2. Started = 1..Depth /\ Depth \in Nat
    BY <2>1, StartedIsDepth
  <2>3. Cardinality(Started) = Depth
    BY <2>2, FS_Interval
  <2>4. \A i \in Started : stack[i].id = i - 1
    <3>1. \A i \in Started : i \in 1..Len(stack) /\ stack[i].started
      BY <2>1 DEF Started, LevelsInv, TypeOK
    <3> QED BY <2>1, <3>1 DEF LevelsInv, Levels
  <2> QED BY <2>1, <2>3, <2>4 DEF RowIsDepth, LevelsInv, Levels
<1> QED BY <1>1, VarsAlways, PTL

LEMMA CountOne ==
  ASSUME NEW S, AtMostOne(S)
  PROVE  Cardinality(S) \in {0, 1} /\ (S = {} => Cardinality(S) = 0)
<1>1. CASE S = {}
  BY <1>1, FS_EmptySet
<1>2. CASE S # {}
  <2>1. PICK x \in S : TRUE
    BY <1>2
  <2>2. S = {x}
    BY <2>1 DEF AtMostOne
  <2> QED BY <1>2, <2>2, FS_Singleton
<1> QED BY <1>1, <1>2

(* A shell never has two entries for a name, in its row and its page       *)
(* together: unset brings back no older value (declare, unset_var).        *)
THEOREM NoShadows == Spec => []NameOnce
<1>1. VarsInv => NameOnce
  <2> SUFFICES ASSUME VarsInv, NEW i \in Started, NEW n \in Names
               PROVE  Cardinality(At(globalVar[stack[i].id], n))
                        + Cardinality(At(stack[i].local, n)) <= 1
    BY DEF NameOnce
  <2>1. LevelsInv /\ OnceInv
    BY DEF VarsInv
  <2>2. i \in 1..Len(stack) /\ stack[i].started
    BY <2>1 DEF Started, LevelsInv, TypeOK
  <2>3. stack[i].id = i - 1
    BY <2>1, <2>2 DEF LevelsInv, Levels
  <2>4. Alone(globalVar[stack[i].id], stack[i].local, n)
    BY <2>1, <2>2, <2>3 DEF OnceInv
  <2> DEFINE g == At(globalVar[stack[i].id], n)
             l == At(stack[i].local, n)
  <2>5. AtMostOne(g) /\ AtMostOne(l) /\ (g = {} \/ l = {})
    BY <2>4 DEF Alone
  <2> HIDE DEF g, l
  <2>6. Cardinality(g) \in {0, 1} /\ Cardinality(l) \in {0, 1}
        /\ (Cardinality(g) = 0 \/ Cardinality(l) = 0)
    BY <2>5, CountOne
  <2>7. Cardinality(g) + Cardinality(l) <= 1
    BY <2>6
  <2> QED BY <2>7 DEF g, l
<1> QED BY <1>1, VarsAlways, PTL

-----------------------------------------------------------------------------
(* The shells implement the scopes.                                        *)

(* What a row and a page together say of n. *)
View(g, l, n) ==
  IF Has(g, n) THEN Found(g, n, TRUE) ELSE IF Has(l, n) THEN Found(l, n, FALSE) ELSE Absent

Scope == [Names -> ShellScopes!Variables \cup {Absent}]

LEMMA FoundType ==
  ASSUME NEW t \in Tables, NEW n, Has(t, n), NEW x \in BOOLEAN
  PROVE  Found(t, n, x) \in ShellScopes!Variables /\ Found(t, n, x) # Absent
<1> DEFINE k == Min(At(t, n))
<1>1. k \in At(t, n)
  BY AtSlots, MinOfSlots DEF Has
<1>2. t[k] # Absent /\ t[k] \in AVar \cup {Absent}
  BY <1>1 DEF At, Tables
<1>3. t[k] \in AVar
  BY <1>2
<1>4. t[k].val \in Values /\ t[k].ro \in BOOLEAN
  BY <1>3 DEF AVar
<1>5. Found(t, n, x) = [val |-> t[k].val, ro |-> t[k].ro, exported |-> x]
  BY DEF Found, ReadOnly
<1> HIDE DEF k
<1>6. Found(t, n, x) \in ShellScopes!Variables
  BY <1>4, <1>5 DEF ShellScopes!Variables
<1> QED BY <1>6, AbsentAssumption DEF ShellScopes!Variables

LEMMA ViewType ==
  ASSUME NEW g \in Tables, NEW l \in Tables
  PROVE  [n \in Names |-> View(g, l, n)] \in Scope
<1>1. ASSUME NEW n \in Names PROVE View(g, l, n) \in ShellScopes!Variables \cup {Absent}
  BY FoundType DEF View
<1> QED BY <1>1 DEF Scope

ScopeEach ==
  /\ StartedScopes = [i \in 1..Depth |-> [n \in Names |-> View(globalVar[i - 1], stack[i].local, n)]]
  /\ Depth \in Nat /\ StartedScopes \in Seq(Scope) /\ Len(StartedScopes) = Depth

LEMMA ScopesAre == LevelsInv => ScopeEach
<1> SUFFICES ASSUME LevelsInv PROVE ScopeEach
  OBVIOUS
<1>1. Started = 1..Depth /\ Depth \in Nat
  BY StartedIsDepth
<1>2. Cardinality(Started) = Depth
  BY <1>1, FS_Interval
<1>3. ASSUME NEW i \in 1..Depth
      PROVE  stack[i].id = i - 1 /\ globalVar[i - 1] \in Tables /\ stack[i].local \in Tables
  <2>1. i \in DOMAIN stack /\ stack[i].started
    BY <1>1, <1>3 DEF Started
  <2>2. stack \in Seq(ShellRec) /\ globalVar \in [Rows -> Tables]
    BY DEF LevelsInv, TypeOK, ShellRec
  <2>3. i \in 1..Len(stack)
    BY <2>1, <2>2
  <2>4. stack[i] \in ShellRec
    BY <2>2, <2>3, ElementOfSeq
  <2>5. stack[i].id = i - 1
    BY <2>1, <2>3 DEF LevelsInv, Levels
  <2> QED BY <2>2, <2>4, <2>5 DEF ShellRec
<1>4. ASSUME NEW i \in 1..Depth, NEW n \in Names
      PROVE  replaceEnvVar(stack[i], n) = View(globalVar[i - 1], stack[i].local, n)
  BY <1>3 DEF replaceEnvVar, View
<1>5. StartedScopes = [i \in 1..Depth |-> [n \in Names |-> View(globalVar[i - 1], stack[i].local, n)]]
  BY <1>2, <1>4 DEF StartedScopes
<1>6. \A i \in 1..Depth : StartedScopes[i] \in Scope
  BY <1>3, <1>5, ViewType
<1>7. StartedScopes \in [1..Depth -> Scope]
  BY <1>5, <1>6
<1> QED BY <1>1, <1>5, <1>7 DEF ScopeEach

LEMMA ScopesAreNext == LevelsInv' => ScopeEach'
BY ScopesAre, PTL

(* A table that has kept its entry of m, or still has none.                *)
Same(t, s, m) == At(s, m) = At(t, m) /\ \A i \in At(t, m) : s[i] = t[i]

LEMMA SameView ==
  ASSUME NEW g \in Tables, NEW l \in Tables, NEW h, NEW k, NEW m, Same(g, h, m), Same(l, k, m)
  PROVE  View(h, k, m) = View(g, l, m)
<1>1. ASSUME NEW t \in Tables, NEW s, Same(t, s, m)
      PROVE  (Has(s, m) <=> Has(t, m)) /\ \A x : Has(t, m) => Found(s, m, x) = Found(t, m, x)
  <2>1. At(s, m) = At(t, m) /\ \A i \in At(t, m) : s[i] = t[i]
    BY <1>1 DEF Same
  <2>2. Has(t, m) => Min(At(t, m)) \in At(t, m)
    BY AtSlots, MinOfSlots DEF Has
  <2> QED BY <2>1, <2>2 DEF Has, Found, ReadOnly
<1> QED BY <1>1 DEF View

LEMMA SetView ==
  ASSUME NEW t \in Tables, NEW n \in Names, Has(t, n), NEW v \in Values, NEW r \in BOOLEAN
  PROVE  LET s == Set(t, n, v, r) IN
         /\ \A m : m # n => Same(t, s, m)
         /\ Has(s, n)
         /\ Found(s, n, TRUE) = [val |-> v, ro |-> r, exported |-> TRUE]
         /\ Found(s, n, FALSE) = [val |-> v, ro |-> r, exported |-> FALSE]
<1> DEFINE k == Min(At(t, n))
           s == Set(t, n, v, r)
<1>1. k \in At(t, n)
  BY AtSlots, MinOfSlots DEF Has
<1>2. k \in Slots /\ DOMAIN t = Slots
  BY <1>1, AtSlots DEF Tables
<1>3. s[k] = Entry(n, v, r) /\ \A i \in Slots : i # k => s[i] = t[i]
  BY <1>2 DEF Set
<1>4. s[k].name = n /\ s[k].val = v /\ s[k].ro = r
  BY <1>3 DEF Entry
<1>5. s[k] # Absent
  BY <1>3, AbsentAssumption DEF Entry
<1>6. t[k] # Absent /\ t[k].name = n
  BY <1>1 DEF At
<1> HIDE DEF s
<1>7. \A m : At(s, m) = At(t, m)
  BY <1>2, <1>3, <1>4, <1>5, <1>6 DEF At
<1>8. ASSUME NEW m, m # n PROVE Same(t, s, m)
  <2>1. \A i \in At(t, m) : i # k /\ i \in Slots
    BY <1>6, <1>8 DEF At
  <2> QED BY <1>3, <1>7, <2>1 DEF Same
<1>9. Has(s, n) /\ Min(At(s, n)) = k
  BY <1>1, <1>7 DEF Has
<1>10. /\ Found(s, n, TRUE) = [val |-> v, ro |-> r, exported |-> TRUE]
      /\ Found(s, n, FALSE) = [val |-> v, ro |-> r, exported |-> FALSE]
  BY <1>4, <1>9 DEF Found, ReadOnly
<1> QED BY <1>8, <1>9, <1>10 DEF s

LEMMA DeleteView ==
  ASSUME NEW t \in Tables, NEW n, Has(t, n), AtMostOne(At(t, n))
  PROVE  ~Has(Delete(t, n), n) /\ \A m : m # n => Same(t, Delete(t, n), m)
<1> DEFINE k == Min(At(t, n))
           s == Delete(t, n)
<1>1. k \in At(t, n)
  BY AtSlots, MinOfSlots DEF Has
<1>2. k \in Slots /\ DOMAIN t = Slots
  BY <1>1, AtSlots DEF Tables
<1>3. s[k] = Absent /\ \A i \in Slots : i # k => s[i] = t[i]
  BY <1>2 DEF Delete
<1>4. t[k].name = n
  BY <1>1 DEF At
<1>5. ~Has(s, n)
  BY AtDelete DEF Has
<1> HIDE DEF s, k
<1>6. ASSUME NEW m, m # n PROVE Same(t, s, m)
  <2>1. \A i \in Slots : i = k => i \notin At(t, m) /\ i \notin At(s, m)
    BY <1>3, <1>4, <1>6 DEF At
  <2>2. \A i \in Slots : i \in At(t, m) <=> i \in At(s, m)
    BY <1>3, <2>1 DEF At
  <2>3. At(s, m) = At(t, m)
    BY <2>2, AtSlots
  <2>4. \A i \in At(t, m) : s[i] = t[i]
    BY <1>3, <2>1, AtSlots
  <2> QED BY <2>3, <2>4 DEF Same
<1> QED BY <1>5, <1>6 DEF s

LEMMA CreateView ==
  ASSUME NEW t \in Tables, NEW n \in Names, ~Has(t, n), Room(t), NEW v \in Values, NEW r \in BOOLEAN
  PROVE  LET s == Create(t, n, v, r) IN
         /\ \A m : m # n => Same(t, s, m)
         /\ Has(s, n)
         /\ Found(s, n, TRUE) = [val |-> v, ro |-> r, exported |-> TRUE]
         /\ Found(s, n, FALSE) = [val |-> v, ro |-> r, exported |-> FALSE]
<1> DEFINE F == {i \in Slots : t[i] = Absent}
           k == Min(F)
           s == Create(t, n, v, r)
<1>1. k \in F
  <2>1. F \in SUBSET Slots /\ F # {}
    BY DEF Room
  <2> QED BY <2>1, MinOfSlots
<1>2. k \in Slots /\ DOMAIN t = Slots /\ t[k] = Absent
  BY <1>1 DEF Tables
<1>3. s[k] = Entry(n, v, r) /\ \A i \in Slots : i # k => s[i] = t[i]
  BY <1>2 DEF Create
<1>4. s[k].name = n /\ s[k].val = v /\ s[k].ro = r
  BY <1>3 DEF Entry
<1>5. s[k] # Absent
  BY <1>3, AbsentAssumption DEF Entry
<1> HIDE DEF F, k, s
<1>6. ASSUME NEW m, m # n PROVE Same(t, s, m)
  <2>1. \A i \in Slots : i = k => i \notin At(t, m) /\ i \notin At(s, m)
    BY <1>2, <1>4, <1>6 DEF At
  <2>2. \A i \in Slots : i \in At(t, m) <=> i \in At(s, m)
    BY <1>3, <2>1 DEF At
  <2>3. At(s, m) = At(t, m)
    BY <2>2, AtSlots
  <2>4. \A i \in At(t, m) : s[i] = t[i]
    BY <1>3, <2>1, AtSlots
  <2> QED BY <2>3, <2>4 DEF Same
<1>7. At(s, n) = {k}
  <2>1. \A i \in At(s, n) : i = k
    BY <1>3 DEF At, Has
  <2>2. k \in At(s, n)
    BY <1>2, <1>4, <1>5 DEF At
  <2> QED BY <2>1, <2>2
<1>8. Has(s, n) /\ Min(At(s, n)) = k
  <2>1. At(s, n) \in SUBSET Slots /\ At(s, n) # {}
    BY <1>7, AtSlots
  <2>2. Min(At(s, n)) \in At(s, n)
    BY <2>1, MinOfSlots
  <2> QED BY <1>7, <2>1, <2>2 DEF Has
<1>9. /\ Found(s, n, TRUE) = [val |-> v, ro |-> r, exported |-> TRUE]
      /\ Found(s, n, FALSE) = [val |-> v, ro |-> r, exported |-> FALSE]
  BY <1>4, <1>8 DEF Found, ReadOnly
<1> QED BY <1>6, <1>8, <1>9 DEF s

(* What a built-in makes of the view V of its name, in the words of Scopes. *)
Declared(V, W, v, x, r) ==
  /\ V # Absent => ~V.ro \/ (x /\ ~V.exported)
  /\ W = [val |-> v, ro |-> r, exported |-> x \/ (V # Absent /\ V.exported)]
Dropped(V, W) == V # Absent /\ ~V.ro /\ W = Absent

Acts(n, g, l) ==
  LET V == View(Global, Local, n)
      W == View(g, l, n)
  IN /\ Changes(g, l)
     /\ \A m \in Names : m # n => View(g, l, m) = View(Global, Local, m)
     /\ Dropped(V, W) \/ \E v \in Values, x, r \in BOOLEAN : Declared(V, W, v, x, r)

LEMMA SameSelf == \A t, m : Same(t, t, m)
BY DEF Same

LEMMA TopAlone ==
  ASSUME VarsInv, Running
  PROVE  /\ Global \in Tables /\ Local \in Tables
         /\ \A n \in Names : Alone(Global, Local, n)
<1>1. LevelsInv /\ OnceInv /\ TypeOK
  BY DEF VarsInv, LevelsInv
<1>2. stack # <<>> /\ Len(stack) \in 1..Len(stack) /\ Shell.id = Len(stack) - 1
  BY <1>1, TopShell
<1>3. Global \in Tables /\ Local \in Tables
  BY <1>1, <1>2, TopType DEF Global, Local, TypeOK
<1> QED BY <1>1, <1>2, <1>3 DEF OnceInv, Global, Local, Shell, Running

LEMMA ReadOnlyFound == \A t, n, x : Found(t, n, x).ro = ReadOnly(t, n) /\ Found(t, n, x).exported = x
BY DEF Found

LEMMA ExportActs ==
  ASSUME VarsInv, NEW n \in Names, NEW v \in Values, NEW r \in BOOLEAN, declare_export(n, v, r)
  PROVE  \E g, l \in Tables : Acts(n, g, l)
<1>1. Running /\ Global \in Tables /\ Local \in Tables /\ \A m \in Names : Alone(Global, Local, m)
  BY TopAlone DEF declare_export
<1> DEFINE g == IF Has(Global, n) THEN Set(Global, n, v, r) ELSE Create(Global, n, v, r)
           l == IF Has(Local, n) THEN Delete(Local, n) ELSE Local
           V == View(Global, Local, n)
           W == View(g, l, n)
<1>2. g \in Tables /\ l \in Tables
  BY <1>1, TableTypes DEF declare_export
<1>3. Changes(g, l)
  BY DEF declare_export, Changes
<1>4. /\ Has(g, n) /\ Found(g, n, TRUE) = [val |-> v, ro |-> r, exported |-> TRUE]
      /\ \A m : m # n => Same(Global, g, m)
  <2>1. CASE Has(Global, n)
    BY <1>1, <2>1, SetView
  <2>2. CASE ~Has(Global, n)
    BY <1>1, <2>2, CreateView DEF declare_export
  <2> QED BY <2>1, <2>2
<1>5. \A m : m # n => Same(Local, l, m)
  <2>1. CASE Has(Local, n)
    BY <1>1, <2>1, DeleteView DEF Alone
  <2>2. CASE ~Has(Local, n)
    BY <2>2, SameSelf
  <2> QED BY <2>1, <2>2
<1>6. V # Absent => ~V.ro \/ ~V.exported
  <2>1. CASE Has(Global, n)
    BY <2>1, ReadOnlyFound DEF View, declare_export
  <2>2. CASE ~Has(Global, n)
    BY <2>2, ReadOnlyFound DEF View
  <2> QED BY <2>1, <2>2
<1> HIDE DEF g, l
<1>7. \A m \in Names : m # n => View(g, l, m) = View(Global, Local, m)
  BY <1>1, <1>4, <1>5, SameView
<1>8. W = [val |-> v, ro |-> r, exported |-> TRUE]
  BY <1>4 DEF View
<1> HIDE DEF V, W
<1>9. (TRUE \/ (V # Absent /\ V.exported)) = TRUE
  BY Zenon
<1>10. Declared(V, W, v, TRUE, r)
  BY <1>6, <1>8, <1>9 DEF Declared
<1>11. TRUE \in BOOLEAN
  OBVIOUS
<1>12. \E w \in Values, x, q \in BOOLEAN : Declared(V, W, w, x, q)
  BY <1>10, <1>11
<1> QED BY <1>2, <1>3, <1>7, <1>12 DEF Acts, V, W

LEMMA GlobalActs ==
  ASSUME VarsInv, NEW n \in Names, NEW v \in Values, NEW r \in BOOLEAN, declare_global(n, v, r)
  PROVE  \E g, l \in Tables : Acts(n, g, l)
<1>1. Running /\ Global \in Tables /\ Local \in Tables /\ Has(Global, n) /\ ~ReadOnly(Global, n)
  BY TopAlone DEF declare_global
<1> DEFINE g == Set(Global, n, v, r)
           V == View(Global, Local, n)
           W == View(g, Local, n)
<1>2. g \in Tables /\ Changes(g, Local)
  BY <1>1, TableTypes DEF declare_global, Changes
<1>3. /\ Has(g, n) /\ Found(g, n, TRUE) = [val |-> v, ro |-> r, exported |-> TRUE]
      /\ \A m : m # n => Same(Global, g, m)
  BY <1>1, SetView
<1>4. V # Absent /\ ~V.ro /\ V.exported = TRUE
  BY <1>1, FoundType, ReadOnlyFound DEF View
<1> HIDE DEF g
<1>5. \A m \in Names : m # n => View(g, Local, m) = View(Global, Local, m)
  BY <1>1, <1>3, SameView, SameSelf
<1>6. W = [val |-> v, ro |-> r, exported |-> TRUE]
  BY <1>3 DEF View
<1> HIDE DEF V, W
<1>7. (FALSE \/ (V # Absent /\ V.exported)) = TRUE
  BY <1>4, Zenon
<1>8. Declared(V, W, v, FALSE, r)
  BY <1>4, <1>6, <1>7 DEF Declared
<1>9. FALSE \in BOOLEAN
  OBVIOUS
<1>10. \E w \in Values, x, q \in BOOLEAN : Declared(V, W, w, x, q)
  BY <1>8, <1>9
<1> QED BY <1>1, <1>2, <1>5, <1>10 DEF Acts, V, W

LEMMA LocalActs ==
  ASSUME VarsInv, NEW n \in Names, NEW v \in Values, NEW r \in BOOLEAN, declare_local(n, v, r)
  PROVE  \E g, l \in Tables : Acts(n, g, l)
<1>1. Running /\ Global \in Tables /\ Local \in Tables /\ ~Has(Global, n)
  BY TopAlone DEF declare_local
<1> DEFINE l == IF Has(Local, n) THEN Set(Local, n, v, r) ELSE Create(Local, n, v, r)
           V == View(Global, Local, n)
           W == View(Global, l, n)
<1>2. l \in Tables /\ Changes(Global, l)
  BY <1>1, TableTypes DEF declare_local, Changes
<1>3. /\ Has(l, n) /\ Found(l, n, FALSE) = [val |-> v, ro |-> r, exported |-> FALSE]
      /\ \A m : m # n => Same(Local, l, m)
  <2>1. CASE Has(Local, n)
    BY <1>1, <2>1, SetView
  <2>2. CASE ~Has(Local, n)
    BY <1>1, <2>2, CreateView DEF declare_local
  <2> QED BY <2>1, <2>2
<1>4. V # Absent => ~V.ro /\ V.exported = FALSE
  <2>1. CASE Has(Local, n)
    BY <1>1, <2>1, ReadOnlyFound DEF View, declare_local
  <2>2. CASE ~Has(Local, n)
    BY <1>1, <2>2 DEF View
  <2> QED BY <2>1, <2>2
<1> HIDE DEF l
<1>5. \A m \in Names : m # n => View(Global, l, m) = View(Global, Local, m)
  BY <1>1, <1>3, SameView, SameSelf
<1>6. W = [val |-> v, ro |-> r, exported |-> FALSE]
  BY <1>1, <1>3 DEF View
<1> HIDE DEF V, W
<1>7. (FALSE \/ (V # Absent /\ V.exported)) = FALSE
  BY <1>4, Zenon
<1>8. Declared(V, W, v, FALSE, r)
  BY <1>4, <1>6, <1>7 DEF Declared
<1>9. FALSE \in BOOLEAN
  OBVIOUS
<1>10. \E w \in Values, x, q \in BOOLEAN : Declared(V, W, w, x, q)
  BY <1>8, <1>9
<1> QED BY <1>1, <1>2, <1>5, <1>10 DEF Acts, V, W

LEMMA UnsetActs ==
  ASSUME VarsInv, NEW n \in Names, unset(n)
  PROVE  \E g, l \in Tables : Acts(n, g, l)
<1>1. Running /\ Global \in Tables /\ Local \in Tables /\ Alone(Global, Local, n)
  BY TopAlone DEF unset, unset_global, unset_local
<1>2. CASE unset_global(n)
  <2> DEFINE g == Delete(Global, n)
  <2>1. Has(Global, n) /\ ~ReadOnly(Global, n) /\ Changes(g, Local)
    BY <1>2 DEF unset_global, Changes
  <2>2. g \in Tables
    BY <1>1 DEF Delete, Tables
  <2>3. ~Has(g, n) /\ \A m : m # n => Same(Global, g, m)
    BY <1>1, <2>1, DeleteView DEF Alone
  <2> HIDE DEF g
  <2>4. \A m \in Names : m # n => View(g, Local, m) = View(Global, Local, m)
    BY <1>1, <2>3, SameView, SameSelf
  <2>5. View(g, Local, n) = Absent
    BY <1>1, <2>1, <2>3 DEF View, Alone, Has
  <2>6. Dropped(View(Global, Local, n), View(g, Local, n))
    BY <1>1, <2>1, <2>5, FoundType, ReadOnlyFound DEF View, Dropped
  <2> QED BY <1>1, <2>1, <2>2, <2>4, <2>6 DEF Acts
<1>3. CASE unset_local(n)
  <2> DEFINE l == Delete(Local, n)
  <2>1. ~Has(Global, n) /\ Has(Local, n) /\ ~ReadOnly(Local, n) /\ Changes(Global, l)
    BY <1>3 DEF unset_local, Changes
  <2>2. l \in Tables
    BY <1>1 DEF Delete, Tables
  <2>3. ~Has(l, n) /\ \A m : m # n => Same(Local, l, m)
    BY <1>1, <2>1, DeleteView DEF Alone
  <2> HIDE DEF l
  <2>4. \A m \in Names : m # n => View(Global, l, m) = View(Global, Local, m)
    BY <1>1, <2>3, SameView, SameSelf
  <2>5. View(Global, l, n) = Absent
    BY <2>1, <2>3 DEF View
  <2>6. Dropped(View(Global, Local, n), View(Global, l, n))
    BY <1>1, <2>1, <2>5, FoundType, ReadOnlyFound DEF View, Dropped
  <2> QED BY <1>1, <2>1, <2>2, <2>4, <2>6 DEF Acts
<1> QED BY <1>2, <1>3 DEF unset

LEMMA CommandImplements ==
  ASSUME VarsInv, NEW n \in Names, declare(n) \/ unset(n)
  PROVE  ShellScopes!Next
<1>1. LevelsInv /\ OnceInv
  BY DEF VarsInv
<1>2. LevelsInv'
  BY CommandStep DEF VarsInv
<1>3. Running
  BY <1>1, BuiltIns
<1>4. PICK g \in Tables, l \in Tables : Acts(n, g, l)
  BY ExportActs, GlobalActs, LocalActs, UnsetActs DEF declare
<1> DEFINE D == Len(stack)
           V == View(Global, Local, n)
           W == View(g, l, n)
           S == StartedScopes
           T == [m \in Names |-> View(Global, Local, m)]
           U == [m \in Names |-> View(g, l, m)]
<1>5. stack # <<>> /\ D \in Nat \ {0} /\ D \in 1..D /\ Shell.id = D - 1 /\ Shell.id \in Rows /\ Depth = D
      /\ D <= NRows
  BY <1>1, <1>3, TopShell
<1>6. Changes(g, l)
  BY <1>4 DEF Acts
<1>7. /\ Depth' = D
      /\ \A i \in 1..D : i < D => stack'[i] = stack[i]
      /\ \A id \in Rows : id # D - 1 => globalVar'[id] = globalVar[id]
      /\ Len(stack') = D
  BY <1>1, <1>3, <1>5, <1>6, TableStep DEF Changes
<1>8. globalVar[D - 1] = Global /\ stack[D].local = Local
  BY <1>5 DEF Global, Local, Shell
<1>9. globalVar'[D - 1] = g
  <2>1. globalVar \in [Rows -> Tables]
    BY <1>1 DEF LevelsInv, TypeOK
  <2> QED BY <1>5, <1>6, <1>8, <2>1 DEF Changes, sys_get_set_globalVar
<1>10. stack'[D].local = l
  <2>1. CASE stack' = stack /\ l = Local
    BY <1>8, <2>1
  <2>2. CASE get_set_localVar(l)
    <3>1. TypeOK
      BY <1>1 DEF LevelsInv
    <3>2. Shell'.local = l
      BY <1>5, <2>2, <3>1, LocalReplaced
    <3> QED BY <1>7, <3>2 DEF Shell
  <2> QED BY <1>6, <2>1, <2>2 DEF Changes
<1>11. ScopeEach /\ ScopeEach'
  BY <1>1, <1>2, ScopesAre, ScopesAreNext
<1>12. S \in Seq(Scope) /\ Len(S) = D /\ S # <<>> /\ S' \in Seq(Scope) /\ Len(S') = D
  BY <1>5, <1>7, <1>11, EmptySeq DEF ScopeEach
<1>13. S[D] = T /\ S'[D] = U
  <2>1. S[D] = [m \in Names |-> View(globalVar[D - 1], stack[D].local, m)]
    BY <1>5, <1>11 DEF ScopeEach
  <2>2. S'[D] = [m \in Names |-> View(globalVar'[D - 1], stack'[D].local, m)]
    BY <1>5, <1>7, <1>11 DEF ScopeEach
  <2> QED BY <1>8, <1>9, <1>10, <2>1, <2>2
<1>14. ASSUME NEW i \in 1..D, i < D PROVE S'[i] = S[i]
  <2>1. stack'[i] = stack[i] /\ i - 1 \in Rows /\ i - 1 # D - 1
    BY <1>5, <1>7, <1>14, ShellVarsAssumption DEF Rows
  <2>2. globalVar'[i - 1] = globalVar[i - 1]
    BY <1>7, <2>1
  <2>3. S[i] = [m \in Names |-> View(globalVar[i - 1], stack[i].local, m)]
    BY <1>5, <1>11 DEF ScopeEach
  <2>4. S'[i] = [m \in Names |-> View(globalVar'[i - 1], stack'[i].local, m)]
    BY <1>5, <1>7, <1>11 DEF ScopeEach
  <2> QED BY <2>1, <2>2, <2>3, <2>4
<1>15. T[n] = V /\ U = [T EXCEPT ![n] = W]
  <2>1. \A m \in Names : m # n => View(g, l, m) = View(Global, Local, m)
    BY <1>4 DEF Acts
  <2> QED BY <2>1
<1>16. Dropped(V, W) \/ \E v \in Values, x, r \in BOOLEAN : Declared(V, W, v, x, r)
  BY <1>4 DEF Acts
<1> HIDE DEF V, W, T, U, S, D
<1>17. S' = [S EXCEPT ![D] = [S[D] EXCEPT ![n] = W]]
  <2> DEFINE R == [S EXCEPT ![D] = U]
  <2>1. U \in Scope
    BY <1>5, <1>12, <1>13, ElementOfSeq
  <2>2. R \in Seq(Scope) /\ Len(R) = D /\ \A i \in 1..D : R[i] = IF i = D THEN U ELSE S[i]
    BY <1>5, <1>12, <2>1, ExceptSeq
  <2> HIDE DEF R
  <2>3. \A i \in 1..Len(S') : S'[i] = R[i]
    BY <1>5, <1>12, <1>13, <1>14, <2>2
  <2>4. S' = R
    BY <1>12, <2>2, <2>3, SeqEqual
  <2> QED BY <1>13, <1>15, <2>4 DEF R
<1>18. S[D][n] = V
  BY <1>13, <1>15
<1>19. CASE Dropped(V, W)
  <2>1. S # <<>> /\ S[Len(S)][n] # Absent /\ ~S[Len(S)][n].ro
        /\ S' = [S EXCEPT ![Len(S)][n] = Absent]
    BY <1>12, <1>17, <1>18, <1>19 DEF Dropped
  <2>2. ShellScopes!Unset(n)
    BY <2>1 DEF ShellScopes!Unset, ShellScopes!Top, S
  <2> QED BY <2>2 DEF ShellScopes!Next
<1>20. ASSUME NEW v \in Values, NEW x \in BOOLEAN, NEW r \in BOOLEAN, Declared(V, W, v, x, r)
       PROVE  ShellScopes!Next
  <2>1. /\ V # Absent => ~V.ro \/ (x /\ ~V.exported)
        /\ W = [val |-> v, ro |-> r, exported |-> x \/ (V # Absent /\ V.exported)]
    BY <1>20 DEF Declared
  <2>2. Len(S) = D /\ S # <<>>
    BY <1>12
  <2>3. ShellScopes!Top = S[D]
    BY <2>2 DEF ShellScopes!Top, S
  <2>4. ShellScopes!Declare(n, v, x, r)
    BY <1>17, <1>18, <2>1, <2>2, <2>3, Zenon DEF ShellScopes!Declare, S
  <2> QED BY <2>4 DEF ShellScopes!Next
<1> QED BY <1>16, <1>19, <1>20

LEMMA NewImplements ==
  ASSUME VarsInv, init_loop \/ sh
  PROVE  StartedScopes' = StartedScopes
<1>1. LevelsInv
  BY DEF VarsInv
<1> DEFINE D == Len(stack)
<1>2. /\ LevelsInv' /\ Len(stack') = D + 1 /\ Depth' = D /\ globalVar' = globalVar
      /\ \A i \in 1..D : stack'[i] = stack[i] /\ stack[i].started
  BY <1>1, NewShellStep
<1>3. D \in Nat /\ Depth = D
  <2>1. D \in Nat /\ stack \in Seq(ShellRec)
    BY <1>1 DEF LevelsInv, TypeOK, ShellRec
  <2>2. CASE stack = <<>>
    BY <2>1, <2>2, EmptySeq DEF Depth
  <2>3. CASE stack # <<>>
    <3>1. D \in 1..D
      BY <2>1, <2>3, EmptySeq
    <3> QED BY <1>2, <2>1, <2>3, <3>1 DEF Depth, Shell
  <2> QED BY <2>2, <2>3
<1>4. ScopeEach /\ ScopeEach'
  BY <1>1, <1>2, ScopesAre, ScopesAreNext
<1> HIDE DEF D
<1>5. StartedScopes = [i \in 1..D |-> [n \in Names |-> View(globalVar[i - 1], stack[i].local, n)]]
  BY <1>3, <1>4 DEF ScopeEach
<1>6. StartedScopes' = [i \in 1..D |-> [n \in Names |-> View(globalVar'[i - 1], stack'[i].local, n)]]
  BY <1>2, <1>4 DEF ScopeEach
<1> QED BY <1>2, <1>5, <1>6

LEMMA StartImplements ==
  ASSUME VarsInv, main_start
  PROVE  ShellScopes!Next
<1>1. LevelsInv /\ OnceInv
  BY DEF VarsInv
<1> DEFINE D == Len(stack)
           S == StartedScopes
           E == IF S = <<>> THEN [n \in Names |-> Absent]
                ELSE [n \in Names |-> IF S[Len(S)][n] # Absent /\ S[Len(S)][n].exported
                                      THEN S[Len(S)][n] ELSE Absent]
<1>2. /\ LevelsInv' /\ Len(stack') = D /\ D \in Nat \ {0} /\ Shell'.started
      /\ Shell'.local = Clear /\ Shell' = stack'[D]
      /\ \A i \in 1..D : i < D => stack'[i] = stack[i] /\ stack[i].started
      /\ \A id \in Rows : id # D - 1 => globalVar'[id] = globalVar[id]
      /\ globalVar'[D - 1] = IF D = 1 THEN Clear ELSE globalVar[D - 2]
  BY <1>1, StartStep
<1>3. Depth = D - 1 /\ D <= NRows
  BY <1>1 DEF main_start, Depth, LevelsInv, Levels
<1>4. Depth' = D
  <2>1. stack' # <<>>
    BY <1>2, EmptySeq
  <2> QED BY <1>2, <2>1 DEF Depth
<1>5. ScopeEach /\ ScopeEach'
  BY <1>1, <1>2, ScopesAre, ScopesAreNext
<1>6. S \in Seq(Scope) /\ Len(S) = D - 1 /\ S' \in Seq(Scope) /\ Len(S') = D
  BY <1>3, <1>4, <1>5 DEF ScopeEach
<1>7. ASSUME NEW i \in 1..D - 1 PROVE S'[i] = S[i]
  <2>1. i \in 1..D /\ i < D /\ i - 1 \in Rows /\ i - 1 # D - 1
    BY <1>2, <1>3, ShellVarsAssumption DEF Rows
  <2>2. globalVar'[i - 1] = globalVar[i - 1] /\ stack'[i] = stack[i]
    BY <1>2, <2>1
  <2>3. S[i] = [m \in Names |-> View(globalVar[i - 1], stack[i].local, m)]
    BY <1>3, <1>5 DEF ScopeEach
  <2>4. S'[i] = [m \in Names |-> View(globalVar'[i - 1], stack'[i].local, m)]
    BY <1>4, <1>5, <2>1 DEF ScopeEach
  <2> QED BY <2>2, <2>3, <2>4
<1>8. S'[D] = [m \in Names |-> View(globalVar'[D - 1], Clear, m)]
  <2>1. D \in 1..D
    BY <1>2
  <2>2. S'[D] = [m \in Names |-> View(globalVar'[D - 1], stack'[D].local, m)]
    BY <1>4, <1>5, <2>1 DEF ScopeEach
  <2> QED BY <1>2, <2>2
<1>9. \A n : ~Has(Clear, n)
  BY AtClear DEF Has
<1>10. S'[D] = E
  <2>1. CASE D = 1
    <3>1. S = <<>>
      BY <1>6, <2>1, EmptySeq
    <3>2. \A m \in Names : View(globalVar'[D - 1], Clear, m) = Absent
      BY <1>2, <1>9, <2>1 DEF View
    <3> QED BY <1>8, <3>1, <3>2
  <2>2. CASE D # 1
    <3> DEFINE k == D - 1
    <3>1. k \in 1..k /\ k \in 1..D /\ k < D /\ k - 1 = D - 2 /\ S # <<>> /\ Len(S) = k
          /\ k - 1 \in Rows
      BY <1>2, <1>3, <1>6, <2>2, EmptySeq, ShellVarsAssumption DEF Rows
    <3>2. S[k] = [m \in Names |-> View(globalVar[k - 1], stack[k].local, m)]
      BY <1>3, <1>5, <3>1 DEF ScopeEach
    <3>3. globalVar'[D - 1] = globalVar[k - 1] /\ globalVar[k - 1] \in Tables
      BY <1>1, <1>2, <2>2, <3>1 DEF LevelsInv, TypeOK
    <3>4. ASSUME NEW m \in Names
          PROVE  View(globalVar'[D - 1], Clear, m)
                   = IF S[k][m] # Absent /\ S[k][m].exported THEN S[k][m] ELSE Absent
      <4>1. S[k][m] = View(globalVar[k - 1], stack[k].local, m)
        BY <3>2
      <4>2. CASE Has(globalVar[k - 1], m)
        <5>1. S[k][m] = Found(globalVar[k - 1], m, TRUE) /\ S[k][m] # Absent
          BY <3>3, <4>1, <4>2, FoundType DEF View
        <5>2. S[k][m].exported
          <6>1. Found(globalVar[k - 1], m, TRUE).exported = TRUE
            BY DEF Found
          <6>2. S[k][m].exported = TRUE
            BY <5>1, <6>1
          <6> QED BY <6>2, Zenon
        <5>3. View(globalVar'[D - 1], Clear, m) = Found(globalVar[k - 1], m, TRUE)
          BY <3>3, <4>2 DEF View
        <5> QED BY <5>1, <5>2, <5>3
      <4>3. CASE ~Has(globalVar[k - 1], m)
        <5>1. View(globalVar'[D - 1], Clear, m) = Absent
          BY <1>9, <3>3, <4>3 DEF View
        <5>2. S[k][m] = Absent \/ S[k][m] = Found(stack[k].local, m, FALSE)
          BY <4>1, <4>3 DEF View
        <5>3. S[k][m] # Absent => ~S[k][m].exported
          BY <5>2, ReadOnlyFound
        <5> QED BY <5>1, <5>3
      <4> QED BY <4>2, <4>3
    <3> QED BY <1>8, <3>1, <3>4
  <2> QED BY <2>1, <2>2
<1>11. E \in Scope
  <2>1. D \in 1..Len(S')
    BY <1>2, <1>6
  <2>2. S'[D] \in Scope
    BY <1>6, <2>1, ElementOfSeq
  <2> QED BY <1>10, <2>2
<1> HIDE DEF S, E, D
<1>12. S' = Append(S, E)
  <2>1. /\ Append(S, E) \in Seq(Scope) /\ Len(Append(S, E)) = D
        /\ \A i \in 1..D - 1 : Append(S, E)[i] = S[i]
        /\ Append(S, E)[D] = E
    BY <1>2, <1>6, <1>11, AppendProperties
  <2>2. \A i \in 1..Len(S') : S'[i] = Append(S, E)[i]
    BY <1>2, <1>6, <1>7, <1>10, <2>1
  <2> QED BY <1>6, <2>1, <2>2, SeqEqual
<1>13. ShellScopes!Open
  BY <1>12, Zenon DEF ShellScopes!Open, ShellScopes!Top, ShellScopes!Empty, S, E
<1> QED BY <1>13 DEF ShellScopes!Next

LEMMA ExitImplements ==
  ASSUME VarsInv, main_exit
  PROVE  ShellScopes!Next
<1>1. LevelsInv
  BY DEF VarsInv
<1> DEFINE D == Len(stack)
           S == StartedScopes
           B == SubSeq(S, 1, Len(S) - 1)
<1>2. /\ LevelsInv' /\ Len(stack') = D - 1 /\ D \in Nat \ {0}
      /\ \A i \in 1..D - 1 : stack'[i] = stack[i]
      /\ \A id \in Rows : id # D - 1 => globalVar'[id] = globalVar[id]
  BY <1>1, ExitStep
<1>3. Depth = D /\ D <= NRows
  BY <1>1, TopShell DEF main_exit
<1>4. Depth' = D - 1
  <2>1. stack' \in Seq(ShellRec) /\ stack \in Seq(ShellRec)
    BY <1>1, <1>2 DEF LevelsInv, TypeOK, ShellRec
  <2>2. CASE stack' = <<>>
    BY <1>2, <2>2, EmptySeq DEF Depth
  <2>3. CASE stack' # <<>>
    <3>1. D - 1 \in 1..D - 1 /\ D - 1 \in 1..D /\ D - 1 < D
      BY <1>2, <2>1, <2>3, EmptySeq
    <3>2. Shell' = stack[D - 1]
      BY <1>2, <3>1 DEF Shell
    <3>3. stack[D - 1].started
      BY <1>1, <3>1 DEF LevelsInv, Levels
    <3> QED BY <1>2, <2>3, <3>2, <3>3 DEF Depth
  <2> QED BY <2>2, <2>3
<1>5. ScopeEach /\ ScopeEach'
  BY <1>1, <1>2, ScopesAre, ScopesAreNext
<1>6. S \in Seq(Scope) /\ Len(S) = D /\ S' \in Seq(Scope) /\ Len(S') = D - 1 /\ S # <<>>
  BY <1>2, <1>3, <1>4, <1>5, EmptySeq DEF ScopeEach
<1>7. ASSUME NEW i \in 1..D - 1 PROVE S'[i] = S[i]
  <2>1. i \in 1..D /\ i - 1 \in Rows /\ i - 1 # D - 1
    BY <1>2, <1>3, ShellVarsAssumption DEF Rows
  <2>2. globalVar'[i - 1] = globalVar[i - 1] /\ stack'[i] = stack[i]
    BY <1>2, <2>1
  <2>3. S[i] = [m \in Names |-> View(globalVar[i - 1], stack[i].local, m)]
    BY <1>3, <1>5, <2>1 DEF ScopeEach
  <2>4. S'[i] = [m \in Names |-> View(globalVar'[i - 1], stack'[i].local, m)]
    BY <1>4, <1>5 DEF ScopeEach
  <2> QED BY <2>2, <2>3, <2>4
<1> HIDE DEF S, D
<1>8. B \in Seq(Scope) /\ Len(B) = D - 1 /\ \A i \in 1..D - 1 : B[i] = S[i]
  <2> DEFINE n == D - 1
  <2>1. n \in Nat /\ Len(S) - 1 = n /\ n - 1 + 1 = n /\ (~(1 <= n) => n = 0)
    BY <1>2, <1>6
  <2>2. \A i \in 1..n : S[i] \in Scope
    BY <1>2, <1>6, ElementOfSeq
  <2>3. /\ B \in Seq(Scope) /\ Len(B) = IF 1 <= n THEN n - 1 + 1 ELSE 0
        /\ \A i \in 1..n - 1 + 1 : B[i] = S[1 + i - 1]
    BY <2>1, <2>2, SubSeqProperties
  <2> HIDE DEF n, B
  <2>4. Len(B) = n
    BY <2>1, <2>3
  <2>5. ASSUME NEW i \in 1..n PROVE B[i] = S[i]
    <3>1. 1 + i - 1 = i /\ i \in 1..n - 1 + 1
      BY <2>1
    <3>2. B[i] = S[1 + i - 1]
      BY <2>3, <3>1
    <3> QED BY <3>1, <3>2
  <2> QED BY <2>3, <2>4, <2>5 DEF n
<1> HIDE DEF B
<1>9. \A i \in 1..Len(S') : S'[i] = B[i]
  BY <1>6, <1>7, <1>8
<1>10. S' = B
  BY <1>6, <1>8, <1>9, SeqEqual
<1>11. ShellScopes!Close
  BY <1>6, <1>10 DEF ShellScopes!Close, S, B
<1> QED BY <1>11 DEF ShellScopes!Next

(* Every shell has a scope of its own: what a shell sees of the kernel's   *)
(* rows and of its page behaves as one scope that starts with its parent's *)
(* exported variables, that only its own declare and unset change, and     *)
(* that ends with it (sys_get_set_globalVar, get_set_localVar, main).      *)
THEOREM ShellsAreScopes == Spec => ImplementsScopes
<1>1. Init => ShellScopes!Init
  <2> SUFFICES ASSUME Init PROVE StartedScopes = <<>>
    BY DEF ShellScopes!Init
  <2>1. LevelsInv /\ Depth = 0
    BY InitVars DEF VarsInv, Init, Depth
  <2>2. StartedScopes \in Seq(Scope) /\ Len(StartedScopes) = 0
    BY <2>1, ScopesAre DEF ScopeEach
  <2> QED BY <2>2, EmptySeq
<1>2. VarsInv /\ [Next]_vars => [ShellScopes!Next]_StartedScopes
  <2> SUFFICES ASSUME VarsInv, [Next]_vars PROVE [ShellScopes!Next]_StartedScopes
    OBVIOUS
  <2>1. CASE Next
    BY <2>1, CommandImplements, NewImplements, StartImplements, ExitImplements DEF Next
  <2>2. CASE UNCHANGED vars
    BY <2>2 DEF vars, StartedScopes, Started, replaceEnvVar
  <2> QED BY <2>1, <2>2
<1> QED BY <1>1, <1>2, VarsAlways, PTL DEF Spec, ImplementsScopes, ShellScopes!Spec
=============================================================================
