-------------------------------- MODULE Scopes --------------------------------
(***************************************************************************)
(* What the variables of the shell promise: every shell that runs has a    *)
(* scope of its own, which starts with the exported variables of the shell *)
(* it was started from and ends with it.                                   *)
(***************************************************************************)
EXTENDS Sequences, Integers

CONSTANTS Names, Values, Absent

VARIABLE scopes  \* the innermost shell's is the last

Variables == [val : Values, ro : BOOLEAN, exported : BOOLEAN]
Top == scopes[Len(scopes)]
Empty == [n \in Names |-> Absent]

Init == scopes = <<>>

(* A nested shell. *)
Open ==
  scopes' = Append(scopes, IF scopes = <<>> THEN Empty
                           ELSE [n \in Names |-> IF Top[n] # Absent /\ Top[n].exported
                                                 THEN Top[n] ELSE Absent])
Close == scopes # <<>> /\ scopes' = SubSeq(scopes, 1, Len(scopes) - 1)

(* declare: only a read-only variable that is not exported gives way, to -x. *)
Declare(n, v, x, r) ==
  /\ scopes # <<>>
  /\ Top[n] # Absent => ~Top[n].ro \/ (x /\ ~Top[n].exported)
  /\ scopes' = [scopes EXCEPT ![Len(scopes)][n] =
       [val |-> v, ro |-> r, exported |-> x \/ (Top[n] # Absent /\ Top[n].exported)]]

Unset(n) ==
  /\ scopes # <<>>
  /\ Top[n] # Absent /\ ~Top[n].ro
  /\ scopes' = [scopes EXCEPT ![Len(scopes)][n] = Absent]

Next ==
  \/ Open \/ Close
  \/ \E n \in Names :
       Unset(n) \/ \E v \in Values, x, r \in BOOLEAN : Declare(n, v, x, r)

Spec == Init /\ [][Next]_scopes
=============================================================================
