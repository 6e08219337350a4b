--------------------------- MODULE OpenFilesProofs ---------------------------
(***************************************************************************)
(* Open files for any clients, files and sizes of the tables, whether or   *)
(* not programs share what they write: a descriptor stays with the file it *)
(* was opened for.  When they do not share, clients and server agree on    *)
(* its size and on its pages.                                              *)
(***************************************************************************)
EXTENDS OpenFiles, FiniteSetTheorems, WellFoundedInduction, TLAPS

Sizes == 0..MaxSize
AnEntry == [file : Files \cup {None}, mode : Modes \cup {None}, mapped : BOOLEAN, size : Sizes]

(* The calls an env can be in, the ones another returns to first.          *)
Returns ==
  {Idle, Unborn, Gone, [at |-> "exit"]}
    \cup [at : {"dup"}, old : Fds, new : Fds]
    \cup [at : {"write"}, n : Fds, offset : Pages]
Calls ==
  Returns
    \cup [at : {"map"}, n : Fds, i : Sizes, end : Sizes, then : Returns]
    \cup [at : {"set_size"}, n : Fds, old : Sizes, size : Sizes, then : Returns]
    \cup [at : {"close"}, n : Fds, size : Sizes, then : Returns]

Typed ==
  /\ opentab \in [Entries -> AnEntry]
  /\ f_size \in [Files -> Sizes]
  /\ fd \in [Envs -> [Fds -> Entries \cup {None}]]
  /\ data \in [Envs -> [Fds -> [Pages -> {None, "file", "zero"}]]]
  /\ opened \in [Envs -> [Fds -> Files \cup {None}]]
  /\ call \in [Envs -> Calls]

(* What a descriptor maps is an open file that the server maps too.        *)
Held ==
  \A c \in Envs, n \in Fds : fd[c][n] # None =>
    /\ opened[c][n] \in Files
    /\ opentab[fd[c][n]].file = opened[c][n]
    /\ opentab[fd[c][n]].mapped

FilesInv == Typed /\ Held

-----------------------------------------------------------------------------
(* The smallest of some numbers is one of them.                            *)
Less == {ss \in Nat \X Nat : ss[1] < ss[2]}

LEMMA LessWellFounded == IsWellFoundedOn(Less, Nat)
<1>1. OpToRel(<, Nat) = Less
  BY Zenon DEF OpToRel, Less
<1> QED BY <1>1, NatLessThanWellFounded, Zenon

LEMMA MinOfNats ==
  ASSUME NEW S \in SUBSET Nat, S # {}
  PROVE  Min(S) \in S
<1>1. PICK x \in S : \A y \in S : ~(<<y, x>> \in Less)
  BY LessWellFounded, WFMin
<1>2. ASSUME NEW y \in S PROVE x <= y
  <2>1. x \in Nat /\ y \in Nat /\ ~(<<y, x>> \in Less)
    BY <1>1
  <2>2. <<y, x>> \in Nat \X Nat => ~(y < x)
    BY <2>1 DEF Less
  <2> QED BY <2>1, <2>2
<1> QED BY <1>2 DEF Min

LEMMA Finite == \A e : IsFiniteSet(Holders(e))
<1>1. IsFiniteSet(Fds)
  BY FS_Interval, OpenFilesAssumption DEF Fds
<1>2. IsFiniteSet(Envs \X Fds)
  BY <1>1, FS_Product, OpenFilesAssumption
<1>3. \A e : Holders(e) \subseteq Envs \X Fds
  BY DEF Holders
<1> QED BY <1>2, <1>3, FS_Subset

(* An entry that serve_open may take is mapped by nobody.                  *)
LEMMA FreeIsUnheld ==
  ASSUME FilesInv, NEW e \in Free
  PROVE  e \in Entries /\ \A c \in Envs, n \in Fds : fd[c][n] # e
<1>1. e \in Entries /\ pageref(e) \in {0, 1}
  BY DEF Free
<1> DEFINE k == Cardinality(Holders(e))
<1>2. k \in Nat /\ (k = 0 <=> Holders(e) = {})
  BY Finite, FS_CardinalityType, FS_EmptySet
<1>3. SUFFICES ASSUME NEW c \in Envs, NEW n \in Fds, fd[c][n] = e PROVE FALSE
  BY <1>1
<1>4. <<c, n>> \in Holders(e)
  BY <1>3 DEF Holders
<1>5. opentab[e].mapped
  <2>1. e # None
    BY <1>1, OpenFilesAssumption DEF Entries
  <2> QED BY <1>3, <2>1 DEF FilesInv, Held
<1>6. pageref(e) = k + 1
  BY <1>5 DEF pageref
<1> HIDE DEF k
<1> QED BY <1>1, <1>2, <1>4, <1>6

-----------------------------------------------------------------------------
(* Steps preserve FilesInv.                                                *)

LEMMA CallTypes ==
  /\ Idle \in Returns /\ Gone \in Returns /\ [at |-> "exit"] \in Returns
  /\ Returns \subseteq Calls
  /\ \A n, o \in Fds : [at |-> "dup", old |-> o, new |-> n] \in Returns
  /\ \A n \in Fds, b \in Pages : [at |-> "write", n |-> n, offset |-> b] \in Returns
  /\ \A n \in Fds, i, s \in Sizes, x \in Returns :
       /\ [at |-> "map", n |-> n, i |-> i, end |-> s, then |-> x] \in Calls
       /\ [at |-> "set_size", n |-> n, old |-> i, size |-> s, then |-> x] \in Calls
       /\ [at |-> "close", n |-> n, size |-> s, then |-> x] \in Calls
BY DEF Returns, Calls

LEMMA CallFields ==
  ASSUME NEW x \in Calls
  PROVE  /\ x.at = "map" => x.n \in Fds /\ x.i \in Sizes /\ x.end \in Sizes /\ x.then \in Returns
         /\ x.at = "set_size" => x.n \in Fds /\ x.old \in Sizes /\ x.size \in Sizes /\ x.then \in Returns
         /\ x.at = "close" => x.n \in Fds /\ x.size \in Sizes /\ x.then \in Returns
         /\ x.at = "dup" => x.old \in Fds /\ x.new \in Fds
         /\ x.at = "write" => x.n \in Fds /\ x.offset \in Pages
BY DEF Returns, Calls, Idle, Unborn, Gone

(* A step that changes neither descriptors nor what opentab has on files.  *)
LEMMA QuietStep ==
  ASSUME FilesInv, Typed', fd' = fd, opened' = opened,
         \A e \in Entries : opentab'[e].file = opentab[e].file /\ opentab'[e].mapped = opentab[e].mapped
  PROVE  FilesInv'
<1>1. ASSUME NEW c \in Envs, NEW n \in Fds, fd[c][n] # None PROVE fd[c][n] \in Entries
  BY <1>1 DEF FilesInv, Typed
<1> QED BY <1>1 DEF FilesInv, Held

LEMMA Numbers ==
  /\ 0 \in Sizes /\ Pages \subseteq Nat /\ Sizes \subseteq Nat
  /\ \A b \in Pages : b \in Sizes /\ b + 1 \in Sizes
  /\ \A i, s \in Sizes : i < s => i \in Pages
  /\ \A c : FreeFds(c) \subseteq Fds /\ FreeFds(c) \subseteq Nat
  /\ Fds \subseteq Nat
BY OpenFilesAssumption DEF Sizes, Pages, FreeFds, Fds

LEMMA OpenStep ==
  ASSUME FilesInv, NEW c \in Envs, NEW file \in Files, NEW mode \in Modes, open(c, file, mode)
  PROVE  FilesInv'
<1> DEFINE n == Min(FreeFds(c))
           s == IF mode = "O_TRUNC" THEN 0 ELSE f_size[file]
           w == [file |-> file, mode |-> mode, mapped |-> TRUE, size |-> s]
<1>1. n \in FreeFds(c) /\ n \in Fds /\ fd[c][n] = None
  <2>1. n \in FreeFds(c)
    BY MinOfNats, Numbers DEF open
  <2> QED BY <2>1, Numbers DEF FreeFds
<1>2. PICK e \in Free : /\ serve_open(e, file, mode)
                        /\ fd' = [fd EXCEPT ![c][n] = e]
                        /\ opened' = [opened EXCEPT ![c][n] = file]
                        /\ Goto(c, [at |-> "map", n |-> n, i |-> 0, end |-> opentab'[e].size, then |-> Idle])
  BY DEF open
<1>3. e \in Entries /\ \A d \in Envs, m \in Fds : fd[d][m] # e
  BY FreeIsUnheld
<1>4. Typed /\ Held
  BY DEF FilesInv
<1>5. s \in Sizes /\ w \in AnEntry
  <2>1. s \in Sizes
    BY <1>4, Numbers DEF Typed
  <2> QED BY <2>1 DEF AnEntry
<1>6. opentab' = [opentab EXCEPT ![e] = w] /\ f_size' = [f_size EXCEPT ![file] = s]
  BY <1>2 DEF serve_open
<1> HIDE DEF n, s, w
<1>7. opentab' \in [Entries -> AnEntry] /\ f_size' \in [Files -> Sizes]
  BY <1>4, <1>5, <1>6 DEF Typed
<1>8. opentab'[e] = w /\ \A k \in Entries : k # e => opentab'[k] = opentab[k]
  BY <1>3, <1>4, <1>6 DEF Typed
<1>9. /\ fd' \in [Envs -> [Fds -> Entries \cup {None}]]
      /\ opened' \in [Envs -> [Fds -> Files \cup {None}]]
      /\ fd'[c][n] = e /\ opened'[c][n] = file
      /\ \A d \in Envs, m \in Fds : d # c \/ m # n => fd'[d][m] = fd[d][m] /\ opened'[d][m] = opened[d][m]
  BY <1>1, <1>2, <1>3, <1>4 DEF Typed
<1>10. call' \in [Envs -> Calls]
  <2>1. opentab'[e].size \in Sizes
    BY <1>3, <1>7 DEF AnEntry
  <2>2. [at |-> "map", n |-> n, i |-> 0, end |-> opentab'[e].size, then |-> Idle] \in Calls
    BY <1>1, <2>1, CallTypes, Numbers
  <2> QED BY <1>2, <1>4, <2>2 DEF Goto, Typed
<1>11. data' = data
  BY DEF open
<1>12. Typed'
  BY <1>4, <1>7, <1>9, <1>10, <1>11 DEF Typed
<1>13. w.file = file /\ w.mapped
  BY DEF w
<1>14. ASSUME NEW d \in Envs, NEW m \in Fds, fd'[d][m] # None
       PROVE  /\ opened'[d][m] \in Files
              /\ opentab'[fd'[d][m]].file = opened'[d][m]
              /\ opentab'[fd'[d][m]].mapped
  <2>1. CASE d = c /\ m = n
    BY <1>8, <1>9, <1>13, <2>1
  <2>2. CASE d # c \/ m # n
    <3>1. fd'[d][m] = fd[d][m] /\ opened'[d][m] = opened[d][m] /\ fd[d][m] # e
      BY <1>3, <1>9, <2>2
    <3>2. fd[d][m] \in Entries
      BY <1>4, <1>14, <3>1 DEF Typed
    <3>3. opentab'[fd[d][m]] = opentab[fd[d][m]]
      BY <1>8, <3>1, <3>2
    <3> QED BY <1>4, <1>14, <3>1, <3>3 DEF Held
  <2> QED BY <2>1, <2>2
<1> QED BY <1>12, <1>14 DEF FilesInv, Held

LEMMA MapStep ==
  ASSUME FilesInv, NEW c \in Envs, fsipc_map(c)
  PROVE  FilesInv'
<1> DEFINE x == call[c]
<1>1. Typed
  BY DEF FilesInv
<1>2. x \in Calls /\ x.at = "map"
  BY <1>1 DEF Typed, fsipc_map, At
<1>3. x.n \in Fds /\ x.i \in Sizes /\ x.end \in Sizes /\ x.then \in Returns
  BY <1>2, CallFields
<1>4. opentab' = opentab /\ f_size' = f_size /\ fd' = fd /\ opened' = opened
  BY DEF fsipc_map
<1>5. CASE x.i < x.end
  <2>1. serve_map(c, x.n, x.i) /\ Goto(c, [x EXCEPT !.i = @ + 1])
    BY <1>5 DEF fsipc_map
  <2>2. data' \in [Envs -> [Fds -> [Pages -> {None, "file", "zero"}]]]
    BY <1>1, <1>3, <2>1 DEF Typed, serve_map
  <2>3. x = [at |-> "map", n |-> x.n, i |-> x.i, end |-> x.end, then |-> x.then]
    BY <1>2 DEF Calls, Returns, Idle, Unborn, Gone
  <2>4. [x EXCEPT !.i = @ + 1] = [at |-> "map", n |-> x.n, i |-> x.i + 1, end |-> x.end, then |-> x.then]
    BY <2>3
  <2>5. x.i + 1 \in Sizes
    BY <1>3, <1>5, Numbers
  <2>6. [x EXCEPT !.i = @ + 1] \in Calls
    <3> DEFINE i == x.i + 1
    <3>1. i \in Sizes
      BY <2>5
    <3> HIDE DEF i
    <3>2. [at |-> "map", n |-> x.n, i |-> i, end |-> x.end, then |-> x.then] \in Calls
      BY <1>3, <3>1, CallTypes
    <3> QED BY <2>4, <3>2 DEF i
  <2>7. call' \in [Envs -> Calls]
    BY <1>1, <2>1, <2>6 DEF Goto, Typed
  <2>8. Typed'
    BY <1>1, <1>4, <2>2, <2>7 DEF Typed
  <2> QED BY <1>4, <2>8, QuietStep
<1>6. CASE ~(x.i < x.end)
  <2>1. Goto(c, x.then) /\ data' = data
    BY <1>6 DEF fsipc_map
  <2>2. call' \in [Envs -> Calls]
    BY <1>1, <1>3, <2>1, CallTypes DEF Goto, Typed
  <2>3. Typed'
    BY <1>1, <1>4, <2>1, <2>2 DEF Typed
  <2> QED BY <1>4, <2>3, QuietStep
<1> QED BY <1>5, <1>6

LEMMA TruncateStep ==
  ASSUME FilesInv, NEW c \in Envs, NEW n \in Fds, fd[c][n] # None, NEW size \in Sizes,
         NEW x \in Returns, Truncate(c, n, size, x), UNCHANGED <<f_size, fd, data, opened>>
  PROVE  FilesInv'
<1> DEFINE e == fd[c][n]
           w == [opentab[e] EXCEPT !.size = size]
<1>1. Typed
  BY DEF FilesInv
<1>2. e \in Entries /\ opentab[e] \in AnEntry
  BY <1>1 DEF Typed
<1>3. w \in AnEntry /\ w.file = opentab[e].file /\ w.mapped = opentab[e].mapped
  BY <1>2 DEF AnEntry
<1>4. opentab' = [opentab EXCEPT ![e] = w]
  BY DEF Truncate
<1>5. opentab[e].size \in Sizes
  BY <1>2 DEF AnEntry
<1> HIDE DEF e, w
<1>6. opentab' \in [Entries -> AnEntry]
  BY <1>1, <1>3, <1>4 DEF Typed
<1>7. \A k \in Entries : opentab'[k].file = opentab[k].file /\ opentab'[k].mapped = opentab[k].mapped
  BY <1>1, <1>3, <1>4 DEF Typed
<1>8. call' \in [Envs -> Calls]
  <2>1. [at |-> "set_size", n |-> n, old |-> opentab[e].size, size |-> size, then |-> x] \in Calls
    BY <1>5, CallTypes
  <2> QED BY <1>1, <2>1 DEF Truncate, Goto, Typed, e
<1>9. Typed'
  BY <1>1, <1>6, <1>8 DEF Typed
<1> QED BY <1>7, <1>9, QuietStep

LEMMA SetSizeStep ==
  ASSUME FilesInv, NEW c \in Envs, fsipc_set_size(c)
  PROVE  FilesInv'
<1> DEFINE x == call[c]
<1>1. Typed
  BY DEF FilesInv
<1>2. x \in Calls /\ x.at = "set_size"
  BY <1>1 DEF Typed, fsipc_set_size, At
<1>3. x.n \in Fds /\ x.old \in Sizes /\ x.size \in Sizes /\ x.then \in Returns
  BY <1>2, CallFields
<1>4. opentab' = opentab /\ fd' = fd /\ opened' = opened
  BY DEF fsipc_set_size
<1>5. f_size' \in [Files -> Sizes]
  BY <1>1, <1>3 DEF fsipc_set_size, serve_set_size, Typed
<1>6. CASE x.size >= x.old
  <2>1. /\ Goto(c, [at |-> "map", n |-> x.n, i |-> x.old, end |-> x.size, then |-> x.then])
        /\ data' = data
    BY <1>6 DEF fsipc_set_size
  <2>2. [at |-> "map", n |-> x.n, i |-> x.old, end |-> x.size, then |-> x.then] \in Calls
    BY <1>3, CallTypes
  <2>3. call' \in [Envs -> Calls]
    BY <1>1, <2>1, <2>2 DEF Goto, Typed
  <2>4. Typed'
    BY <1>1, <1>4, <1>5, <2>1, <2>3 DEF Typed
  <2> QED BY <1>4, <2>4, QuietStep
<1>7. CASE ~(x.size >= x.old)
  <2>1. /\ data' = [data EXCEPT ![c][x.n] =
                     [b \in Pages |-> IF b \in x.size..(x.old - 1) THEN None ELSE @[b]]]
        /\ Goto(c, x.then)
    BY <1>7 DEF fsipc_set_size
  <2>2. data' \in [Envs -> [Fds -> [Pages -> {None, "file", "zero"}]]]
    BY <1>1, <1>3, <2>1 DEF Typed
  <2>3. call' \in [Envs -> Calls]
    BY <1>1, <1>3, <2>1, CallTypes DEF Goto, Typed
  <2>4. Typed'
    BY <1>1, <1>4, <1>5, <2>2, <2>3 DEF Typed
  <2> QED BY <1>4, <2>4, QuietStep
<1> QED BY <1>6, <1>7

LEMMA GotoTypes ==
  ASSUME Typed, NEW c \in Envs, NEW x \in Calls, Goto(c, x)
  PROVE  call' \in [Envs -> Calls]
BY DEF Goto, Typed

LEMMA TouchedTypes ==
  ASSUME Typed, NEW c \in Envs, NEW n \in Fds, NEW b \in Pages, Touched(c, n, b)
  PROVE  data' \in [Envs -> [Fds -> [Pages -> {None, "file", "zero"}]]]
BY DEF Touched, Typed

LEMMA ReadStep ==
  ASSUME FilesInv, NEW c \in Envs, NEW n \in Fds, NEW b \in Pages, read(c, n, b)
  PROVE  FilesInv'
<1>1. Typed
  BY DEF FilesInv
<1>2. Touched(c, n, b) /\ UNCHANGED <<opentab, f_size, fd, call, opened>>
  BY DEF read
<1>3. Typed'
  BY <1>1, <1>2, TouchedTypes DEF Typed
<1> QED BY <1>2, <1>3, QuietStep

LEMMA WriteStep ==
  ASSUME FilesInv, NEW c \in Envs, NEW n \in Fds, NEW b \in Pages, write(c, n, b)
  PROVE  FilesInv'
<1> DEFINE x == [at |-> "write", n |-> n, offset |-> b]
<1>1. Typed
  BY DEF FilesInv
<1>2. x \in Returns /\ b + 1 \in Sizes /\ fd[c][n] # None
  BY CallTypes, Numbers DEF write, Writable
<1>3. UNCHANGED <<f_size, fd, data, opened>>
  BY DEF write
<1>4. Truncate(c, n, b + 1, x) \/ (Goto(c, x) /\ opentab' = opentab)
  BY DEF write
<1> HIDE DEF x
<1>5. CASE Truncate(c, n, b + 1, x)
  BY <1>2, <1>3, <1>5, TruncateStep
<1>6. CASE Goto(c, x) /\ opentab' = opentab
  <2>1. call' \in [Envs -> Calls]
    BY <1>1, <1>2, <1>6, CallTypes, GotoTypes
  <2>2. Typed'
    BY <1>1, <1>3, <1>6, <2>1 DEF Typed
  <2> QED BY <1>3, <1>6, <2>2, QuietStep
<1> QED BY <1>4, <1>5, <1>6

LEMMA WriteDataStep ==
  ASSUME FilesInv, NEW c \in Envs, write_data(c)
  PROVE  FilesInv'
<1>1. Typed
  BY DEF FilesInv
<1>2. call[c] \in Calls /\ call[c].at = "write"
  BY <1>1 DEF Typed, write_data, At
<1>3. call[c].n \in Fds /\ call[c].offset \in Pages
  BY <1>2, CallFields
<1>4. /\ Touched(c, call[c].n, call[c].offset) /\ Goto(c, Idle)
      /\ UNCHANGED <<opentab, f_size, fd, opened>>
  BY DEF write_data
<1>5. call' \in [Envs -> Calls]
  BY <1>1, <1>4, CallTypes, GotoTypes
<1>6. Typed'
  BY <1>1, <1>3, <1>4, <1>5, TouchedTypes DEF Typed
<1> QED BY <1>4, <1>6, QuietStep

(* A step to another point of the calls. *)
LEMMA GotoStep ==
  ASSUME FilesInv, NEW c \in Envs, NEW x \in Calls, Goto(c, x),
         UNCHANGED <<opentab, f_size, fd, data, opened>>
  PROVE  FilesInv'
<1>1. Typed /\ call' \in [Envs -> Calls]
  BY GotoTypes DEF FilesInv
<1>2. Typed'
  BY <1>1 DEF Typed
<1> QED BY <1>2, QuietStep

LEMMA CloseType ==
  ASSUME FilesInv, NEW c \in Envs, NEW n \in Fds, fd[c][n] # None, NEW x \in Returns
  PROVE  [at |-> "close", n |-> n, size |-> opentab[fd[c][n]].size, then |-> x] \in Calls
<1>1. fd[c][n] \in Entries /\ opentab \in [Entries -> AnEntry]
  BY DEF FilesInv, Typed
<1>2. opentab[fd[c][n]].size \in Sizes
  BY <1>1 DEF AnEntry
<1> QED BY <1>2, CallTypes

LEMMA CloseStep ==
  ASSUME FilesInv, NEW c \in Envs, NEW n \in Fds, close(c, n)
  PROVE  FilesInv'
BY CallTypes, CloseType, GotoStep DEF close, Close

LEMMA DupStep ==
  ASSUME FilesInv, NEW c \in Envs, NEW old \in Fds, NEW new \in Fds, dup(c, old, new)
  PROVE  FilesInv'
<1> DEFINE x == [at |-> "dup", old |-> old, new |-> new]
<1>1. x \in Returns /\ x \in Calls
  BY CallTypes
<1>2. UNCHANGED <<opentab, f_size, fd, data, opened>>
  BY DEF dup
<1>3. (fd[c][new] # None /\ Close(c, new, x)) \/ Goto(c, x)
  BY DEF dup
<1> HIDE DEF x
<1> QED BY <1>1, <1>2, <1>3, CloseType, GotoStep DEF Close

LEMMA CloseAllStep ==
  ASSUME FilesInv, NEW c \in Envs, exit(c) \/ close_all(c)
  PROVE  FilesInv'
<1>1. UNCHANGED <<opentab, f_size, fd, data, opened>>
  BY DEF exit, close_all
<1>2. CASE exit(c)
  BY <1>1, <1>2, CallTypes, GotoStep DEF exit
<1>3. CASE close_all(c)
  <2> DEFINE open_fds == {n \in Fds : fd[c][n] # None}
             x == call[c]
  <2>1. x \in Returns
    <3>1. x \in Calls /\ x.at = "exit"
      BY <1>3 DEF FilesInv, Typed, close_all, At
    <3> QED BY <3>1 DEF Calls
  <2>2. CASE open_fds # {}
    <3> DEFINE n == Min(open_fds)
    <3>1. n \in open_fds
      BY <2>2, MinOfNats, Numbers
    <3>2. Close(c, n, x)
      BY <1>3, <2>2 DEF close_all
    <3> HIDE DEF n, x
    <3> QED BY <1>1, <2>1, <3>1, <3>2, CloseType, GotoStep DEF Close
  <2>3. CASE open_fds = {}
    BY <1>1, <1>3, <2>3, CallTypes, GotoStep DEF close_all
  <2> QED BY <2>2, <2>3
<1> QED BY <1>2, <1>3

(* close's last step: no other descriptor changes. *)
LEMMA FdCloseStep ==
  ASSUME FilesInv, NEW c \in Envs, fd_close(c)
  PROVE  FilesInv'
<1> DEFINE x == call[c]
           n == x.n
<1>1. Typed /\ Held
  BY DEF FilesInv
<1>2. x \in Calls /\ x.at = "close"
  BY <1>1 DEF Typed, fd_close, At
<1>3. n \in Fds /\ x.size \in Sizes /\ x.then \in Returns
  BY <1>2, CallFields
<1>4. /\ data' = Unmapped(c, n, x.size)
      /\ fd' = [fd EXCEPT ![c][n] = None]
      /\ opened' = [opened EXCEPT ![c][n] = None]
      /\ Goto(c, x.then) /\ opentab' = opentab /\ f_size' = f_size
  BY DEF fd_close
<1>5. call' \in [Envs -> Calls]
  BY <1>1, <1>3, <1>4, CallTypes, GotoTypes
<1> HIDE DEF n, x
<1>6. data' \in [Envs -> [Fds -> [Pages -> {None, "file", "zero"}]]]
  BY <1>1, <1>3, <1>4 DEF Typed, Unmapped
<1>7. /\ fd' \in [Envs -> [Fds -> Entries \cup {None}]]
      /\ opened' \in [Envs -> [Fds -> Files \cup {None}]]
      /\ fd'[c][n] = None
      /\ \A d \in Envs, m \in Fds : d # c \/ m # n => fd'[d][m] = fd[d][m] /\ opened'[d][m] = opened[d][m]
  BY <1>1, <1>3, <1>4 DEF Typed
<1>8. Typed'
  BY <1>1, <1>4, <1>5, <1>6, <1>7 DEF Typed
<1>9. Held'
  BY <1>1, <1>4, <1>7 DEF Held
<1> QED BY <1>8, <1>9 DEF FilesInv

LEMMA DupMapStep ==
  ASSUME FilesInv, NEW c \in Envs, dup_map(c)
  PROVE  FilesInv'
<1> DEFINE o == call[c].old
           n == call[c].new
<1>1. Typed /\ Held
  BY DEF FilesInv
<1>2. call[c] \in Calls /\ call[c].at = "dup"
  BY <1>1 DEF Typed, dup_map, At
<1>3. o \in Fds /\ n \in Fds
  BY <1>2, CallFields
<1>4. /\ data' = [data EXCEPT ![c][n] =
                   [b \in Pages |-> IF data[c][o][b] # None THEN data[c][o][b] ELSE @[b]]]
      /\ fd' = [fd EXCEPT ![c][n] = fd[c][o]]
      /\ opened' = [opened EXCEPT ![c][n] = opened[c][o]]
      /\ Goto(c, Idle) /\ opentab' = opentab /\ f_size' = f_size
  BY DEF dup_map
<1>5. call' \in [Envs -> Calls]
  BY <1>1, <1>4, CallTypes, GotoTypes
<1> HIDE DEF o, n
<1>6. data' \in [Envs -> [Fds -> [Pages -> {None, "file", "zero"}]]]
  BY <1>1, <1>3, <1>4 DEF Typed
<1>7. /\ fd' \in [Envs -> [Fds -> Entries \cup {None}]]
      /\ opened' \in [Envs -> [Fds -> Files \cup {None}]]
      /\ fd'[c][n] = fd[c][o] /\ opened'[c][n] = opened[c][o]
      /\ \A d \in Envs, m \in Fds : d # c \/ m # n => fd'[d][m] = fd[d][m] /\ opened'[d][m] = opened[d][m]
  BY <1>1, <1>3, <1>4 DEF Typed
<1>8. Typed'
  BY <1>1, <1>4, <1>5, <1>6, <1>7 DEF Typed
<1>9. Held'
  BY <1>1, <1>3, <1>4, <1>7 DEF Held
<1> QED BY <1>8, <1>9 DEF FilesInv

LEMMA ForkStep ==
  ASSUME FilesInv, NEW c \in Envs, NEW child \in Envs, fork(c, child)
  PROVE  FilesInv'
<1>1. Typed /\ Held
  BY DEF FilesInv
<1>2. /\ fd' = [fd EXCEPT ![child] = fd[c]] /\ opened' = [opened EXCEPT ![child] = opened[c]]
      /\ data' = [data EXCEPT ![child] = data[c]] /\ Goto(child, Idle)
      /\ opentab' = opentab /\ f_size' = f_size
  BY DEF fork
<1>3. call' \in [Envs -> Calls]
  BY <1>1, <1>2, CallTypes, GotoTypes
<1>4. Typed'
  BY <1>1, <1>2, <1>3 DEF Typed
<1>5. Held'
  BY <1>1, <1>2 DEF Held, Typed
<1> QED BY <1>4, <1>5 DEF FilesInv

-----------------------------------------------------------------------------
LEMMA InitFiles == Init => FilesInv
<1> SUFFICES ASSUME Init PROVE FilesInv
  OBVIOUS
<1>1. 0 \in Sizes /\ 1 \in Sizes
  BY OpenFilesAssumption DEF Sizes
<1>2. opentab \in [Entries -> AnEntry]
  BY <1>1 DEF Init, AnEntry
<1>3. f_size \in [Files -> Sizes]
  BY <1>1 DEF Init
<1>4. data \in [Envs -> [Fds -> [Pages -> {None, "file", "zero"}]]]
  BY DEF Init, NoPages
<1>5. call \in [Envs -> Calls]
  <2>1. Idle \in Calls /\ Unborn \in Calls
    BY DEF Calls, Returns
  <2> QED BY <2>1 DEF Init
<1>6. fd \in [Envs -> [Fds -> Entries \cup {None}]] /\ opened \in [Envs -> [Fds -> Files \cup {None}]]
  BY DEF Init
<1>7. \A c \in Envs, n \in Fds : fd[c][n] = None
  BY DEF Init
<1> QED BY <1>2, <1>3, <1>4, <1>5, <1>6, <1>7 DEF FilesInv, Typed, Held

LEMMA NextFiles == FilesInv /\ [Next]_vars => FilesInv'
<1> SUFFICES ASSUME FilesInv, [Next]_vars PROVE FilesInv'
  OBVIOUS
<1>1. ASSUME NEW c \in Envs, Step(c) PROVE FilesInv'
  <2>1. CASE \E file \in Files, mode \in Modes : open(c, file, mode)
    BY <2>1, OpenStep
  <2>2. ASSUME NEW n \in Fds, close(c, n) PROVE FilesInv'
    BY <2>2, CloseStep
  <2>3. ASSUME NEW n \in Fds, NEW size \in 0..MaxSize, ftruncate(c, n, size) PROVE FilesInv'
    <3>1. /\ fd[c][n] # None /\ Truncate(c, n, size, Idle)
          /\ UNCHANGED <<f_size, fd, data, opened>> /\ size \in Sizes
      BY <2>3 DEF ftruncate, Writable, Sizes
    <3> QED BY <3>1, CallTypes, TruncateStep
  <2>4. ASSUME NEW n \in Fds, NEW b \in Pages, read(c, n, b) \/ write(c, n, b) PROVE FilesInv'
    BY <2>4, ReadStep, WriteStep
  <2>5. ASSUME NEW n \in Fds, NEW new \in Fds, dup(c, n, new) PROVE FilesInv'
    BY <2>5, DupStep
  <2>6. CASE fsipc_map(c) \/ fsipc_set_size(c) \/ write_data(c) \/ fd_close(c) \/ dup_map(c)
    BY <2>6, MapStep, SetSizeStep, WriteDataStep, FdCloseStep, DupMapStep
  <2>7. CASE exit(c) \/ close_all(c)
    BY <2>7, CloseAllStep
  <2>8. CASE \E child \in Envs : fork(c, child)
    BY <2>8, ForkStep
  <2> QED BY <1>1, <2>1, <2>2, <2>3, <2>4, <2>5, <2>6, <2>7, <2>8 DEF Step
<1>2. CASE UNCHANGED vars
  BY <1>2 DEF vars, FilesInv, Typed, Held
<1> QED BY <1>1, <1>2 DEF Next

LEMMA FilesAlways == Spec => []FilesInv
BY InitFiles, NextFiles, PTL DEF Spec

LEMMA HeldOwn == FilesInv => OwnFile
<1> SUFFICES ASSUME FilesInv, NEW c \in Envs, NEW n \in Fds, fd[c][n] # None
             PROVE  opentab[fd[c][n]].file = opened[c][n] /\ open_lookup(fd[c][n])
  BY DEF OwnFile
<1> DEFINE e == fd[c][n]
           k == Cardinality(Holders(e))
<1>1. opentab[e].file = opened[c][n] /\ opentab[e].mapped
  BY DEF FilesInv, Held
<1>2. <<c, n>> \in Holders(e)
  BY DEF Holders
<1>3. k \in Nat /\ k # 0
  BY <1>2, Finite, FS_CardinalityType, FS_EmptySet
<1>4. pageref(e) = k + 1
  BY <1>1 DEF pageref
<1> HIDE DEF e, k
<1>5. pageref(e) > 1
  BY <1>3, <1>4
<1> QED BY <1>1, <1>5 DEF open_lookup, e

(* The server's table and the programs' descriptors keep their types: an   *)
(* entry that a descriptor maps has a file (opentab, fd.c).                *)
THEOREM OpenFilesTypeCorrect == Spec => []TypeOK
<1>1. FilesInv => TypeOK
  <2> SUFFICES ASSUME FilesInv PROVE TypeOK
    OBVIOUS
  <2>1. ASSUME NEW e \in Entries, opentab[e].file = None PROVE Holders(e) = {}
    <3>1. e # None
      BY OpenFilesAssumption DEF Entries
    <3>2. ASSUME NEW c \in Envs, NEW n \in Fds, fd[c][n] = e PROVE FALSE
      <4>1. opentab[e].file \in Files
        BY <3>1, <3>2 DEF FilesInv, Held
      <4> QED BY <2>1, <4>1, OpenFilesAssumption
    <3> QED BY <3>2 DEF Holders
  <2> QED BY <2>1 DEF FilesInv, Typed, TypeOK, AnEntry, Sizes
<1> QED BY <1>1, FilesAlways, PTL

(* A descriptor stays with the file it was opened for, and the server      *)
(* finds it: the page counts of serve.c's open_alloc are enough, with any  *)
(* number of programs that open, dup, fork and close, shared or not.       *)
THEOREM DescriptorsKeepTheirFile == Spec => []OwnFile
BY HeldOwn, FilesAlways, PTL

-----------------------------------------------------------------------------
(* Sizes and pages, when the programs write as the shell's do.  A call of  *)
(* c that changes descriptor n's size or its pages.                        *)

Changing(c, n) == (At(c, "set_size") \/ At(c, "map")) /\ call[c].n = n

(* Meanwhile nobody else has the descriptor.                               *)
OneHolder ==
  \A c \in Envs, n \in Fds : Changing(c, n) =>
    /\ fd[c][n] # None
    /\ \A d \in Envs, m \in Fds : fd[d][m] = fd[c][n] => d = c /\ m = n

FileTo(c, n, end) == \A b \in Pages : b < end => data[c][n][b] = "file"

(* What ftruncate and fsipc_map have done so far.                          *)
Progress ==
  \A c \in Envs : LET x == call[c]  o == opentab[fd[c][x.n]] IN
    /\ At(c, "set_size") => o.mode # "O_RDONLY" /\ o.size = x.size /\ FileTo(c, x.n, x.old)
    /\ At(c, "map") => o.size = x.end /\ FileTo(c, x.n, x.i)

(* A file that is open twice is only read.                                 *)
Readers ==
  \A c, d \in Envs, n, m \in Fds :
    /\ fd[c][n] # None /\ fd[d][m] # None /\ fd[c][n] # fd[d][m]
    /\ opentab[fd[c][n]].file = opentab[fd[d][m]].file
    => opentab[fd[c][n]].mode = "O_RDONLY"

SizeKept ==
  \A c \in Envs, n \in Fds : fd[c][n] # None /\ ~Truncating(fd[c][n]) =>
    opentab[fd[c][n]].size = f_size[opentab[fd[c][n]].file]

Backed ==
  \A c \in Envs, n \in Fds : fd[c][n] # None /\ ~Changing(c, n) =>
    FileTo(c, n, opentab[fd[c][n]].size)

SharingInv == OneHolder /\ Progress /\ Readers /\ SizeKept /\ Backed

(* A step of k that changes no size: what k holds after it, somebody held  *)
(* before, with as many of the file's pages.                               *)
LEMMA HandedStep ==
  ASSUME FilesInv, SharingInv, NEW k \in Envs,
         opentab' = opentab, f_size' = f_size,
         call[k].at \notin {"set_size", "map"}, call'[k].at \notin {"set_size", "map"},
         \A d \in Envs : d # k => fd'[d] = fd[d] /\ data'[d] = data[d] /\ call'[d] = call[d],
         \A m \in Fds : fd'[k][m] # None =>
           \E p \in Envs, q \in Fds :
             /\ ~Changing(p, q) /\ fd[p][q] = fd'[k][m]
             /\ \A b \in Pages : data[p][q][b] = "file" => data'[k][m][b] = "file"
  PROVE  SharingInv'
<1>1. ASSUME NEW d \in Envs, NEW m \in Fds, Changing(d, m)'
      PROVE  d # k /\ Changing(d, m) /\ fd'[d][m] = fd[d][m]
  BY <1>1 DEF Changing, At
<1>2. ASSUME NEW d \in Envs, NEW m \in Fds, fd'[d][m] # None
      PROVE  \E p \in Envs, q \in Fds :
               /\ fd[p][q] = fd'[d][m]
               /\ ~Changing(d, m)' => ~Changing(p, q)
               /\ \A b \in Pages : data[p][q][b] = "file" => data'[d][m][b] = "file"
  <2>1. CASE d = k
    BY <1>2, <2>1
  <2>2. CASE d # k
    <3>1. fd'[d] = fd[d] /\ data'[d] = data[d] /\ call'[d] = call[d]
      BY <2>2
    <3>2. ~Changing(d, m)' => ~Changing(d, m)
      BY <3>1 DEF Changing, At
    <3> QED BY <3>1, <3>2
  <2> QED BY <2>1, <2>2
<1>3. OneHolder'
  <2> SUFFICES ASSUME NEW c \in Envs, NEW n \in Fds, Changing(c, n)'
               PROVE  /\ fd'[c][n] # None
                      /\ \A d \in Envs, m \in Fds : fd'[d][m] = fd'[c][n] => d = c /\ m = n
    BY Zenon DEF OneHolder
  <2>1. c # k /\ Changing(c, n) /\ fd'[c][n] = fd[c][n]
    BY <1>1
  <2>2. fd[c][n] # None /\ \A d \in Envs, m \in Fds : fd[d][m] = fd[c][n] => d = c /\ m = n
    BY <2>1 DEF SharingInv, OneHolder
  <2>3. ASSUME NEW d \in Envs, NEW m \in Fds, fd'[d][m] = fd'[c][n] PROVE d = c /\ m = n
    <3>1. CASE d = k
      <4>1. PICK p \in Envs, q \in Fds : ~Changing(p, q) /\ fd[p][q] = fd[c][n]
        BY <2>1, <2>2, <2>3, <3>1
      <4>2. p = c /\ q = n
        BY <2>2, <4>1
      <4> QED BY <2>1, <4>1, <4>2
    <3>2. CASE d # k
      BY <2>1, <2>2, <2>3, <3>2
    <3> QED BY <3>1, <3>2
  <2> QED BY <2>1, <2>2, <2>3
<1>4. Progress'
  <2>1. ASSUME NEW c \in Envs, call'[c].at \in {"set_size", "map"}
        PROVE  call'[c] = call[c] /\ fd'[c] = fd[c] /\ data'[c] = data[c]
    BY <2>1
  <2> QED BY <2>1 DEF SharingInv, Progress, FileTo, At
<1>5. Readers'
  <2> SUFFICES ASSUME NEW c \in Envs, NEW d \in Envs, NEW n \in Fds, NEW m \in Fds,
                      fd'[c][n] # None, fd'[d][m] # None, fd'[c][n] # fd'[d][m],
                      opentab[fd'[c][n]].file = opentab[fd'[d][m]].file
               PROVE  opentab[fd'[c][n]].mode = "O_RDONLY"
    BY DEF Readers
  <2>1. PICK p1 \in Envs, q1 \in Fds : fd[p1][q1] = fd'[c][n]
    BY <1>2
  <2>2. PICK p2 \in Envs, q2 \in Fds : fd[p2][q2] = fd'[d][m]
    BY <1>2
  <2> QED BY <2>1, <2>2 DEF SharingInv, Readers
<1>6. SizeKept'
  <2> SUFFICES ASSUME NEW c \in Envs, NEW n \in Fds, fd'[c][n] # None, ~Truncating(fd[c][n])'
               PROVE  opentab[fd'[c][n]].size = f_size[opentab[fd'[c][n]].file]
    BY DEF SizeKept
  <2>1. PICK p \in Envs, q \in Fds : fd[p][q] = fd'[c][n]
    BY <1>2
  <2>2. ~Truncating(fd[p][q])
    <3> SUFFICES ASSUME NEW d \in Envs, At(d, "set_size"), fd[d][call[d].n] = fd[p][q] PROVE FALSE
      BY DEF Truncating
    <3>1. d # k
      BY DEF At
    <3>2. At(d, "set_size")' /\ fd'[d][call'[d].n] = fd'[c][n]
      BY <2>1, <3>1 DEF At
    <3> QED BY <3>2 DEF Truncating
  <2> QED BY <2>1, <2>2 DEF SharingInv, SizeKept
<1>7. Backed'
  <2> SUFFICES ASSUME NEW c \in Envs, NEW n \in Fds, fd'[c][n] # None, ~Changing(c, n)',
                      NEW b \in Pages, b < opentab[fd'[c][n]].size
               PROVE  data'[c][n][b] = "file"
    BY DEF Backed, FileTo
  <2>1. PICK p \in Envs, q \in Fds :
          /\ fd[p][q] = fd'[c][n] /\ ~Changing(p, q)
          /\ \A a \in Pages : data[p][q][a] = "file" => data'[c][n][a] = "file"
    BY <1>2
  <2>2. data[p][q][b] = "file"
    BY <2>1 DEF SharingInv, Backed, FileTo
  <2> QED BY <2>1, <2>2
<1> QED BY <1>3, <1>4, <1>5, <1>6, <1>7 DEF SharingInv

(* The first step of ftruncate, for an env that is in no such call and     *)
(* whose descriptor nobody else has.                                       *)
LEMMA TruncateKeeps ==
  ASSUME FilesInv, SharingInv, NEW c \in Envs, NEW n \in Fds, Writable(c, n),
         call[c].at \notin {"set_size", "map"}, Holders(fd[c][n]) = {<<c, n>>},
         NEW size \in Sizes, NEW x \in Returns, Truncate(c, n, size, x),
         UNCHANGED <<f_size, fd, data>>
  PROVE  SharingInv'
<1> DEFINE e == fd[c][n]
           w == [opentab[e] EXCEPT !.size = size]
           y == [at |-> "set_size", n |-> n, old |-> opentab[e].size, size |-> size, then |-> x]
<1>1. Typed
  BY DEF FilesInv
<1>2. e \in Entries /\ e # None /\ opentab[e] \in AnEntry /\ opentab[e].mode # "O_RDONLY"
  BY <1>1 DEF Typed, Writable
<1>3. w.file = opentab[e].file /\ w.mode = opentab[e].mode /\ w.size = size
  BY <1>2 DEF AnEntry
<1>4. opentab' = [opentab EXCEPT ![e] = w] /\ call' = [call EXCEPT ![c] = y]
  BY DEF Truncate, Goto
<1>5. y.at = "set_size" /\ y.n = n /\ y.old = opentab[e].size /\ y.size = size
  OBVIOUS
<1>6. ASSUME NEW d \in Envs, NEW m \in Fds, fd[d][m] = e PROVE d = c /\ m = n
  <2>1. <<d, m>> \in Holders(e)
    BY <1>6 DEF Holders
  <2> QED BY <2>1
<1> HIDE DEF w, y
<1>7. opentab'[e] = w /\ \A k \in Entries : k # e => opentab'[k] = opentab[k]
  BY <1>1, <1>2, <1>4 DEF Typed
<1>8. call'[c] = y /\ \A d \in Envs : d # c => call'[d] = call[d]
  BY <1>1, <1>4 DEF Typed
<1>9. ASSUME NEW d \in Envs, NEW m \in Fds, fd[d][m] # None
      PROVE  fd[d][m] \in Entries
  BY <1>1, <1>9 DEF Typed
<1>10. \A d \in Envs, m \in Fds : Changing(d, m)' => (d = c /\ m = n) \/ (d # c /\ Changing(d, m))
  BY <1>5, <1>8 DEF Changing, At
<1>11. OneHolder'
  BY <1>2, <1>6, <1>10 DEF SharingInv, OneHolder
<1>12. Progress'
  <2>1. FileTo(c, n, opentab[e].size)
    BY <1>2 DEF SharingInv, Backed, Changing, At
  <2>2. ASSUME NEW d \in Envs, d # c, At(d, "set_size") \/ At(d, "map")
        PROVE  fd[d][call[d].n] \in Entries /\ fd[d][call[d].n] # e
    <3>1. call[d].n \in Fds
      <4>1. call[d] \in Calls /\ (call[d].at = "set_size" \/ call[d].at = "map")
        BY <1>1, <2>2 DEF Typed, At
      <4> QED BY <4>1, CallFields
    <3>2. Changing(d, call[d].n)
      BY <2>2 DEF Changing
    <3>3. fd[d][call[d].n] # None
      BY <3>1, <3>2 DEF SharingInv, OneHolder
    <3> QED BY <1>6, <1>9, <2>2, <3>1, <3>3
  <2>3. ASSUME NEW d \in Envs, d # c, At(d, "set_size")' \/ At(d, "map")'
        PROVE  opentab'[fd[d][call[d].n]] = opentab[fd[d][call[d].n]]
    BY <1>7, <1>8, <2>2, <2>3 DEF At
  <2>4. ASSUME NEW d \in Envs
        PROVE  /\ At(d, "set_size")' => /\ opentab'[fd[d][call'[d].n]].mode # "O_RDONLY"
                                        /\ opentab'[fd[d][call'[d].n]].size = call'[d].size
                                        /\ FileTo(d, call'[d].n, call'[d].old)
               /\ At(d, "map")' => /\ opentab'[fd[d][call'[d].n]].size = call'[d].end
                                   /\ FileTo(d, call'[d].n, call'[d].i)
    <3>1. CASE d = c
      BY <1>2, <1>3, <1>5, <1>7, <1>8, <2>1, <3>1 DEF At
    <3>2. CASE d # c
      <4>1. call'[d] = call[d]
        BY <1>8, <3>2
      <4> QED BY <4>1, <2>3, <3>2 DEF SharingInv, Progress, At
    <3> QED BY <3>1, <3>2
  <2> QED BY <2>4 DEF Progress, FileTo
<1>13. \A k \in Entries : opentab'[k].file = opentab[k].file /\ opentab'[k].mode = opentab[k].mode
  BY <1>3, <1>7
<1>14. Readers'
  BY <1>9, <1>13 DEF SharingInv, Readers
<1>15. SizeKept'
  <2> SUFFICES ASSUME NEW d \in Envs, NEW m \in Fds, fd[d][m] # None, ~Truncating(fd[d][m])'
               PROVE  opentab'[fd[d][m]].size = f_size[opentab'[fd[d][m]].file]
    BY DEF SizeKept
  <2>1. Truncating(e)'
    BY <1>5, <1>8 DEF Truncating, At
  <2>2. fd[d][m] # e
    BY <2>1
  <2>3. ~Truncating(fd[d][m])
    <3> SUFFICES ASSUME NEW p \in Envs, At(p, "set_size"), fd[p][call[p].n] = fd[d][m] PROVE FALSE
      BY DEF Truncating
    <3>1. p # c /\ call'[p] = call[p]
      BY <1>8 DEF At
    <3> QED BY <3>1 DEF Truncating, At
  <2>4. opentab'[fd[d][m]] = opentab[fd[d][m]]
    BY <1>7, <1>9, <2>2
  <2> QED BY <2>3, <2>4 DEF SharingInv, SizeKept
<1>16. Backed'
  <2> SUFFICES ASSUME NEW d \in Envs, NEW m \in Fds, fd[d][m] # None, ~Changing(d, m)'
               PROVE  FileTo(d, m, opentab'[fd[d][m]].size)
    BY DEF Backed, FileTo
  <2>1. Changing(c, n)'
    BY <1>5, <1>8 DEF Changing, At
  <2>2. fd[d][m] # e
    BY <1>6, <2>1
  <2>3. opentab'[fd[d][m]] = opentab[fd[d][m]]
    BY <1>7, <1>9, <2>2
  <2>4. ~Changing(d, m)
    BY <1>8 DEF Changing, At
  <2> QED BY <2>3, <2>4 DEF SharingInv, Backed
<1> QED BY <1>11, <1>12, <1>14, <1>15, <1>16 DEF SharingInv

(* fsipc_set_size gives the file the size its only descriptor has; a       *)
(* second open entry of the file would be one for reading.                 *)
LEMMA SetSizeKeeps ==
  ASSUME FilesInv, SharingInv, NEW c \in Envs, fsipc_set_size(c)
  PROVE  SharingInv'
<1> DEFINE x == call[c]
           n == x.n
           e == fd[c][n]
           y == [at |-> "map", n |-> n, i |-> x.old, end |-> x.size, then |-> x.then]
<1>1. Typed /\ Held
  BY DEF FilesInv
<1>2. x \in Calls /\ x.at = "set_size"
  BY <1>1 DEF Typed, fsipc_set_size, At
<1>3. n \in Fds /\ x.old \in Sizes /\ x.size \in Sizes /\ x.then \in Returns
  BY <1>2, CallFields
<1>4. x.then.at \notin {"set_size", "map"}
  BY <1>3 DEF Returns, Idle, Unborn, Gone
<1>5. Changing(c, n) /\ e # None /\ \A d \in Envs, m \in Fds : fd[d][m] = e => d = c /\ m = n
  BY <1>2, <1>3 DEF SharingInv, OneHolder, Changing, At
<1>6. opentab[e].mode # "O_RDONLY" /\ opentab[e].size = x.size /\ FileTo(c, n, x.old)
  BY <1>2 DEF SharingInv, Progress, At
<1>7. opentab[e].file \in Files
  BY <1>1, <1>3, <1>5 DEF Held
<1>8. opentab' = opentab /\ fd' = fd /\ f_size' = [f_size EXCEPT ![opentab[e].file] = x.size]
  BY DEF fsipc_set_size, serve_set_size
<1>9. /\ f_size'[opentab[e].file] = x.size
      /\ \A g \in Files : g # opentab[e].file => f_size'[g] = f_size[g]
  BY <1>1, <1>7, <1>8 DEF Typed
<1>10. \/ x.size >= x.old /\ Goto(c, y) /\ data' = data
       \/ /\ x.size < x.old /\ Goto(c, x.then)
          /\ data' = [data EXCEPT ![c][n] =
                       [b \in Pages |-> IF b \in x.size..(x.old - 1) THEN None ELSE @[b]]]
  <2>1. x.size >= x.old \/ x.size < x.old
    BY <1>3, OpenFilesAssumption DEF Sizes, Pages
  <2>2. ~(x.size >= x.old /\ x.size < x.old)
    BY <1>3, OpenFilesAssumption DEF Sizes, Pages
  <2> QED BY <2>1, <2>2 DEF fsipc_set_size
<1>11. y.at = "map" /\ y.n = n /\ y.i = x.old /\ y.end = x.size
  OBVIOUS
<1> HIDE DEF x, n, e, y
<1>12. /\ call'[c] = y \/ call'[c] = x.then
       /\ \A d \in Envs : d # c => call'[d] = call[d]
  BY <1>1, <1>10 DEF Typed, Goto
<1>13. call'[c] = y => data' = data
  BY <1>1, <1>4, <1>10, <1>11 DEF Typed, Goto
<1>14. \A d \in Envs, m \in Fds : d # c \/ m # n => data'[d][m] = data[d][m]
  BY <1>1, <1>3, <1>10 DEF Typed
<1>15. call'[c] = x.then => x.size < x.old
  BY <1>1, <1>4, <1>10, <1>11 DEF Typed, Goto
<1>16. ~At(c, "set_size")'
  BY <1>4, <1>11, <1>12 DEF At
<1>17. \A d \in Envs, m \in Fds : Changing(d, m)' => Changing(d, m)
  <2> SUFFICES ASSUME NEW d \in Envs, NEW m \in Fds, Changing(d, m)' PROVE Changing(d, m)
    OBVIOUS
  <2>1. CASE d = c
    <3>1. call'[c] = y /\ m = n
      BY <1>4, <1>11, <1>12, <2>1 DEF Changing, At
    <3> QED BY <1>5, <2>1, <3>1
  <2>2. CASE d # c
    BY <1>12, <2>2 DEF Changing, At
  <2> QED BY <2>1, <2>2
<1>18. OneHolder'
  BY <1>8, <1>17 DEF SharingInv, OneHolder
<1>19. Readers'
  BY <1>8 DEF SharingInv, Readers
<1>20. Progress'
  <2> SUFFICES ASSUME NEW d \in Envs
               PROVE  /\ At(d, "set_size")' => /\ opentab[fd[d][call'[d].n]].mode # "O_RDONLY"
                                               /\ opentab[fd[d][call'[d].n]].size = call'[d].size
                                               /\ FileTo(d, call[d].n, call[d].old)'
                      /\ At(d, "map")' => /\ opentab[fd[d][call'[d].n]].size = call'[d].end
                                          /\ FileTo(d, call[d].n, call[d].i)'
    BY <1>8 DEF Progress, FileTo
  <2>1. CASE d = c
    <3>1. SUFFICES ASSUME At(c, "map")'
                   PROVE  opentab[fd[c][call'[c].n]].size = call'[c].end /\ FileTo(c, call[c].n, call[c].i)'
      BY <1>16, <2>1
    <3>2. call'[c] = y
      BY <1>4, <1>12, <3>1 DEF At
    <3>3. opentab[fd[c][n]].size = x.size
      BY <1>6 DEF e
    <3> QED BY <1>6, <1>11, <1>13, <3>2, <3>3 DEF FileTo
  <2>2. CASE d # c
    <3>1. call'[d] = call[d]
      BY <1>12, <2>2
    <3>2. data'[d] = data[d]
      BY <1>1, <1>3, <1>10, <2>2 DEF Typed
    <3> QED BY <3>1, <3>2 DEF SharingInv, Progress, At, FileTo
  <2> QED BY <2>1, <2>2
<1>21. SizeKept'
  <2> SUFFICES ASSUME NEW d \in Envs, NEW m \in Fds, fd[d][m] # None, ~Truncating(fd[d][m])'
               PROVE  opentab[fd[d][m]].size = f_size'[opentab[fd[d][m]].file]
    BY <1>8 DEF SizeKept
  <2>1. CASE fd[d][m] = e
    BY <1>6, <1>9, <2>1
  <2>2. CASE fd[d][m] # e
    <3>1. ~Truncating(fd[d][m])
      <4> SUFFICES ASSUME NEW p \in Envs, At(p, "set_size"), fd[p][call[p].n] = fd[d][m] PROVE FALSE
        BY DEF Truncating
      <4>1. p # c
        BY <2>2 DEF e, n, x
      <4>2. At(p, "set_size")' /\ fd'[p][call'[p].n] = fd'[d][m]
        BY <1>8, <1>12, <4>1 DEF At
      <4> QED BY <1>8, <4>2 DEF Truncating
    <3>2. opentab[fd[d][m]].file \in Files
      BY <1>1 DEF Held
    <3>3. opentab[fd[d][m]].file # opentab[e].file
      BY <1>3, <1>5, <1>6, <2>2 DEF SharingInv, Readers, e
    <3> QED BY <1>9, <3>1, <3>2, <3>3 DEF SharingInv, SizeKept
  <2> QED BY <2>1, <2>2
<1>22. Backed'
  <2> SUFFICES ASSUME NEW d \in Envs, NEW m \in Fds, fd[d][m] # None, ~Changing(d, m)',
                      NEW b \in Pages, b < opentab[fd[d][m]].size
               PROVE  data'[d][m][b] = "file"
    BY <1>8 DEF Backed, FileTo
  <2>1. CASE d = c /\ m = n
    <3>1. call'[c] # y
      BY <1>11, <2>1 DEF Changing, At
    <3>2. x.size < x.old /\ b < x.size
      BY <1>6, <1>12, <1>15, <2>1, <3>1 DEF e
    <3>3. b \in Int /\ x.size \in Int /\ x.old \in Int
      BY <1>3, OpenFilesAssumption DEF Sizes, Pages
    <3>4. b < x.old /\ b \notin x.size..(x.old - 1)
      BY <3>2, <3>3
    <3>5. data[c][n][b] = "file"
      BY <1>6, <3>4 DEF FileTo
    <3>6. \/ data' = data
          \/ data' = [data EXCEPT ![c][n] =
                       [a \in Pages |-> IF a \in x.size..(x.old - 1) THEN None ELSE @[a]]]
      BY <1>10
    <3> QED BY <1>1, <1>3, <2>1, <3>4, <3>5, <3>6 DEF Typed
  <2>2. CASE d # c \/ m # n
    <3>1. data'[d][m] = data[d][m]
      BY <1>14, <2>2
    <3>2. ~Changing(d, m)
      BY <1>12, <2>2 DEF Changing, At, x, n
    <3> QED BY <3>1, <3>2 DEF SharingInv, Backed, FileTo
  <2> QED BY <2>1, <2>2
<1> QED BY <1>18, <1>19, <1>20, <1>21, <1>22 DEF SharingInv

(* One turn of fsipc_map, or its end.                                      *)
LEMMA MapKeeps ==
  ASSUME FilesInv, SharingInv, NEW c \in Envs, fsipc_map(c)
  PROVE  SharingInv'
<1> DEFINE x == call[c]
           n == x.n
           e == fd[c][n]
           y == [x EXCEPT !.i = @ + 1]
<1>1. Typed
  BY DEF FilesInv
<1>2. x \in Calls /\ x.at = "map"
  BY <1>1 DEF Typed, fsipc_map, At
<1>3. n \in Fds /\ x.i \in Sizes /\ x.end \in Sizes /\ x.then \in Returns
  BY <1>2, CallFields
<1>4. x.then.at \notin {"set_size", "map"}
  BY <1>3 DEF Returns, Idle, Unborn, Gone
<1>5. y.at = "map" /\ y.n = n /\ y.i = x.i + 1 /\ y.end = x.end
  <2>1. x = [at |-> "map", n |-> x.n, i |-> x.i, end |-> x.end, then |-> x.then]
    BY <1>2 DEF Calls, Returns, Idle, Unborn, Gone
  <2> QED BY <2>1
<1>6. opentab[e].size = x.end /\ FileTo(c, n, x.i)
  BY <1>2 DEF SharingInv, Progress, At
<1>7. opentab' = opentab /\ fd' = fd /\ f_size' = f_size
  BY DEF fsipc_map
<1>8. \/ x.i < x.end /\ serve_map(c, n, x.i) /\ Goto(c, y)
      \/ ~(x.i < x.end) /\ Goto(c, x.then) /\ data' = data
  BY DEF fsipc_map
<1>9. Changing(c, n)
  BY <1>2 DEF Changing, At
<1> HIDE DEF x, n, e, y
<1>10. /\ call'[c] = y \/ call'[c] = x.then
       /\ \A d \in Envs : d # c => call'[d] = call[d]
       /\ call'[c] = x.then => ~(x.i < x.end)
  BY <1>1, <1>4, <1>5, <1>8 DEF Typed, Goto
<1>11. ~At(c, "set_size")' /\ ~At(c, "set_size")
  <2>1. x.at # "set_size" /\ call'[c].at # "set_size"
    BY <1>2, <1>4, <1>5, <1>10
  <2> QED BY <2>1 DEF At, x
<1>12. \A d \in Envs, m \in Fds, b \in Pages : data[d][m][b] = "file" => data'[d][m][b] = "file"
  <2>1. CASE serve_map(c, n, x.i)
    <3> SUFFICES ASSUME NEW d \in Envs, NEW m \in Fds, NEW b \in Pages, data[d][m][b] = "file"
                 PROVE  data'[d][m][b] = "file"
      OBVIOUS
    <3>1. data' = [data EXCEPT ![c][n][x.i] = "file"]
      BY <2>1 DEF serve_map
    <3>2. CASE d = c /\ m = n
      <4>1. data'[c][n] = [data[c][n] EXCEPT ![x.i] = "file"]
        BY <1>1, <1>3, <3>1 DEF Typed
      <4> QED BY <1>1, <3>2, <4>1 DEF Typed
    <3>3. CASE d # c \/ m # n
      BY <1>1, <1>3, <3>1, <3>3 DEF Typed
    <3> QED BY <3>2, <3>3
  <2>2. CASE data' = data
    BY <2>2
  <2> QED BY <1>8, <2>1, <2>2
<1>13. call'[c] = y => data'[c][n][x.i] = "file" /\ x.i \in Pages
  <2> SUFFICES ASSUME call'[c] = y PROVE data'[c][n][x.i] = "file" /\ x.i \in Pages
    OBVIOUS
  <2>1. x.i < x.end /\ serve_map(c, n, x.i)
    BY <1>1, <1>4, <1>5, <1>8 DEF Typed, Goto
  <2>2. x.i \in Pages
    BY <1>3, <2>1, Numbers
  <2> QED BY <1>1, <1>3, <2>1, <2>2 DEF serve_map, Typed
<1>14. \A d \in Envs, m \in Fds : Changing(d, m)' => Changing(d, m)
  <2> SUFFICES ASSUME NEW d \in Envs, NEW m \in Fds, Changing(d, m)' PROVE Changing(d, m)
    OBVIOUS
  <2>1. CASE d = c
    <3>1. call'[c] = y /\ m = n
      BY <1>4, <1>5, <1>10, <2>1 DEF Changing, At
    <3> QED BY <1>9, <2>1, <3>1
  <2>2. CASE d # c
    BY <1>10, <2>2 DEF Changing, At
  <2> QED BY <2>1, <2>2
<1>15. OneHolder'
  BY <1>7, <1>14 DEF SharingInv, OneHolder
<1>16. Readers'
  BY <1>7 DEF SharingInv, Readers
<1>17. Progress'
  <2> SUFFICES ASSUME NEW d \in Envs
               PROVE  /\ At(d, "set_size")' => /\ opentab[fd[d][call'[d].n]].mode # "O_RDONLY"
                                               /\ opentab[fd[d][call'[d].n]].size = call'[d].size
                                               /\ FileTo(d, call[d].n, call[d].old)'
                      /\ At(d, "map")' => /\ opentab[fd[d][call'[d].n]].size = call'[d].end
                                          /\ FileTo(d, call[d].n, call[d].i)'
    BY <1>7 DEF Progress, FileTo
  <2>1. CASE d = c
    <3>1. SUFFICES ASSUME At(c, "map")'
                   PROVE  opentab[fd[c][call'[c].n]].size = call'[c].end /\ FileTo(c, call[c].n, call[c].i)'
      BY <1>11, <2>1
    <3>2. call'[c] = y
      BY <1>4, <1>10, <3>1 DEF At
    <3>3. opentab[fd[c][n]].size = x.end
      BY <1>6 DEF e
    <3>4. ASSUME NEW b \in Pages, b < x.i + 1 PROVE data'[c][n][b] = "file"
      <4>1. b \in Int /\ x.i \in Int
        BY <1>3, OpenFilesAssumption DEF Sizes, Pages
      <4>2. b = x.i \/ b < x.i
        BY <3>4, <4>1
      <4>3. CASE b = x.i
        BY <1>13, <3>2, <4>3
      <4>4. CASE b < x.i
        BY <1>3, <1>6, <1>12, <4>4 DEF FileTo
      <4> QED BY <4>2, <4>3, <4>4
    <3> QED BY <1>5, <3>2, <3>3, <3>4 DEF FileTo
  <2>2. CASE d # c
    <3>1. call'[d] = call[d]
      BY <1>10, <2>2
    <3>2. data'[d] = data[d]
      BY <1>1, <1>8, <2>2 DEF Typed, serve_map
    <3> QED BY <3>1, <3>2 DEF SharingInv, Progress, At, FileTo
  <2> QED BY <2>1, <2>2
<1>18. SizeKept'
  <2>1. ASSUME NEW p \in Envs, At(p, "set_size") PROVE At(p, "set_size")' /\ call'[p] = call[p]
    BY <1>10, <1>11, <2>1 DEF At
  <2>2. \A k : Truncating(k) => Truncating(k)'
    BY <1>7, <2>1 DEF Truncating
  <2> QED BY <1>7, <2>2 DEF SharingInv, SizeKept
<1>19. Backed'
  <2> SUFFICES ASSUME NEW d \in Envs, NEW m \in Fds, fd[d][m] # None, ~Changing(d, m)',
                      NEW b \in Pages, b < opentab[fd[d][m]].size
               PROVE  data'[d][m][b] = "file"
    BY <1>7 DEF Backed, FileTo
  <2>1. CASE d = c /\ m = n
    <3>1. call'[c] # y
      BY <1>5, <2>1 DEF Changing, At
    <3>2. ~(x.i < x.end) /\ b < x.end
      BY <1>6, <1>10, <2>1, <3>1 DEF e
    <3>3. b \in Int /\ x.i \in Int /\ x.end \in Int
      BY <1>3, OpenFilesAssumption DEF Sizes, Pages
    <3>4. b < x.i
      BY <3>2, <3>3
    <3> QED BY <1>6, <1>12, <2>1, <3>4 DEF FileTo, n, x
  <2>2. CASE d # c \/ m # n
    <3>1. ~Changing(d, m)
      BY <1>10, <2>2 DEF Changing, At, x, n
    <3> QED BY <1>12, <3>1 DEF SharingInv, Backed, FileTo
  <2> QED BY <2>1, <2>2
<1> QED BY <1>15, <1>16, <1>17, <1>18, <1>19 DEF SharingInv

(* open: no open entry has the file, or all are for reading and so is      *)
(* this one.                                                               *)
LEMMA OpenKeeps ==
  ASSUME Exclusive, FilesInv, SharingInv,
         NEW c \in Envs, NEW file \in Files, NEW mode \in Modes, open(c, file, mode)
  PROVE  SharingInv'
<1> DEFINE n == Min(FreeFds(c))
           s == IF mode = "O_TRUNC" THEN 0 ELSE f_size[file]
           w == [file |-> file, mode |-> mode, mapped |-> TRUE, size |-> s]
<1>1. n \in Fds /\ fd[c][n] = None
  <2>1. n \in FreeFds(c)
    BY MinOfNats, Numbers DEF open
  <2> QED BY <2>1, Numbers DEF FreeFds
<1>2. PICK e \in Free : /\ serve_open(e, file, mode)
                        /\ fd' = [fd EXCEPT ![c][n] = e]
                        /\ Goto(c, [at |-> "map", n |-> n, i |-> 0, end |-> opentab'[e].size, then |-> Idle])
  BY DEF open
<1> DEFINE y == [at |-> "map", n |-> n, i |-> 0, end |-> opentab'[e].size, then |-> Idle]
<1>3. e \in Entries /\ e # None /\ \A d \in Envs, m \in Fds : fd[d][m] # e
  BY FreeIsUnheld, OpenFilesAssumption DEF Entries
<1>4. Typed /\ Held
  BY DEF FilesInv
<1>5. opentab' = [opentab EXCEPT ![e] = w] /\ f_size' = [f_size EXCEPT ![file] = s]
  BY <1>2 DEF serve_open
<1>6. w.file = file /\ w.mode = mode /\ w.size = s
  OBVIOUS
<1>7. y.at = "map" /\ y.n = n /\ y.i = 0 /\ y.end = opentab'[e].size
  OBVIOUS
<1>8. mode # "O_TRUNC" => s = f_size[file]
  OBVIOUS
<1>9. call' = [call EXCEPT ![c] = y] /\ call[c].at = "idle" /\ data' = data
  BY <1>2 DEF Goto, open, At
<1> HIDE DEF n, s, w, y
<1>10. opentab'[e] = w /\ \A k \in Entries : k # e => opentab'[k] = opentab[k]
  BY <1>3, <1>4, <1>5 DEF Typed
<1>11. /\ f_size'[file] = s /\ \A g \in Files : g # file => f_size'[g] = f_size[g]
       /\ mode # "O_TRUNC" => f_size' = f_size
  BY <1>4, <1>5, <1>8 DEF Typed
<1>12. fd'[c][n] = e /\ \A d \in Envs, m \in Fds : d # c \/ m # n => fd'[d][m] = fd[d][m]
  BY <1>1, <1>2, <1>3, <1>4 DEF Typed
<1>13. call'[c] = y /\ \A d \in Envs : d # c => call'[d] = call[d]
  BY <1>4, <1>9 DEF Typed
<1>14. ASSUME NEW d \in Envs, NEW m \in Fds, d # c \/ m # n, fd'[d][m] # None
       PROVE  /\ fd'[d][m] = fd[d][m] /\ fd[d][m] \in Entries /\ fd[d][m] # e
              /\ opentab'[fd[d][m]] = opentab[fd[d][m]]
              /\ opentab[fd[d][m]].file \in Files
              /\ opentab[fd[d][m]].file = file => opentab[fd[d][m]].mode = "O_RDONLY" /\ mode = "O_RDONLY"
  <2>1. fd'[d][m] = fd[d][m] /\ fd[d][m] \in Entries /\ fd[d][m] # e
    BY <1>3, <1>4, <1>12, <1>14 DEF Typed
  <2>2. <<d, m>> \in Holders(fd[d][m])
    BY DEF Holders
  <2>3. opentab[fd[d][m]].file = file => fd[d][m] \in InUse(file)
    BY <2>1, <2>2 DEF InUse
  <2>4. \A k \in InUse(file) : opentab[k].mode = "O_RDONLY" /\ mode = "O_RDONLY"
    BY DEF open, MayOpen
  <2>5. opentab[fd[d][m]].file \in Files
    BY <1>4, <1>14, <2>1 DEF Held
  <2> QED BY <1>10, <2>1, <2>3, <2>4, <2>5
<1>15. \A d \in Envs, m \in Fds : Changing(d, m)' => (d = c /\ m = n) \/ (d # c /\ Changing(d, m))
  BY <1>7, <1>13 DEF Changing, At
<1>16. \A m \in Fds : ~Changing(c, m)' => m # n
  BY <1>7, <1>13 DEF Changing, At
<1>17. OneHolder'
  <2> SUFFICES ASSUME NEW d \in Envs, NEW m \in Fds, Changing(d, m)'
               PROVE  /\ fd'[d][m] # None
                      /\ \A p \in Envs, q \in Fds : fd'[p][q] = fd'[d][m] => p = d /\ q = m
    BY Zenon DEF OneHolder
  <2>1. CASE d = c /\ m = n
    BY <1>3, <1>12, <2>1
  <2>2. CASE d # c /\ Changing(d, m)
    <3>1. fd'[d][m] = fd[d][m] /\ fd[d][m] # None /\ fd[d][m] # e
      BY <1>3, <1>12, <2>2 DEF SharingInv, OneHolder
    <3> QED BY <1>12, <2>2, <3>1 DEF SharingInv, OneHolder
  <2> QED BY <1>15, <2>1, <2>2
<1>18. Progress'
  <2> SUFFICES ASSUME NEW d \in Envs
               PROVE  /\ At(d, "set_size")' => /\ opentab'[fd'[d][call'[d].n]].mode # "O_RDONLY"
                                               /\ opentab'[fd'[d][call'[d].n]].size = call'[d].size
                                               /\ FileTo(d, call[d].n, call[d].old)'
                      /\ At(d, "map")' => /\ opentab'[fd'[d][call'[d].n]].size = call'[d].end
                                          /\ FileTo(d, call[d].n, call[d].i)'
    BY DEF Progress, FileTo
  <2>1. CASE d = c
    <3>1. \A b \in Pages : ~(b < 0)
      BY DEF Pages
    <3> QED BY <1>7, <1>12, <1>13, <2>1, <3>1 DEF At, FileTo
  <2>2. CASE d # c
    <3>1. call'[d] = call[d]
      BY <1>13, <2>2
    <3>2. SUFFICES ASSUME At(d, "set_size") \/ At(d, "map")
                   PROVE  /\ call[d].n \in Fds
                          /\ fd'[d][call[d].n] = fd[d][call[d].n]
                          /\ opentab'[fd[d][call[d].n]] = opentab[fd[d][call[d].n]]
      BY <1>9, <3>1, <3>2 DEF SharingInv, Progress, At, FileTo
    <3>3. call[d].n \in Fds
      <4>1. call[d] \in Calls /\ (call[d].at = "set_size" \/ call[d].at = "map")
        BY <1>4, <3>2 DEF Typed, At
      <4> QED BY <4>1, CallFields
    <3>4. Changing(d, call[d].n)
      BY <3>2 DEF Changing
    <3>5. fd'[d][call[d].n] # None
      BY <1>12, <2>2, <3>3, <3>4 DEF SharingInv, OneHolder
    <3> QED BY <1>14, <2>2, <3>3, <3>5
  <2> QED BY <2>1, <2>2
<1>19. Readers'
  <2> SUFFICES ASSUME NEW p \in Envs, NEW d \in Envs, NEW q \in Fds, NEW m \in Fds,
                      fd'[p][q] # None, fd'[d][m] # None, fd'[p][q] # fd'[d][m],
                      opentab'[fd'[p][q]].file = opentab'[fd'[d][m]].file
               PROVE  opentab'[fd'[p][q]].mode = "O_RDONLY"
    BY DEF Readers
  <2>1. CASE p = c /\ q = n
    <3>1. d # c \/ m # n
      BY <2>1
    <3> QED BY <1>6, <1>10, <1>12, <1>14, <2>1, <3>1
  <2>2. CASE d = c /\ m = n
    <3>1. p # c \/ q # n
      BY <2>2
    <3> QED BY <1>6, <1>10, <1>12, <1>14, <2>2, <3>1
  <2>3. CASE (p # c \/ q # n) /\ (d # c \/ m # n)
    BY <1>14, <2>3 DEF SharingInv, Readers
  <2> QED BY <2>1, <2>2, <2>3
<1>20. SizeKept'
  <2> SUFFICES ASSUME NEW d \in Envs, NEW m \in Fds, fd'[d][m] # None, ~Truncating(fd[d][m])'
               PROVE  opentab'[fd'[d][m]].size = f_size'[opentab'[fd'[d][m]].file]
    BY DEF SizeKept
  <2>1. CASE d = c /\ m = n
    BY <1>6, <1>10, <1>11, <1>12, <2>1
  <2>2. CASE d # c \/ m # n
    <3> DEFINE k == fd[d][m]
    <3>1. /\ fd'[d][m] = k /\ k # e /\ opentab'[k] = opentab[k] /\ opentab[k].file \in Files
          /\ opentab[k].file = file => mode = "O_RDONLY"
      BY <1>14, <2>2
    <3>2. ~Truncating(k)
      <4> SUFFICES ASSUME NEW p \in Envs, At(p, "set_size"), fd[p][call[p].n] = k PROVE FALSE
        BY DEF Truncating
      <4>1. p # c /\ call'[p] = call[p]
        BY <1>9, <1>13 DEF At
      <4>2. fd'[p] = fd[p]
        BY <1>2, <1>4, <4>1 DEF Typed
      <4> QED BY <3>1, <4>1, <4>2 DEF Truncating, At
    <3>3. opentab[k].size = f_size[opentab[k].file]
      BY <3>1, <3>2 DEF SharingInv, SizeKept
    <3>4. f_size'[opentab[k].file] = f_size[opentab[k].file]
      BY <1>11, <3>1
    <3> QED BY <3>1, <3>3, <3>4
  <2> QED BY <2>1, <2>2
<1>21. Backed'
  <2> SUFFICES ASSUME NEW d \in Envs, NEW m \in Fds, fd'[d][m] # None, ~Changing(d, m)',
                      NEW b \in Pages, b < opentab'[fd'[d][m]].size
               PROVE  data[d][m][b] = "file"
    BY <1>9 DEF Backed, FileTo
  <2>1. d # c \/ m # n
    BY <1>16
  <2>2. ~Changing(d, m)
    BY <1>9, <1>13 DEF Changing, At
  <2> QED BY <1>14, <2>1, <2>2 DEF SharingInv, Backed, FileTo
<1> QED BY <1>17, <1>18, <1>19, <1>20, <1>21 DEF SharingInv

(* Every action is one of the steps above.                                 *)
LEMMA QuietKeeps ==
  ASSUME FilesInv, SharingInv, NEW c \in Envs,
         opentab' = opentab, f_size' = f_size, fd' = fd,
         call[c].at \notin {"set_size", "map"}, call'[c].at \notin {"set_size", "map"},
         \A d \in Envs : d # c => data'[d] = data[d] /\ call'[d] = call[d],
         \A m \in Fds, b \in Pages : data[c][m][b] = "file" => data'[c][m][b] = "file"
  PROVE  SharingInv'
<1>1. \A m \in Fds : ~Changing(c, m)
  BY DEF Changing, At
<1> QED BY <1>1, HandedStep

LEMMA GotoFields ==
  ASSUME Typed, NEW c \in Envs, NEW x, Goto(c, x)
  PROVE  call'[c] = x /\ \A d \in Envs : d # c => call'[d] = call[d]
BY DEF Typed, Goto

LEMMA TouchedPages ==
  ASSUME Typed, NEW c \in Envs, NEW n \in Fds, NEW a \in Pages, Touched(c, n, a)
  PROVE  /\ \A d \in Envs : d # c => data'[d] = data[d]
         /\ \A m \in Fds, b \in Pages : data[c][m][b] = "file" => data'[c][m][b] = "file"
<1>1. data' = [data EXCEPT ![c][n][a] = IF @ = None THEN "zero" ELSE @]
  BY DEF Touched
<1>2. \A d \in Envs : d # c => data'[d] = data[d]
  BY <1>1 DEF Typed
<1>3. ASSUME NEW m \in Fds, NEW b \in Pages, data[c][m][b] = "file", data[c][n][a] # None \/ m # n \/ a # b
      PROVE  data'[c][m][b] = "file"
  BY <1>1, <1>3 DEF Typed
<1>4. data[c][n][a] = "file" => data'[c][n][a] = "file"
  BY <1>1, OpenFilesAssumption DEF Typed
<1> QED BY <1>2, <1>3, <1>4

LEMMA NextKeeps ==
  ASSUME Exclusive, FilesInv, SharingInv, NEW c \in Envs, Step(c)
  PROVE  SharingInv'
<1>1. Typed
  BY DEF FilesInv
<1>2. ASSUME NEW x \in Returns PROVE x.at \notin {"set_size", "map"}
  BY DEF Returns, Idle, Unborn, Gone
<1>3. CASE \E file \in Files, mode \in Modes : open(c, file, mode)
  BY <1>3, OpenKeeps
<1>4. ASSUME NEW n \in Fds, close(c, n) PROVE SharingInv'
  <2> DEFINE x == [at |-> "close", n |-> n, size |-> opentab[fd[c][n]].size, then |-> Idle]
  <2>1. Goto(c, x) /\ call[c].at = "idle" /\ UNCHANGED <<opentab, f_size, fd, data>>
    BY <1>4 DEF close, Close, At
  <2>2. x.at = "close"
    OBVIOUS
  <2> HIDE DEF x
  <2> QED BY <1>1, <2>1, <2>2, GotoFields, QuietKeeps
<1>5. ASSUME NEW n \in Fds, NEW size \in 0..MaxSize, ftruncate(c, n, size) PROVE SharingInv'
  <2>1. /\ Writable(c, n) /\ Holders(fd[c][n]) = {<<c, n>>} /\ call[c].at = "idle"
        /\ Truncate(c, n, size, Idle) /\ UNCHANGED <<f_size, fd, data>> /\ size \in Sizes
    BY <1>5 DEF ftruncate, Alone, At, Sizes
  <2> QED BY <2>1, CallTypes, TruncateKeeps
<1>6. ASSUME NEW n \in Fds, NEW b \in Pages, read(c, n, b) PROVE SharingInv'
  <2>1. Touched(c, n, b) /\ call[c].at = "idle" /\ UNCHANGED <<opentab, f_size, fd, call>>
    BY <1>6 DEF read, At
  <2> QED BY <1>1, <2>1, TouchedPages, QuietKeeps
<1>7. ASSUME NEW n \in Fds, NEW b \in Pages, write(c, n, b) PROVE SharingInv'
  <2> DEFINE x == [at |-> "write", n |-> n, offset |-> b]
  <2>1. x \in Returns /\ b + 1 \in Sizes /\ Writable(c, n) /\ call[c].at = "idle"
    BY <1>7, CallTypes, Numbers DEF write, At
  <2>2. UNCHANGED <<f_size, fd, data>>
    BY <1>7 DEF write
  <2>3. \/ Alone(c, n) /\ Truncate(c, n, b + 1, x)
        \/ Goto(c, x) /\ opentab' = opentab
    BY <1>7 DEF write
  <2> HIDE DEF x
  <2>4. CASE Alone(c, n) /\ Truncate(c, n, b + 1, x)
    BY <2>1, <2>2, <2>4, TruncateKeeps DEF Alone
  <2>5. CASE Goto(c, x) /\ opentab' = opentab
    BY <1>1, <1>2, <2>1, <2>2, <2>5, GotoFields, QuietKeeps
  <2> QED BY <2>3, <2>4, <2>5
<1>8. ASSUME NEW old \in Fds, NEW new \in Fds, dup(c, old, new) PROVE SharingInv'
  <2>1. /\ call[c].at = "idle" /\ UNCHANGED <<opentab, f_size, fd, data>>
        /\ \E x : Goto(c, x) /\ x.at \in {"close", "dup"}
    BY <1>8 DEF dup, Close, At
  <2>2. PICK x : Goto(c, x) /\ x.at \in {"close", "dup"}
    BY <2>1
  <2> QED BY <1>1, <2>1, <2>2, GotoFields, QuietKeeps
<1>9. CASE fsipc_map(c) \/ fsipc_set_size(c)
  BY <1>9, MapKeeps, SetSizeKeeps
<1>10. CASE write_data(c)
  <2>1. /\ call[c].at = "write" /\ UNCHANGED <<opentab, f_size, fd>>
        /\ Touched(c, call[c].n, call[c].offset) /\ Goto(c, Idle)
    BY <1>10 DEF write_data, At
  <2>2. call[c] \in Calls
    BY <1>1 DEF Typed
  <2>3. call[c].n \in Fds /\ call[c].offset \in Pages
    BY <2>1, <2>2, CallFields
  <2> QED BY <1>1, <2>1, <2>3, GotoFields, TouchedPages, QuietKeeps DEF Idle
<1>11. CASE fd_close(c)
  <2> DEFINE x == call[c]
  <2>1. x \in Calls /\ x.at = "close"
    BY <1>1, <1>11 DEF Typed, fd_close, At
  <2>2. x.n \in Fds /\ x.then \in Returns
    BY <2>1, CallFields
  <2>3. /\ data' = Unmapped(c, x.n, x.size) /\ fd' = [fd EXCEPT ![c][x.n] = None]
        /\ Goto(c, x.then) /\ opentab' = opentab /\ f_size' = f_size
    BY <1>11 DEF fd_close
  <2>4. \A m \in Fds : ~Changing(c, m)
    BY <2>1 DEF Changing, At
  <2> HIDE DEF x
  <2>5. \A d \in Envs : d # c => fd'[d] = fd[d] /\ data'[d] = data[d]
    BY <1>1, <2>3 DEF Typed, Unmapped
  <2>6. \A m \in Fds : fd'[c][m] # None => m # x.n /\ fd'[c][m] = fd[c][m] /\ data'[c][m] = data[c][m]
    BY <1>1, <2>2, <2>3 DEF Typed, Unmapped
  <2>7. call'[c] = x.then /\ \A d \in Envs : d # c => call'[d] = call[d]
    BY <1>1, <2>3, GotoFields
  <2>8. call[c].at \notin {"set_size", "map"} /\ call'[c].at \notin {"set_size", "map"}
    BY <1>2, <2>1, <2>2, <2>7 DEF x
  <2>9. \A m \in Fds : fd'[c][m] # None =>
          \E p \in Envs, q \in Fds :
             /\ ~Changing(p, q) /\ fd[p][q] = fd'[c][m]
             /\ \A b \in Pages : data[p][q][b] = "file" => data'[c][m][b] = "file"
    BY <2>4, <2>6
  <2> QED BY <2>3, <2>5, <2>7, <2>8, <2>9, HandedStep
<1>12. CASE dup_map(c)
  <2> DEFINE o == call[c].old
             n == call[c].new
  <2>1. call[c] \in Calls /\ call[c].at = "dup"
    BY <1>1, <1>12 DEF Typed, dup_map, At
  <2>2. o \in Fds /\ n \in Fds
    BY <2>1, CallFields
  <2>3. /\ data' = [data EXCEPT ![c][n] =
                     [b \in Pages |-> IF data[c][o][b] # None THEN data[c][o][b] ELSE @[b]]]
        /\ fd' = [fd EXCEPT ![c][n] = fd[c][o]]
        /\ Goto(c, Idle) /\ opentab' = opentab /\ f_size' = f_size
    BY <1>12 DEF dup_map
  <2>4. \A m \in Fds : ~Changing(c, m)
    BY <2>1 DEF Changing, At
  <2> HIDE DEF o, n
  <2>5. \A d \in Envs : d # c => fd'[d] = fd[d] /\ data'[d] = data[d]
    BY <1>1, <2>3 DEF Typed
  <2>6. call'[c] = Idle /\ \A d \in Envs : d # c => call'[d] = call[d]
    BY <1>1, <2>3, GotoFields
  <2>7. fd'[c][n] = fd[c][o] /\ \A m \in Fds : m # n => fd'[c][m] = fd[c][m] /\ data'[c][m] = data[c][m]
    BY <1>1, <2>2, <2>3 DEF Typed
  <2>8. \A b \in Pages : data[c][o][b] = "file" => data'[c][n][b] = "file"
    BY <1>1, <2>2, <2>3, OpenFilesAssumption DEF Typed
  <2>9. \A m \in Fds : fd'[c][m] # None =>
          \E p \in Envs, q \in Fds :
             /\ ~Changing(p, q) /\ fd[p][q] = fd'[c][m]
             /\ \A b \in Pages : data[p][q][b] = "file" => data'[c][m][b] = "file"
    <3> SUFFICES ASSUME NEW m \in Fds
                 PROVE  \E q \in Fds :
                          /\ fd[c][q] = fd'[c][m]
                          /\ \A b \in Pages : data[c][q][b] = "file" => data'[c][m][b] = "file"
      BY <2>4
    <3>1. CASE m = n
      BY <2>2, <2>7, <2>8, <3>1
    <3>2. CASE m # n
      BY <2>7, <3>2
    <3> QED BY <3>1, <3>2
  <2> QED BY <2>1, <2>3, <2>5, <2>6, <2>9, HandedStep DEF Idle
<1>13. CASE exit(c) \/ close_all(c)
  <2>1. /\ call[c].at \in {"idle", "exit"} /\ UNCHANGED <<opentab, f_size, fd, data>>
        /\ \E x : Goto(c, x) /\ x.at \in {"exit", "close", "gone"}
    BY <1>13 DEF exit, close_all, Close, At, Gone
  <2>2. PICK x : Goto(c, x) /\ x.at \in {"exit", "close", "gone"}
    BY <2>1
  <2> QED BY <1>1, <2>1, <2>2, GotoFields, QuietKeeps
<1>14. ASSUME NEW child \in Envs, fork(c, child) PROVE SharingInv'
  <2>1. /\ call[c].at = "idle" /\ call[child].at = "unborn"
        /\ fd' = [fd EXCEPT ![child] = fd[c]] /\ data' = [data EXCEPT ![child] = data[c]]
        /\ Goto(child, Idle) /\ opentab' = opentab /\ f_size' = f_size
    BY <1>14 DEF fork, At
  <2>2. \A d \in Envs : d # child => fd'[d] = fd[d] /\ data'[d] = data[d]
    BY <1>1, <2>1 DEF Typed
  <2>3. fd'[child] = fd[c] /\ data'[child] = data[c]
    BY <1>1, <2>1 DEF Typed
  <2>4. call'[child] = Idle /\ \A d \in Envs : d # child => call'[d] = call[d]
    BY <1>1, <2>1, GotoFields
  <2>5. \A m \in Fds : ~Changing(c, m)
    BY <2>1 DEF Changing, At
  <2> QED BY <2>1, <2>2, <2>3, <2>4, <2>5, HandedStep DEF Idle
<1> QED BY <1>3, <1>4, <1>5, <1>6, <1>7, <1>8, <1>9, <1>10, <1>11, <1>12, <1>13, <1>14 DEF Step

LEMMA SharingAlways == ASSUME Exclusive PROVE Spec => [](FilesInv /\ SharingInv)
<1>1. Init => SharingInv
  <2> SUFFICES ASSUME Init PROVE SharingInv
    OBVIOUS
  <2>1. \A c \in Envs, n \in Fds : fd[c][n] = None
    BY DEF Init
  <2>2. \A c \in Envs : call[c].at \in {"idle", "unborn"}
    BY DEF Init, Idle, Unborn
  <2> QED BY <2>1, <2>2 DEF SharingInv, OneHolder, Progress, Readers, SizeKept, Backed, Changing, At
<1>2. FilesInv /\ SharingInv /\ [Next]_vars => SharingInv'
  <2>1. SharingInv /\ UNCHANGED vars => SharingInv'
    BY DEF vars, SharingInv, OneHolder, Progress, Readers, SizeKept, Backed, Changing, At, FileTo, Truncating
  <2> QED BY <2>1, NextKeeps DEF Next
<1> QED BY <1>1, <1>2, InitFiles, NextFiles, PTL DEF Spec

(* If programs write as the shell's do, every read, write and close of an  *)
(* open file goes by the size the file has (file.c's ftruncate, serv.c's   *)
(* serve_set_size), with any number of programs, files and entries.        *)
THEOREM SizesStayEqual == ASSUME Exclusive PROVE Spec => []SizesAgree
<1>1. FilesInv /\ SharingInv => SizesAgree
  <2> SUFFICES ASSUME FilesInv, SharingInv, NEW e \in Entries, Holders(e) # {}, ~Truncating(e)
               PROVE  opentab[e].size = f_size[opentab[e].file]
    BY DEF SizesAgree
  <2>1. PICK c \in Envs, n \in Fds : fd[c][n] = e
    BY DEF Holders
  <2>2. e # None
    BY OpenFilesAssumption DEF Entries
  <2> QED BY <2>1, <2>2 DEF SharingInv, SizeKept
<1> QED BY <1>1, SharingAlways, PTL

(* Then an env that is in no call has the file's own page behind every     *)
(* byte a descriptor gives it: open, ftruncate, fork and dup map all of    *)
(* them, also when others truncate, write and close in between (file.c,    *)
(* fd.c).                                                                  *)
THEOREM NoByteWithoutItsPage == ASSUME Exclusive PROVE Spec => []PagesBacked
<1>1. FilesInv /\ SharingInv => PagesBacked
  <2> SUFFICES ASSUME FilesInv, SharingInv, NEW c \in Envs, At(c, "idle"),
                      NEW n \in Fds, fd[c][n] # None, NEW b \in 0..(opentab[fd[c][n]].size - 1)
               PROVE  data[c][n][b] = "file"
    BY DEF PagesBacked
  <2>1. ~Changing(c, n)
    BY DEF Changing, At
  <2>2. fd[c][n] \in Entries /\ opentab \in [Entries -> AnEntry]
    BY DEF FilesInv, Typed
  <2>3. opentab[fd[c][n]].size \in Sizes
    BY <2>2 DEF AnEntry
  <2>4. b \in Pages /\ b < opentab[fd[c][n]].size
    BY <2>3, OpenFilesAssumption DEF Sizes, Pages
  <2> QED BY <2>1, <2>4 DEF SharingInv, Backed, FileTo
<1> QED BY <1>1, SharingAlways, PTL
=============================================================================
