----------------------------- MODULE PipeProofs -----------------------------
(***************************************************************************)
(* The pipe of pipe.c, for every number of envs and descriptors and every  *)
(* size of its buffer.  First, _pipe_is_closed is right as long as envs    *)
(* that share an end do not fork.  Then the bytes: whatever is forked, the *)
(* reader gets the writer's bytes in order, each once.                     *)
(***************************************************************************)
EXTENDS Pipe, TLAPS, FiniteSetTheorems, SequenceTheorems

Fields == {"fd", "to", "child", "left", "some", "byte", "ret", "fd_ref", "closed"}

IsFrame(f) == DOMAIN f = Fields /\ f.ret \in {"idle", "read", "write"}

(* Where the local fd is open. *)
Using == {"map2", "runs", "fd_ref", "pipe_ref", "recheck", "read", "read_inc", "write", "write_inc"}

(* The inductive invariant.  The counts can be trusted because an fd page  *)
(* is mapped only where the data page is, except in a child that is being  *)
(* forked, and then the parent is the only env that has these ends open.   *)
Shapes ==
  /\ rd \subseteq Envs \X Fds /\ wr \subseteq Envs \X Fds /\ data \subseteq Envs \X Fds
  /\ state \in [Envs -> {"unused", "embryo", "running"}]
  /\ DOMAIN pc = Envs /\ DOMAIN frame = Envs
  /\ \A e \in Envs : IsFrame(frame[e])

OneEnd == \A e \in Envs, n \in Fds : ~(<<e, n>> \in rd /\ <<e, n>> \in wr)

Covered == \A e \in Envs, n \in Fds : state[e] = "running" /\ Open(e, n) => <<e, n>> \in data

Unborn == \A e \in Envs : state[e] = "unused" => \A n \in Fds : <<e, n>> \notin rd \cup wr \cup data

Still == \A e \in Envs : state[e] # "running" => pc[e] = "idle"

Parents == \A c \in Envs : state[c] = "embryo" =>
             \E e \in Envs : At(e, "fork") /\ frame[e].child = c

Copies == \A e \in Envs : At(e, "fork") =>
            /\ frame[e].child \in Envs /\ state[frame[e].child] = "embryo"
            /\ \A n \in Fds : /\ <<frame[e].child, n>> \in rd => <<e, n>> \in rd
                              /\ <<frame[e].child, n>> \in wr => <<e, n>> \in wr
                              /\ <<frame[e].child, n>> \in data => <<e, n>> \in data

Apart == \A e \in Envs : At(e, "fork") =>
           \A m, n \in Fds, d \in Envs :
             /\ <<e, m>> \in rd /\ <<d, n>> \in rd => d = e \/ d = frame[e].child
             /\ <<e, m>> \in wr /\ <<d, n>> \in wr => d = e \/ d = frame[e].child

OneParent == \A d, e \in Envs : At(d, "fork") /\ At(e, "fork") /\ frame[d].child = frame[e].child => d = e

Locals == \A e \in Envs :
            /\ pc[e] \in Using => frame[e].fd \in Fds /\ Open(e, frame[e].fd)
            /\ pc[e] = "map2" => /\ frame[e].to \in Fds /\ ~Open(e, frame[e].to)
                                 /\ <<e, frame[e].to>> \in data
            /\ pc[e] = "unmap2" => frame[e].fd \in Fds /\ ~Open(e, frame[e].fd)

Counted == \A e \in Envs : fresh = e =>
             /\ pc[e] = "pipe_ref" => frame[e].fd_ref = Cardinality(End(e))
             /\ pc[e] = "recheck" /\ frame[e].closed => Cardinality(End(e)) = Cardinality(data)

SharingInv == Shapes /\ OneEnd /\ Covered /\ Unborn /\ Still /\ Parents /\ Copies /\ Apart /\ OneParent /\ Locals

PipeInv == SharingInv /\ Counted

----------------------------------------------------------------------------
(* A local variable that is not assigned keeps its value. *)
LEMMA IdleFrame ==
  /\ IsFrame(Idle)
  /\ \A n : IsFrame([Idle EXCEPT !.fd = n]) /\ [Idle EXCEPT !.fd = n].fd = n
  /\ \A c : IsFrame([Idle EXCEPT !.child = c]) /\ [Idle EXCEPT !.child = c].child = c
  /\ \A n, k : \A r \in {"idle", "read", "write"} : /\ IsFrame([Idle EXCEPT !.fd = n, !.left = k, !.ret = r])
                  /\ [Idle EXCEPT !.fd = n, !.left = k, !.ret = r].fd = n
<1>1. IsFrame(Idle)
  BY DEF Idle, Fields, IsFrame
<1>2. ASSUME NEW n PROVE IsFrame([Idle EXCEPT !.fd = n]) /\ [Idle EXCEPT !.fd = n].fd = n
  BY <1>1 DEF Fields, IsFrame
<1>4. ASSUME NEW c PROVE IsFrame([Idle EXCEPT !.child = c]) /\ [Idle EXCEPT !.child = c].child = c
  BY <1>1 DEF Fields, IsFrame
<1>5. ASSUME NEW n, NEW k, NEW r \in {"idle", "read", "write"}
      PROVE  /\ IsFrame([Idle EXCEPT !.fd = n, !.left = k, !.ret = r])
             /\ [Idle EXCEPT !.fd = n, !.left = k, !.ret = r].fd = n
  BY <1>1 DEF Fields, IsFrame
<1> QED BY <1>1, <1>2, <1>4, <1>5

LEMMA FrameUpdates ==
  ASSUME NEW f, IsFrame(f)
  PROVE  /\ \A v : /\ IsFrame([f EXCEPT !.fd_ref = v]) /\ [f EXCEPT !.fd_ref = v].fd = f.fd
                   /\ [f EXCEPT !.fd_ref = v].fd_ref = v
         /\ \A v : /\ IsFrame([f EXCEPT !.closed = v]) /\ [f EXCEPT !.closed = v].fd = f.fd
                   /\ [f EXCEPT !.closed = v].closed = v
         /\ \A v : IsFrame([f EXCEPT !.byte = v]) /\ [f EXCEPT !.byte = v].fd = f.fd
<1>1. ASSUME NEW v PROVE /\ IsFrame([f EXCEPT !.fd_ref = v]) /\ [f EXCEPT !.fd_ref = v].fd = f.fd
                         /\ [f EXCEPT !.fd_ref = v].fd_ref = v
  BY DEF Fields, IsFrame
<1>2. ASSUME NEW v PROVE /\ IsFrame([f EXCEPT !.closed = v]) /\ [f EXCEPT !.closed = v].fd = f.fd
                         /\ [f EXCEPT !.closed = v].closed = v
  BY DEF Fields, IsFrame
<1>3. ASSUME NEW v PROVE IsFrame([f EXCEPT !.byte = v]) /\ [f EXCEPT !.byte = v].fd = f.fd
  BY DEF Fields, IsFrame
<1> QED BY <1>1, <1>2, <1>3

LEMMA ClearedFrame ==
  ASSUME NEW f, IsFrame(f), NEW g, g = [f EXCEPT !.fd_ref = 0, !.closed = FALSE]
  PROVE  IsFrame(g) /\ g.fd = f.fd
BY DEF Fields, IsFrame

LEMMA MovedFrame ==
  ASSUME NEW f, IsFrame(f), NEW g, g = [f EXCEPT !.left = @ - 1, !.some = TRUE, !.byte = 0]
  PROVE  IsFrame(g) /\ g.fd = f.fd
BY DEF Fields, IsFrame

LEMMA PipeInit == Init => PipeInv
<1> SUFFICES ASSUME Init PROVE PipeInv
  OBVIOUS
<1>1. 0 \in Fds /\ 1 \in Fds /\ Root \in Envs
  BY PipeAssumption DEF Fds
<1>2. /\ rd = {<<Root, 0>>} /\ wr = {<<Root, 1>>} /\ data = {<<Root, 0>>, <<Root, 1>>}
      /\ state = [e \in Envs |-> IF e = Root THEN "running" ELSE "unused"]
      /\ pc = [e \in Envs |-> "idle"] /\ frame = [e \in Envs |-> Idle] /\ fresh = None
  BY DEF Init
<1>3. Shapes
  <2>1. \A e \in Envs : IsFrame(frame[e])
    BY <1>2, IdleFrame
  <2> QED BY <1>1, <1>2, <2>1 DEF Shapes
<1>4. OneEnd /\ Covered /\ Unborn
  BY <1>2 DEF OneEnd, Covered, Unborn, Open
<1>5. Still /\ Parents /\ Copies /\ Apart /\ OneParent /\ Locals
  BY <1>2 DEF Still, Parents, Copies, Apart, OneParent, Locals, At, Using
<1>6. Counted
  BY <1>2, PipeAssumption DEF Counted
<1> QED BY <1>3, <1>4, <1>5, <1>6 DEF PipeInv, SharingInv

(* A step of e that maps and unmaps nothing, and is no part of a fork.     *)
LEMMA QuietStep ==
  ASSUME SharingInv, NEW e \in Envs, state[e] = "running", UNCHANGED <<rd, wr, data, state>>,
         NEW label, NEW f, Goto(e, label, f), IsFrame(f),
         pc[e] # "fork", label \notin {"fork", "map2", "unmap2"},
         label \in Using => f.fd \in Fds /\ Open(e, f.fd)
  PROVE  SharingInv'
<1>1. /\ DOMAIN pc' = Envs /\ DOMAIN frame' = Envs /\ pc'[e] = label /\ frame'[e] = f
      /\ \A d \in Envs : d # e => pc'[d] = pc[d] /\ frame'[d] = frame[d]
      /\ \A d \in Envs, n \in Fds : Open(d, n)' = Open(d, n)
  BY DEF SharingInv, Shapes, Goto, Open
<1>2. \A d \in Envs : At(d, "fork")' <=> At(d, "fork")
  BY <1>1 DEF At
<1>3. \A d \in Envs : At(d, "fork") => frame'[d] = frame[d]
  BY <1>1 DEF At
<1>4. Shapes'
  BY <1>1 DEF SharingInv, Shapes
<1>5. OneEnd' /\ Covered' /\ Unborn'
  BY <1>1 DEF SharingInv, OneEnd, Covered, Unborn
<1>6. Still'
  BY <1>1 DEF SharingInv, Still
<1>7. Parents' /\ OneParent'
  BY <1>2, <1>3 DEF SharingInv, Parents, OneParent
<1>8. Copies' /\ Apart'
  BY <1>2, <1>3 DEF SharingInv, Copies, Apart
<1>9. Locals'
  BY <1>1 DEF SharingInv, Locals
<1> QED BY <1>4, <1>5, <1>6, <1>7, <1>8, <1>9 DEF SharingInv

(* The steps that map or unmap, one by one. *)
LEMMA CloseStep ==
  ASSUME SharingInv, NEW e \in Envs, NEW n \in Fds, close(e, n)
  PROVE  SharingInv'
<1>1. /\ state[e] = "running" /\ pc[e] = "idle" /\ Open(e, n) /\ UNCHANGED <<data, state>>
      /\ rd' = rd \ {<<e, n>>} /\ wr' = wr \ {<<e, n>>}
      /\ Goto(e, "unmap2", [Idle EXCEPT !.fd = n])
  BY DEF close, At, Unmap, UnmapFd
<1>2. /\ DOMAIN pc' = Envs /\ DOMAIN frame' = Envs /\ pc'[e] = "unmap2"
      /\ frame'[e].fd = n /\ IsFrame(frame'[e])
      /\ \A d \in Envs : d # e => pc'[d] = pc[d] /\ frame'[d] = frame[d]
  BY <1>1, IdleFrame DEF SharingInv, Shapes, Goto
<1>3. \A d \in Envs : /\ At(d, "fork")' <=> At(d, "fork")
                      /\ At(d, "fork") => frame'[d] = frame[d] /\ d # e
  BY <1>1, <1>2 DEF At
<1>4. Shapes'
  BY <1>1, <1>2 DEF SharingInv, Shapes
<1>5. OneEnd' /\ Covered' /\ Unborn'
  BY <1>1 DEF SharingInv, OneEnd, Covered, Unborn, Open
<1>6. Still' /\ Parents' /\ OneParent'
  BY <1>1, <1>2, <1>3 DEF SharingInv, Still, Parents, OneParent
<1>7. Copies'
  BY <1>1, <1>3 DEF SharingInv, Copies
<1>8. Apart'
  BY <1>1, <1>3 DEF SharingInv, Apart
<1>9. Locals'
  BY <1>1, <1>2 DEF SharingInv, Locals, Open, Using
<1> QED BY <1>4, <1>5, <1>6, <1>7, <1>8, <1>9 DEF SharingInv

LEMMA Close2Step ==
  ASSUME SharingInv, NEW e \in Envs, close_2(e)
  PROVE  SharingInv'
<1> DEFINE n == frame[e].fd
<1>1. /\ state[e] = "running" /\ pc[e] = "unmap2" /\ UNCHANGED <<rd, wr, state>>
      /\ data' = data \ {<<e, n>>} /\ Goto(e, "idle", Idle)
  BY DEF close_2, At, Unmap, UnmapData
<1>2. /\ DOMAIN pc' = Envs /\ DOMAIN frame' = Envs /\ pc'[e] = "idle" /\ IsFrame(frame'[e])
      /\ \A d \in Envs : d # e => pc'[d] = pc[d] /\ frame'[d] = frame[d]
  BY <1>1, IdleFrame DEF SharingInv, Shapes, Goto
<1>3. n \in Fds /\ ~Open(e, n)
  BY <1>1 DEF SharingInv, Locals
<1> HIDE DEF n
<1>4. \A d \in Envs : /\ At(d, "fork")' <=> At(d, "fork")
                      /\ At(d, "fork") => frame'[d] = frame[d] /\ d # e
  BY <1>1, <1>2 DEF At
<1>5. Shapes'
  BY <1>1, <1>2 DEF SharingInv, Shapes
<1>6. OneEnd' /\ Covered' /\ Unborn'
  BY <1>1, <1>3 DEF SharingInv, OneEnd, Covered, Unborn, Open
<1>7. Still' /\ Parents' /\ OneParent'
  BY <1>1, <1>2, <1>4 DEF SharingInv, Still, Parents, OneParent
<1>8. Copies'
  BY <1>1, <1>4 DEF SharingInv, Copies
<1>9. Apart'
  BY <1>1, <1>4 DEF SharingInv, Apart
<1>10. Locals'
  BY <1>1, <1>2 DEF SharingInv, Locals, Open, Using
<1> QED BY <1>5, <1>6, <1>7, <1>8, <1>9, <1>10 DEF SharingInv

LEMMA DupStep ==
  ASSUME SharingInv, NEW e \in Envs, NEW n \in Fds, NEW to \in Fds, dup(e, n, to)
  PROVE  SharingInv'
<1>1. /\ state[e] = "running" /\ pc[e] = "idle" /\ Open(e, n) /\ ~Open(e, to)
      /\ UNCHANGED <<rd, wr, state>> /\ <<e, n>> \in data /\ data' = data \cup {<<e, to>>}
      /\ Goto(e, "map2", [Idle EXCEPT !.fd = n, !.to = to])
  BY DEF dup, At, Map, MapData, Share, SharingInv, Covered
<1>2. /\ DOMAIN pc' = Envs /\ DOMAIN frame' = Envs /\ pc'[e] = "map2"
      /\ frame'[e].fd = n /\ frame'[e].to = to /\ IsFrame(frame'[e])
      /\ \A d \in Envs : d # e => pc'[d] = pc[d] /\ frame'[d] = frame[d]
  <2>1. PICK f : /\ f = [Idle EXCEPT !.fd = n, !.to = to]
                 /\ pc' = [pc EXCEPT ![e] = "map2"] /\ frame' = [frame EXCEPT ![e] = f]
    BY <1>1 DEF Goto
  <2>2. IsFrame(f) /\ f.fd = n /\ f.to = to
    <3>1. IsFrame(Idle)
      BY IdleFrame
    <3> QED BY <2>1, <3>1 DEF IsFrame, Fields
  <2> QED BY <2>1, <2>2 DEF SharingInv, Shapes
<1>3. \A d \in Envs : /\ At(d, "fork")' <=> At(d, "fork")
                      /\ At(d, "fork") => frame'[d] = frame[d] /\ d # e /\ frame[d].child # e
  BY <1>1, <1>2 DEF At, SharingInv, Copies
<1>4. Shapes'
  BY <1>1, <1>2 DEF SharingInv, Shapes
<1>5. OneEnd' /\ Covered' /\ Unborn'
  BY <1>1 DEF SharingInv, OneEnd, Covered, Unborn, Open
<1>6. Still' /\ Parents' /\ OneParent'
  BY <1>1, <1>2, <1>3 DEF SharingInv, Still, Parents, OneParent
<1>7. Copies'
  BY <1>1, <1>3 DEF SharingInv, Copies
<1>8. Apart'
  BY <1>1, <1>3 DEF SharingInv, Apart
<1>9. Locals'
  BY <1>1, <1>2 DEF SharingInv, Locals, Open, Using
<1> QED BY <1>4, <1>5, <1>6, <1>7, <1>8, <1>9 DEF SharingInv

LEMMA Dup2Step ==
  ASSUME SharingInv, NEW e \in Envs, dup_2(e)
  PROVE  SharingInv'
<1> DEFINE n == frame[e].fd
           to == frame[e].to
<1>1. /\ state[e] = "running" /\ pc[e] = "map2" /\ UNCHANGED <<data, state>>
      /\ rd' = Share(rd, <<e, n>>, <<e, to>>) /\ wr' = Share(wr, <<e, n>>, <<e, to>>)
      /\ Goto(e, "idle", Idle)
  BY DEF dup_2, At, Map, MapFd
<1>2. /\ DOMAIN pc' = Envs /\ DOMAIN frame' = Envs /\ pc'[e] = "idle" /\ IsFrame(frame'[e])
      /\ \A d \in Envs : d # e => pc'[d] = pc[d] /\ frame'[d] = frame[d]
  BY <1>1, IdleFrame DEF SharingInv, Shapes, Goto
<1>3. n \in Fds /\ to \in Fds /\ Open(e, n) /\ ~Open(e, to) /\ <<e, to>> \in data
  BY <1>1 DEF SharingInv, Locals, Using
<1>4. ~(<<e, n>> \in rd /\ <<e, n>> \in wr)
  BY <1>3 DEF SharingInv, OneEnd
<1> HIDE DEF n, to
<1>5. \A d \in Envs : /\ At(d, "fork")' <=> At(d, "fork")
                      /\ At(d, "fork") => frame'[d] = frame[d] /\ d # e /\ frame[d].child # e
  BY <1>1, <1>2 DEF At, SharingInv, Copies
<1>6. Shapes'
  BY <1>1, <1>2, <1>3 DEF SharingInv, Shapes, Share
<1>7. OneEnd'
  BY <1>1, <1>3, <1>4 DEF SharingInv, OneEnd, Open, Share
<1>8. Covered' /\ Unborn'
  BY <1>1, <1>3 DEF SharingInv, Covered, Unborn, Open, Share
<1>9. Still' /\ Parents' /\ OneParent'
  BY <1>1, <1>2, <1>5 DEF SharingInv, Still, Parents, OneParent
<1>10. Copies'
  BY <1>1, <1>5 DEF SharingInv, Copies, Share
<1>11. Apart'
  BY <1>1, <1>3, <1>5 DEF SharingInv, Apart, Share
<1>12. Locals'
  BY <1>1, <1>2 DEF SharingInv, Locals, Open, Using, Share
<1> QED BY <1>6, <1>7, <1>8, <1>9, <1>10, <1>11, <1>12 DEF SharingInv

LEMMA ForkStep ==
  ASSUME SharingInv, ~ForkShared, NEW e \in Envs, NEW c \in Envs, fork(e, c)
  PROVE  SharingInv'
<1>1. /\ state[e] = "running" /\ pc[e] = "idle" /\ state[c] = "unused"
      /\ UNCHANGED <<rd, wr, data>> /\ state' = [state EXCEPT ![c] = "embryo"]
      /\ Goto(e, "fork", [Idle EXCEPT !.child = c])
  BY DEF fork, At, pages
<1>2. /\ DOMAIN pc' = Envs /\ DOMAIN frame' = Envs /\ pc'[e] = "fork"
      /\ frame'[e].child = c /\ IsFrame(frame'[e])
      /\ \A d \in Envs : d # e => pc'[d] = pc[d] /\ frame'[d] = frame[d]
      /\ state'[c] = "embryo" /\ \A d \in Envs : d # c => state'[d] = state[d]
  BY <1>1, IdleFrame DEF SharingInv, Shapes, Goto
<1>3. /\ c # e /\ pc[c] = "idle"
      /\ \A n \in Fds : <<c, n>> \notin rd \cup wr \cup data
  BY <1>1 DEF SharingInv, Unborn, Still
<1>4. \A d \in Envs : /\ At(d, "fork")' <=> At(d, "fork") \/ d = e
                      /\ At(d, "fork") => frame'[d] = frame[d] /\ d # e /\ frame[d].child # c
  BY <1>1, <1>2, <1>3 DEF At, SharingInv, Copies
<1>5. \A m, n \in Fds, d \in Envs :
        /\ <<e, m>> \in rd /\ <<d, n>> \in rd => d = e
        /\ <<e, m>> \in wr /\ <<d, n>> \in wr => d = e
  <2>1. \A end \in {rd, wr} : (\E n \in Fds : <<e, n>> \in end) => \A p \in end : p[1] = e
    BY DEF fork, Alone
  <2>2. /\ (\E n \in Fds : <<e, n>> \in rd) => \A p \in rd : p[1] = e
        /\ (\E n \in Fds : <<e, n>> \in wr) => \A p \in wr : p[1] = e
    BY <2>1
  <2> QED BY <2>2
<1>6. Shapes'
  BY <1>1, <1>2 DEF SharingInv, Shapes
<1>7. OneEnd' /\ Covered' /\ Unborn'
  BY <1>1, <1>2 DEF SharingInv, OneEnd, Covered, Unborn, Open
<1>8. Still'
  BY <1>1, <1>2, <1>3 DEF SharingInv, Still
<1>9. Parents'
  BY <1>2, <1>4 DEF SharingInv, Parents
<1>10. OneParent'
  BY <1>2, <1>4 DEF SharingInv, OneParent
<1>11. Copies'
  BY <1>1, <1>2, <1>3, <1>4 DEF SharingInv, Copies
<1>12. Apart'
  BY <1>1, <1>2, <1>4, <1>5 DEF SharingInv, Apart
<1>13. Locals'
  BY <1>1, <1>2 DEF SharingInv, Locals, Open, Using
<1> QED BY <1>6, <1>7, <1>8, <1>9, <1>10, <1>11, <1>12, <1>13 DEF SharingInv

LEMMA DuppageFdStep ==
  ASSUME SharingInv, NEW e \in Envs, duppage_fd(e)
  PROVE  SharingInv'
<1> DEFINE c == frame[e].child
<1>1. PICK n \in Fds : rd' = Share(rd, <<e, n>>, <<c, n>>) /\ wr' = Share(wr, <<e, n>>, <<c, n>>)
  BY DEF duppage_fd, Missing
<1>2. At(e, "fork") /\ UNCHANGED <<data, state, pc, frame>>
  BY DEF duppage_fd
<1>3. c \in Envs /\ c # e /\ state[c] = "embryo"
  BY <1>2 DEF At, SharingInv, Copies
<1>4. /\ \A m \in Fds : /\ <<c, m>> \in rd => <<e, m>> \in rd
                        /\ <<c, m>> \in wr => <<e, m>> \in wr
      /\ \A k, m \in Fds, d \in Envs :
             /\ <<e, k>> \in rd /\ <<d, m>> \in rd => d = e \/ d = c
             /\ <<e, k>> \in wr /\ <<d, m>> \in wr => d = e \/ d = c
      /\ \A d \in Envs : At(d, "fork") /\ frame[d].child = c => d = e
  BY <1>2 DEF SharingInv, Copies, Apart, OneParent
<1> HIDE DEF c
<1>5. \A d \in Envs : At(d, "fork")' <=> At(d, "fork")
  BY <1>2 DEF At
<1>6. Shapes'
  BY <1>1, <1>2, <1>3 DEF SharingInv, Shapes, Share
<1>7. OneEnd'
  BY <1>1, <1>3, <1>4 DEF SharingInv, OneEnd, Share
<1>8. Covered' /\ Unborn' /\ Still'
  BY <1>1, <1>2, <1>3 DEF SharingInv, Covered, Unborn, Still, Open, Share
<1>9. Parents' /\ OneParent'
  BY <1>2, <1>5 DEF SharingInv, Parents, OneParent
<1>10. Copies'
  <2> SUFFICES ASSUME NEW d \in Envs, At(d, "fork")
               PROVE  /\ frame[d].child \in Envs /\ state[frame[d].child] = "embryo"
                      /\ \A m \in Fds :
                           /\ <<frame[d].child, m>> \in rd' => <<d, m>> \in rd'
                           /\ <<frame[d].child, m>> \in wr' => <<d, m>> \in wr'
                           /\ <<frame[d].child, m>> \in data => <<d, m>> \in data
    BY <1>2, <1>5 DEF Copies
  <2>1. /\ frame[d].child \in Envs /\ state[frame[d].child] = "embryo"
        /\ \A m \in Fds : /\ <<frame[d].child, m>> \in rd => <<d, m>> \in rd
                          /\ <<frame[d].child, m>> \in wr => <<d, m>> \in wr
                          /\ <<frame[d].child, m>> \in data => <<d, m>> \in data
    BY DEF SharingInv, Copies
  <2> QED BY <1>1, <1>3, <1>4, <2>1 DEF Share
<1>11. Apart'
  <2> SUFFICES ASSUME NEW d \in Envs, At(d, "fork"), NEW k \in Fds, NEW m \in Fds, NEW b \in Envs
               PROVE  /\ <<d, k>> \in rd' /\ <<b, m>> \in rd' => b = d \/ b = frame[d].child
                      /\ <<d, k>> \in wr' /\ <<b, m>> \in wr' => b = d \/ b = frame[d].child
    BY <1>2, <1>5 DEF Apart
  <2>1. state[d] = "running" /\ d # c
    BY <1>3 DEF At
  <2>2. \A i, j \in Fds, a \in Envs :
             /\ <<d, i>> \in rd /\ <<a, j>> \in rd => a = d \/ a = frame[d].child
             /\ <<d, i>> \in wr /\ <<a, j>> \in wr => a = d \/ a = frame[d].child
    BY DEF SharingInv, Apart
  <2>3. e # frame[d].child
    BY <1>2 DEF SharingInv, Copies, At
  <2>4. CASE d = e
    BY <1>1, <1>4, <2>1, <2>4 DEF c, Share
  <2>5. CASE d # e
    BY <1>1, <2>1, <2>2, <2>3, <2>5 DEF Share
  <2> QED BY <2>4, <2>5
<1>12. Locals'
  BY <1>1, <1>2, <1>3 DEF SharingInv, Locals, Still, Open, Using, Share
<1> QED BY <1>6, <1>7, <1>8, <1>9, <1>10, <1>11, <1>12 DEF SharingInv

LEMMA DuppageDataStep ==
  ASSUME SharingInv, NEW e \in Envs, duppage_data(e)
  PROVE  SharingInv'
<1> DEFINE c == frame[e].child
<1>1. PICK n \in Fds : <<e, n>> \in data /\ data' = data \cup {<<c, n>>}
  BY DEF duppage_data, Missing
<1>2. At(e, "fork") /\ UNCHANGED <<rd, wr, state, pc, frame>>
  BY DEF duppage_data
<1>3. c \in Envs /\ c # e /\ state[c] = "embryo"
  BY <1>2 DEF At, SharingInv, Copies
<1>4. \A d \in Envs : At(d, "fork") /\ frame[d].child = c => d = e
  BY <1>2 DEF SharingInv, OneParent
<1> HIDE DEF c
<1>5. \A d \in Envs : At(d, "fork")' <=> At(d, "fork")
  BY <1>2 DEF At
<1>6. Shapes'
  BY <1>1, <1>2, <1>3 DEF SharingInv, Shapes
<1>7. OneEnd' /\ Covered' /\ Unborn' /\ Still'
  BY <1>1, <1>2, <1>3 DEF SharingInv, OneEnd, Covered, Unborn, Still, Open
<1>8. Parents' /\ OneParent' /\ Apart'
  BY <1>2, <1>5 DEF SharingInv, Parents, OneParent, Apart
<1>9. Copies'
  BY <1>1, <1>2, <1>4, <1>5 DEF SharingInv, Copies
<1>10. Locals'
  BY <1>1, <1>2 DEF SharingInv, Locals, Open
<1> QED BY <1>6, <1>7, <1>8, <1>9, <1>10 DEF SharingInv

LEMMA Fork2Step ==
  ASSUME SharingInv, NEW e \in Envs, fork_2(e)
  PROVE  SharingInv'
<1> DEFINE c == frame[e].child
<1>1. /\ At(e, "fork") /\ UNCHANGED <<rd, wr, data>> /\ state' = [state EXCEPT ![c] = "running"]
      /\ Goto(e, "idle", Idle)
      /\ \A n \in Fds : <<e, n>> \in data => <<c, n>> \in data
  BY DEF fork_2, Missing, pages
<1>2. /\ c \in Envs /\ c # e /\ state[c] = "embryo" /\ state[e] = "running" /\ pc[c] = "idle"
      /\ \A n \in Fds : /\ <<c, n>> \in rd => <<e, n>> \in rd
                        /\ <<c, n>> \in wr => <<e, n>> \in wr
      /\ \A d \in Envs : At(d, "fork") /\ frame[d].child = c => d = e
  BY <1>1 DEF At, SharingInv, Copies, OneParent, Still
<1> HIDE DEF c
<1>3. /\ DOMAIN pc' = Envs /\ DOMAIN frame' = Envs /\ pc'[e] = "idle" /\ IsFrame(frame'[e])
      /\ \A d \in Envs : d # e => pc'[d] = pc[d] /\ frame'[d] = frame[d]
      /\ state'[c] = "running" /\ \A d \in Envs : d # c => state'[d] = state[d]
  BY <1>1, <1>2, IdleFrame DEF SharingInv, Shapes, Goto
<1>4. \A d \in Envs : /\ At(d, "fork")' <=> At(d, "fork") /\ d # e
                      /\ At(d, "fork") /\ d # e => frame'[d] = frame[d] /\ frame[d].child # c
  BY <1>2, <1>3 DEF At
<1>5. Shapes'
  BY <1>1, <1>2, <1>3 DEF SharingInv, Shapes
<1>6. OneEnd' /\ Covered' /\ Unborn' /\ Still'
  BY <1>1, <1>2, <1>3 DEF SharingInv, OneEnd, Covered, Unborn, Still, Open
<1>7. Parents'
  <2> SUFFICES ASSUME NEW b \in Envs, state'[b] = "embryo"
               PROVE  \E d \in Envs : At(d, "fork")' /\ frame'[d].child = b
    BY DEF Parents
  <2>1. b # c /\ state[b] = "embryo"
    BY <1>3
  <2>2. PICK d \in Envs : At(d, "fork") /\ frame[d].child = b
    BY <2>1 DEF SharingInv, Parents
  <2>3. d # e
    BY <2>1, <2>2 DEF c
  <2> QED BY <1>4, <2>2, <2>3
<1>8. OneParent' /\ Apart'
  BY <1>1, <1>4 DEF SharingInv, OneParent, Apart
<1>9. Copies'
  BY <1>1, <1>3, <1>4 DEF SharingInv, Copies
<1>10. Locals'
  BY <1>1, <1>3 DEF SharingInv, Locals, Open, Using
<1> QED BY <1>5, <1>6, <1>7, <1>8, <1>9, <1>10 DEF SharingInv

----------------------------------------------------------------------------
(* The steps of _pipe_is_closed, pipe_read and pipe_write map nothing: one *)
(* env goes on with the same fd. *)
Quiet(e) ==
  /\ state[e] = "running" /\ pc[e] # "fork" /\ UNCHANGED <<rd, wr, data, state>>
  /\ \E label \in Using \cup {"idle"} : \E f :
       /\ IsFrame(f) /\ Goto(e, label, f)
       /\ label # "map2"
       /\ label \in Using => f.fd \in Fds /\ Open(e, f.fd)

LEMMA QuietCalls ==
  ASSUME SharingInv, NEW e \in Envs,
         \/ \E n \in Fds : pipe_is_closed(e, n)
         \/ \E n \in Fds, k \in 1..MaxBytes : pipe_read(e, n, k) \/ pipe_write(e, n, k)
  PROVE  Quiet(e)
<1>1. CASE \E n \in Fds : pipe_is_closed(e, n)
  <2>1. PICK n \in Fds : pipe_is_closed(e, n)
    BY <1>1
  <2> DEFINE f == [Idle EXCEPT !.fd = n]
  <2>2. IsFrame(f) /\ f.fd = n
    BY IdleFrame
  <2>3. At(e, "idle") /\ Open(e, n) /\ Goto(e, "fd_ref", f) /\ UNCHANGED <<rd, wr, data, state>>
    BY <2>1 DEF pipe_is_closed, pages
  <2> HIDE DEF f
  <2> QED BY <2>2, <2>3 DEF Quiet, At, Using
<1>2. ASSUME NEW n \in Fds, NEW k \in 1..MaxBytes, pipe_read(e, n, k) PROVE Quiet(e)
  <2> DEFINE f == [Idle EXCEPT !.fd = n, !.left = k, !.ret = "read"]
  <2>2. IsFrame(f) /\ f.fd = n
    BY IdleFrame
  <2>3. At(e, "idle") /\ Open(e, n) /\ Goto(e, "read", f) /\ UNCHANGED <<rd, wr, data, state>>
    BY <1>2 DEF pipe_read, pages, Open
  <2> HIDE DEF f
  <2> QED BY <2>2, <2>3 DEF Quiet, At, Using
<1>3. ASSUME NEW n \in Fds, NEW k \in 1..MaxBytes, pipe_write(e, n, k) PROVE Quiet(e)
  <2> DEFINE f == [Idle EXCEPT !.fd = n, !.left = k, !.ret = "write"]
  <2>2. IsFrame(f) /\ f.fd = n
    BY IdleFrame
  <2>3. At(e, "idle") /\ Open(e, n) /\ Goto(e, "write", f) /\ UNCHANGED <<rd, wr, data, state>>
    BY <1>3 DEF pipe_write, pages, Open
  <2> HIDE DEF f
  <2> QED BY <2>2, <2>3 DEF Quiet, At, Using
<1> QED BY <1>1, <1>2, <1>3

Looks(e) == read_runs(e) \/ read_fd_ref(e) \/ read_pipe_ref(e) \/ recheck(e)
Transfers(e) == read_test(e) \/ read_inc(e) \/ write_test(e) \/ write_inc(e)

LEMMA QuietWork ==
  ASSUME SharingInv, NEW e \in Envs, Looks(e) \/ Transfers(e)
  PROVE  Quiet(e)
<1> DEFINE g == frame[e]
<1>1. /\ state[e] = "running" /\ UNCHANGED <<rd, wr, data, state>>
      /\ pc[e] \in Using \ {"map2"}
  BY DEF Looks, Transfers, read_runs, read_fd_ref, read_pipe_ref, recheck, read_test, read_inc,
         write_test, write_inc, At, pages, Using
<1>2. IsFrame(g) /\ g.fd \in Fds /\ Open(e, g.fd) /\ IsFrame(Idle)
  BY <1>1, IdleFrame DEF SharingInv, Shapes, Locals
<1>3. \E label \in {"idle", "runs", "fd_ref", "pipe_ref", "recheck", "read", "read_inc", "write", "write_inc"} :
        \/ label = "idle" /\ Goto(e, label, Idle)
        \/ \E f : IsFrame(f) /\ f.fd = g.fd /\ Goto(e, label, f)
  <2>1. CASE Looks(e)
    <3>1. IsFrame(Cleared(e)) /\ Cleared(e).fd = g.fd
      BY <1>2, ClearedFrame DEF Cleared
    <3>2. ASSUME read_runs(e) PROVE Goto(e, "fd_ref", g)
      BY <3>2 DEF read_runs
    <3>3. ASSUME read_fd_ref(e) PROVE \E f : IsFrame(f) /\ f.fd = g.fd /\ Goto(e, "pipe_ref", f)
      BY <1>2, <3>3, FrameUpdates DEF read_fd_ref
    <3>4. ASSUME read_pipe_ref(e) PROVE \E f : IsFrame(f) /\ f.fd = g.fd /\ Goto(e, "recheck", f)
      BY <1>2, <3>4, FrameUpdates DEF read_pipe_ref
    <3>5. ASSUME recheck(e)
          PROVE  \/ Goto(e, "runs", Cleared(e)) \/ Goto(e, "idle", Idle) \/ Goto(e, g.ret, Cleared(e))
      BY <3>5 DEF recheck, Answer
    <3>6. g.ret \in {"idle", "read", "write"}
      BY <1>2 DEF IsFrame
    <3> HIDE DEF g
    <3> QED BY <1>2, <2>1, <3>1, <3>2, <3>3, <3>4, <3>5, <3>6 DEF Looks
  <2>2. CASE Transfers(e)
    <3>1. ASSUME NEW label, Moved(e, label)
          PROVE  Goto(e, "idle", Idle) \/ \E f : IsFrame(f) /\ f.fd = g.fd /\ Goto(e, label, f)
      BY <1>2, <3>1, MovedFrame DEF Moved
    <3>2. ASSUME read_test(e)
          PROVE  \/ Goto(e, "runs", g)
                 \/ \E f : IsFrame(f) /\ f.fd = g.fd /\ Goto(e, "read_inc", f)
      BY <1>2, <3>2, FrameUpdates DEF read_test
    <3>3. ASSUME write_test(e) PROVE Goto(e, "runs", g) \/ Goto(e, "write_inc", g)
      BY <3>3 DEF write_test
    <3>4. ASSUME read_inc(e) PROVE Moved(e, "read")
      BY <3>4 DEF read_inc
    <3>5. ASSUME write_inc(e) PROVE Moved(e, "write")
      BY <3>5 DEF write_inc
    <3> HIDE DEF g
    <3> QED BY <1>2, <2>2, <3>1, <3>2, <3>3, <3>4, <3>5 DEF Transfers
  <2> QED BY <2>1, <2>2
<1> HIDE DEF g
<1> QED BY <1>1, <1>2, <1>3 DEF Quiet, Using

LEMMA SharingStep ==
  ASSUME SharingInv, ~ForkShared, [Next]_vars
  PROVE  SharingInv'
<1>1. ASSUME NEW e \in Envs, Quiet(e) PROVE SharingInv'
  <2>1. PICK label \in Using \cup {"idle"} : \E f :
          /\ IsFrame(f) /\ Goto(e, label, f)
          /\ label # "map2"
          /\ label \in Using => f.fd \in Fds /\ Open(e, f.fd)
    BY <1>1 DEF Quiet
  <2>2. PICK f : /\ IsFrame(f) /\ Goto(e, label, f)
                 /\ label # "map2"
                 /\ label \in Using => f.fd \in Fds /\ Open(e, f.fd)
    BY <2>1
  <2>3. label \notin {"fork", "map2", "unmap2"}
    BY <2>1, <2>2 DEF Using
  <2> QED BY <1>1, <2>2, <2>3, QuietStep DEF Quiet
<1>2. ASSUME NEW e \in Envs, Call(e) PROVE SharingInv'
  <2>1. \/ \E n \in Fds : close(e, n)
        \/ \E n, to \in Fds : dup(e, n, to)
        \/ \E c \in Envs : fork(e, c)
        \/ \E n \in Fds : pipe_is_closed(e, n)
        \/ \E n \in Fds, k \in 1..MaxBytes : pipe_read(e, n, k) \/ pipe_write(e, n, k)
    BY <1>2 DEF Call
  <2> QED BY <1>1, <2>1, CloseStep, DupStep, ForkStep, QuietCalls
<1>3. ASSUME NEW e \in Envs, Work(e) PROVE SharingInv'
  BY <1>1, <1>3, Close2Step, Dup2Step, DuppageFdStep, DuppageDataStep, Fork2Step, QuietWork
     DEF Work, Looks, Transfers
<1>4. ASSUME UNCHANGED vars PROVE SharingInv'
  BY <1>4 DEF vars, pages, SharingInv, Shapes, OneEnd, Covered, Unborn, Still, Parents, Copies, Apart,
              OneParent, Locals, At, Open
<1> QED BY <1>2, <1>3, <1>4 DEF Next

----------------------------------------------------------------------------
(* env_runs: when e finds that it has not changed, nothing has since e     *)
(* began to count.                                                         *)
LEMMA CountedStep ==
  ASSUME SharingInv, Counted, [Next]_vars
  PROVE  Counted'
<1> SUFFICES ASSUME NEW e \in Envs, fresh' = e
             PROVE  /\ pc'[e] = "pipe_ref" => frame'[e].fd_ref = Cardinality(End(e)')
                    /\ pc'[e] = "recheck" /\ frame'[e].closed =>
                         Cardinality(End(e)') = Cardinality(data')
  BY DEF Counted
<1>1. DOMAIN pc = Envs /\ DOMAIN frame = Envs /\ e # None /\ IsFrame(frame[e])
  BY PipeAssumption DEF SharingInv, Shapes
<1>2. ASSUME NEW label, NEW f, Goto(e, label, f) PROVE pc'[e] = label /\ frame'[e] = f
  BY <1>1, <1>2 DEF Goto
<1>3. ASSUME NEW label, NEW f, Goto(e, label, f), label \notin {"pipe_ref", "recheck"}
      PROVE  pc'[e] \notin {"pipe_ref", "recheck"}
  BY <1>2, <1>3
<1>4. CASE UNCHANGED vars
  BY <1>4 DEF vars, pages, Counted, End
<1>5. ASSUME NEW d \in Envs, d # e, Call(d) \/ Work(d) PROVE FALSE
  BY <1>1, <1>5 DEF Call, Work, Runs, close, dup, fork, pipe_is_closed, pipe_read, pipe_write,
     close_2, dup_2, duppage_fd, duppage_data, fork_2, read_runs, read_fd_ref, read_pipe_ref,
     recheck, read_test, read_inc, write_test, write_inc
<1>6. CASE Call(e)
  <2>1. \E label \in {"unmap2", "map2", "fork", "fd_ref", "read", "write"} : \E f : Goto(e, label, f)
    <3>1. \/ \E n \in Fds : close(e, n)
          \/ \E n, to \in Fds : dup(e, n, to)
          \/ \E c \in Envs : fork(e, c)
          \/ \E n \in Fds : pipe_is_closed(e, n)
          \/ \E n \in Fds, k \in 1..MaxBytes : pipe_read(e, n, k)
          \/ \E n \in Fds, k \in 1..MaxBytes : pipe_write(e, n, k)
      BY <1>6 DEF Call
    <3>2. ASSUME NEW n \in Fds, close(e, n) PROVE \E f : Goto(e, "unmap2", f)
      BY <3>2 DEF close
    <3>3. ASSUME NEW n \in Fds, NEW to \in Fds, dup(e, n, to) PROVE \E f : Goto(e, "map2", f)
      BY <3>3 DEF dup
    <3>4. ASSUME NEW c \in Envs, fork(e, c) PROVE \E f : Goto(e, "fork", f)
      BY <3>4 DEF fork
    <3>5. ASSUME NEW n \in Fds, pipe_is_closed(e, n) PROVE \E f : Goto(e, "fd_ref", f)
      BY <3>5 DEF pipe_is_closed
    <3>6. ASSUME NEW n \in Fds, NEW k \in 1..MaxBytes, pipe_read(e, n, k) PROVE \E f : Goto(e, "read", f)
      BY <3>6 DEF pipe_read
    <3>7. ASSUME NEW n \in Fds, NEW k \in 1..MaxBytes, pipe_write(e, n, k) PROVE \E f : Goto(e, "write", f)
      BY <3>7 DEF pipe_write
    <3> QED BY <3>1, <3>2, <3>3, <3>4, <3>5, <3>6, <3>7
  <2>2. pc'[e] \notin {"pipe_ref", "recheck"}
    BY <1>3, <2>1
  <2> QED BY <2>2
<1>7. CASE read_fd_ref(e)
  <2>1. PICK f : f = [frame[e] EXCEPT !.fd_ref = Cardinality(End(e))] /\ Goto(e, "pipe_ref", f)
    BY <1>7 DEF read_fd_ref
  <2>2. f.fd = frame[e].fd /\ f.fd_ref = Cardinality(End(e))
    BY <1>1, <2>1, FrameUpdates
  <2>3. pc'[e] = "pipe_ref" /\ frame'[e] = f
    BY <1>2, <2>1
  <2>4. End(e)' = End(e)
    BY <1>7, <2>2, <2>3 DEF read_fd_ref, pages, End
  <2> QED BY <2>2, <2>3, <2>4
<1>8. CASE read_pipe_ref(e)
  <2>1. PICK f : f = [frame[e] EXCEPT !.closed = Verdict(e)] /\ Goto(e, "recheck", f)
    BY <1>8 DEF read_pipe_ref
  <2>2. f.fd = frame[e].fd /\ f.closed = Verdict(e)
    BY <1>1, <2>1, FrameUpdates
  <2>3. pc'[e] = "recheck" /\ frame'[e] = f
    BY <1>2, <2>1
  <2>4. End(e)' = End(e) /\ data' = data
    BY <1>8, <2>2, <2>3 DEF read_pipe_ref, pages, End
  <2>5. frame[e].fd_ref = Cardinality(End(e))
    BY <1>1, <1>8 DEF read_pipe_ref, Runs, At, Counted
  <2> QED BY <2>2, <2>3, <2>4, <2>5 DEF Verdict
<1>9. CASE recheck(e)
  <2>1. frame[e].ret \notin {"pipe_ref", "recheck"}
    BY <1>1 DEF IsFrame
  <2>2. pc'[e] \notin {"pipe_ref", "recheck"}
    BY <1>3, <1>9, <2>1 DEF recheck, Answer
  <2> QED BY <2>2
<1>10. CASE \/ close_2(e) \/ dup_2(e) \/ fork_2(e) \/ read_runs(e) \/ Transfers(e)
  <2>1. pc'[e] \notin {"pipe_ref", "recheck"}
    BY <1>3, <1>10 DEF close_2, dup_2, fork_2, read_runs, Transfers, read_test, read_inc,
                       write_test, write_inc, Moved
  <2> QED BY <2>1
<1>11. CASE duppage_fd(e) \/ duppage_data(e)
  BY <1>11 DEF duppage_fd, duppage_data, At
<1> QED BY <1>4, <1>5, <1>6, <1>7, <1>8, <1>9, <1>10, <1>11 DEF Next, Work, Transfers

(* Equal counts: the data page is mapped for this end alone. *)
LEMMA EqualCounts ==
  ASSUME SharingInv, NEW e \in Envs, At(e, "recheck"), Cardinality(End(e)) = Cardinality(data)
  PROVE  rd = {} \/ wr = {}
<1> DEFINE end == End(e)
           n == frame[e].fd
<1>1. state[e] = "running" /\ pc[e] = "recheck" /\ n \in Fds /\ <<e, n>> \in end /\ end \in {rd, wr}
  BY DEF At, SharingInv, Locals, Using, Open, End
<1>2. ASSUME NEW d \in Envs, NEW m \in Fds, <<d, m>> \in rd \cup wr, <<d, m>> \notin data
      PROVE  \E p \in Envs : At(p, "fork") /\ frame[p].child = d
  <2>1. state[d] \notin {"running", "unused"}
    BY <1>2 DEF SharingInv, Covered, Unborn, Open
  <2> QED BY <2>1 DEF SharingInv, Parents, Shapes
<1>3. end \subseteq data
  <2> SUFFICES ASSUME NEW d \in Envs, NEW m \in Fds, <<d, m>> \in end, <<d, m>> \notin data
               PROVE  FALSE
    BY <1>1 DEF SharingInv, Shapes
  <2>1. PICK p \in Envs : At(p, "fork") /\ frame[p].child = d
    BY <1>1, <1>2
  <2>2. <<p, m>> \in end
    BY <1>1, <2>1 DEF SharingInv, Copies
  <2>3. e = p \/ e = d
    BY <1>1, <2>1, <2>2 DEF SharingInv, Apart
  <2>4. state[d] = "embryo" /\ pc[p] = "fork"
    BY <2>1 DEF SharingInv, Copies, At
  <2> QED BY <1>1, <2>3, <2>4
<1>4. end = data
  <2>1. IsFiniteSet(Envs \X Fds)
    <3>1. IsFiniteSet(Envs) /\ IsFiniteSet(Fds)
      BY PipeAssumption, FS_Interval DEF Fds
    <3> QED BY <3>1, FS_Product
  <2>2. IsFiniteSet(data)
    BY <2>1, FS_Subset DEF SharingInv, Shapes
  <2> HIDE DEF end
  <2>3. Cardinality(data) = Cardinality(end) => data = end
    BY <1>3, <2>2, FS_Subset
  <2> QED BY <2>3 DEF end
<1>5. ASSUME NEW other \in {rd, wr}, other # end PROVE other = {}
  <2> SUFFICES ASSUME NEW d \in Envs, NEW m \in Fds, <<d, m>> \in other PROVE FALSE
    BY DEF SharingInv, Shapes
  <2>1. \A b \in Envs, k \in Fds : ~(<<b, k>> \in other /\ <<b, k>> \in end)
    <3>1. {other, end} = {rd, wr}
      BY <1>1, <1>5
    <3>2. (other = rd /\ end = wr) \/ (other = wr /\ end = rd)
      BY <1>5, <3>1
    <3> HIDE DEF end
    <3> QED BY <3>2 DEF SharingInv, OneEnd
  <2>2. <<d, m>> \notin data
    BY <1>4, <2>1
  <2>3. PICK p \in Envs : At(p, "fork") /\ frame[p].child = d
    BY <1>2, <2>2
  <2>4. <<p, m>> \in other
    BY <2>3 DEF SharingInv, Copies
  <2>5. <<p, m>> \in data
    BY <2>3, <2>4 DEF SharingInv, Covered, At, Open
  <2> QED BY <1>4, <2>1, <2>4, <2>5
<1>6. CASE rd = wr
  BY <1>1, <1>6 DEF SharingInv, OneEnd
<1> HIDE DEF end
<1> QED BY <1>1, <1>5, <1>6

(* pipe.c:87: whatever dup, close and fork are in the middle of, in        *)
(* however many envs, _pipe_is_closed says 1 only when the pipe is closed. *)
THEOREM ClosedMeansClosed ==
  ASSUME ~ForkShared
  PROVE  Spec => []ClosedIsTrue
<1>1. Init => PipeInv
  BY PipeInit
<1>2. PipeInv /\ [Next]_vars => PipeInv'
  BY SharingStep, CountedStep DEF PipeInv
<1>3. PipeInv => ClosedIsTrue
  <2> SUFFICES ASSUME PipeInv, NEW e \in Envs, At(e, "recheck"), ~Interrupted(e), frame[e].closed
               PROVE  rd = {} \/ wr = {}
    BY DEF ClosedIsTrue
  <2>1. Cardinality(End(e)) = Cardinality(data)
    BY DEF PipeInv, Counted, Interrupted, At
  <2> QED BY <2>1, EqualCounts DEF PipeInv
<1> QED BY <1>1, <1>2, <1>3, PTL DEF Spec

----------------------------------------------------------------------------
(* Division with remainder.                                                *)

LEMMA DivMod ==
  ASSUME NEW x \in Int, NEW n \in Nat \ {0}
  PROVE  /\ x % n \in 0..n-1 /\ x \div n \in Int
         /\ x = n * (x \div n) + (x % n)
OBVIOUS

LEMMA Times ==
  ASSUME NEW n \in Nat \ {0}, NEW d \in Int
  PROVE  n * d \in Int /\ (d >= 1 => n * d >= n) /\ (d <= -1 => n * d <= -n)
OBVIOUS

LEMMA ModUnique ==
  ASSUME NEW n \in Nat \ {0}, NEW q \in Int, NEW r \in 0..n-1, NEW x \in Int, x = n * q + r
  PROVE  x % n = r
<1> DEFINE p == x \div n
           s == x % n
           d == p - q
<1>1. s \in 0..n-1 /\ p \in Int /\ x = n * p + s
  BY DivMod
<1> HIDE DEF p, s
<1>2. d \in Int /\ n * d = n * p - n * q
  BY <1>1
<1>3. n * d = r - s
  BY <1>1, <1>2
<1>4. d < 1 /\ d > -1
  <2>1. n * d < n /\ n * d > -n
    BY <1>1, <1>3
  <2> HIDE DEF d
  <2> QED BY <1>2, <2>1, Times
<1>5. d = 0
  BY <1>2, <1>4
<1>6. n * d = 0
  BY <1>5
<1>7. r = s
  BY <1>1, <1>3, <1>6
<1> QED BY <1>7 DEF s

LEMMA ModShift ==
  ASSUME NEW n \in Nat \ {0}, NEW x \in Int, NEW q \in Int
  PROVE  (x + n * q) % n = x % n
<1> DEFINE p == x \div n
           r == x % n
<1>1. r \in 0..n-1 /\ p \in Int /\ x = n * p + r
  BY DivMod
<1> HIDE DEF p, r
<1>2. x + n * q = n * (p + q) + r /\ p + q \in Int /\ x + n * q \in Int
  BY <1>1
<1>3. (x + n * q) % n = r
  BY <1>1, <1>2, ModUnique
<1> QED BY <1>3 DEF r
LEMMA ModSmall ==
  ASSUME NEW n \in Nat \ {0}, NEW r \in 0..n-1
  PROVE  r % n = r
<1>1. r = n * 0 + r /\ r \in Int
  OBVIOUS
<1> QED BY <1>1, ModUnique

(* The positions count modulo Word, the slots of p_buf modulo Size, which  *)
(* divides Word.                                                           *)
LEMMA SizeWord == Size \in Nat \ {0} /\ Word \in Nat \ {0} /\ Size < Word
BY PipeAssumption

LEMMA WordMultiple == \E m \in Int : Word = Size * m
<1>1. Word = Size * (Word \div Size) + (Word % Size) /\ Word \div Size \in Int
  BY SizeWord, DivMod
<1>2. Word % Size = 0
  BY PipeAssumption
<1> DEFINE m == Word \div Size
<1>3. m \in Int /\ Word = Size * m + 0
  BY <1>1, <1>2
<1> HIDE DEF m
<1>4. Word = Size * m
  BY <1>3, SizeWord
<1> QED BY <1>3, <1>4

LEMMA SlotOfPosition ==
  ASSUME NEW x \in Nat, NEW j \in Int
  PROVE  ((x % Word) + j) % Size = (x + j) % Size
<1>1. PICK m \in Int : Word = Size * m
  BY WordMultiple
<1> DEFINE q == x \div Word
           r == x % Word
<1>2. r \in 0..Word - 1 /\ q \in Int /\ x = Word * q + r
  BY SizeWord, DivMod
<1> HIDE DEF q, r
<1>3. Word * q = Size * (m * q) /\ m * q \in Int
  BY <1>1, <1>2, SizeWord
<1>4. r + j \in Int /\ x + j = (r + j) + Size * (m * q)
  BY <1>2, <1>3, SizeWord
<1>5. (x + j) % Size = (r + j) % Size
  <2> DEFINE y == r + j  k == m * q
  <2>1. y \in Int /\ k \in Int /\ x + j = y + Size * k
    BY <1>3, <1>4
  <2> HIDE DEF y, k
  <2>2. (x + j) % Size = y % Size
    BY <2>1, SizeWord, ModShift
  <2> QED BY <2>2 DEF y
<1> QED BY <1>5 DEF r

LEMMA NextPosition ==
  ASSUME NEW x \in Nat
  PROVE  ((x % Word) + 1) % Word = (x + 1) % Word
<1> DEFINE q == x \div Word
           r == x % Word
           y == r + 1
<1>1. r \in 0..Word - 1 /\ q \in Int /\ x = Word * q + r
  BY SizeWord, DivMod
<1> HIDE DEF q, r
<1>2. y \in Int /\ x + 1 = y + Word * q
  BY <1>1, SizeWord
<1> HIDE DEF y
<1>3. (x + 1) % Word = y % Word
  BY <1>1, <1>2, SizeWord, ModShift
<1> QED BY <1>3 DEF y, r

LEMMA GapOfPositions ==
  ASSUME NEW a \in Nat, NEW b \in Nat, a - b \in 0..Size
  PROVE  ((a % Word) - (b % Word)) % Word = a - b
<1> DEFINE p == a \div Word
           q == b \div Word
           r == a % Word
           s == b % Word
           d == a - b
           y == r - s
           k == p - q
<1>1. /\ r \in 0..Word - 1 /\ p \in Int /\ a = Word * p + r
      /\ s \in 0..Word - 1 /\ q \in Int /\ b = Word * q + s
  BY SizeWord, DivMod
<1> HIDE DEF p, q, r, s
<1>2. k \in Int /\ Word * k = Word * p - Word * q
  BY <1>1, SizeWord
<1>3. y \in Int /\ d = y + Word * k /\ d \in 0..Word - 1
  BY <1>1, <1>2, SizeWord
<1> HIDE DEF d, y, k
<1>4. d % Word = y % Word
  BY <1>2, <1>3, SizeWord, ModShift
<1>5. d % Word = d
  BY <1>3, SizeWord, ModSmall
<1> QED BY <1>4, <1>5 DEF d, y, r, s

LEMMA SlotsApart ==
  ASSUME NEW a \in Nat, NEW b \in Nat, b < a, a - b < Size
  PROVE  a % Size # b % Size
<1> SUFFICES ASSUME a % Size = b % Size PROVE FALSE
  OBVIOUS
<1> DEFINE p == a \div Size
           q == b \div Size
           r == a % Size
           d == p - q
<1>1. r \in 0..Size - 1 /\ p \in Int /\ a = Size * p + r /\ q \in Int /\ b = Size * q + r
  BY SizeWord, DivMod
<1> HIDE DEF p, q, r
<1>2. d \in Int /\ Size * d = Size * p - Size * q
  BY <1>1, SizeWord
<1>3. Size * d = a - b
  BY <1>1, <1>2, SizeWord
<1>4. Size * d < Size /\ Size * d > 0
  BY <1>3
<1> HIDE DEF d
<1>5. d < 1 /\ d > -1
  BY <1>2, <1>4, SizeWord, Times
<1>6. d = 0
  BY <1>2, <1>5
<1>7. Size * d = 0
  BY <1>6, SizeWord
<1> QED BY <1>4, <1>7

----------------------------------------------------------------------------
(* The bytes.  What the calls know of them, with the positions as counts:  *)
(* Len(got) bytes are read and "sent" are written.                         *)

FrameType ==
  [fd : Fds, to : Fds, child : Envs \cup {None}, left : 0..MaxBytes, some : BOOLEAN,
   byte : 0..MaxBytes, ret : {"idle", "read", "write"}, fd_ref : Nat, closed : BOOLEAN]

Points == {"idle", "unmap2", "map2", "fork", "runs", "fd_ref", "pipe_ref", "recheck",
           "read", "read_inc", "write", "write_inc"}

Calls ==
  /\ rd \in Where /\ wr \in Where /\ data \in Where
  /\ state \in [Envs -> {"unused", "embryo", "running"}]
  /\ pc \in [Envs -> Points] /\ frame \in [Envs -> FrameType]
  /\ fresh \in Envs \cup {None}
  /\ \A e \in Envs : pc[e] = "fork" => frame[e].child \in Envs

(* A call in its loop is the one it returns to; one env reads, one writes. *)
Callers ==
  /\ \A e \in Envs : /\ pc[e] \in {"read", "read_inc"} => frame[e].ret = "read"
                     /\ pc[e] \in {"write", "write_inc"} => frame[e].ret = "write"
                     /\ frame[e].ret # "idle" => frame[e].left >= 1
                     /\ frame[e].ret = "write" => sent + frame[e].left <= MaxBytes
  /\ \A d, e \in Envs : frame[d].ret = frame[e].ret /\ frame[e].ret # "idle" => d = e

Positions ==
  /\ got \in Seq(0..MaxBytes) /\ sent \in 0..MaxBytes
  /\ sent - Len(got) \in 0..Size
  /\ p_rpos = Len(got) % Word /\ p_wpos = sent % Word
  /\ p_buf \in [0..Size - 1 -> 0..MaxBytes]

(* What is written and not read is in its slot, and what a call has read   *)
(* or written before it moves the position.                                *)
Contents == \A k \in Nat : Len(got) <= k /\ k < sent => p_buf[k % Size] = k + 1

InHand ==
  \A e \in Envs :
    /\ pc[e] = "read_inc" => Len(got) < sent /\ frame[e].byte = Len(got) + 1
    /\ pc[e] = "write_inc" => sent - Len(got) < Size /\ p_buf[sent % Size] = sent + 1

BytesInv == Calls /\ Callers /\ Positions /\ Contents /\ InHand

(* A call of e goes on at "label" with the locals f.                       *)
Goes(e, label, f) ==
  /\ Goto(e, label, f) /\ label \in Points /\ f \in FrameType
  /\ label = "fork" => f.child \in Envs
  /\ label \in {"read", "read_inc"} => f.ret = "read"
  /\ label \in {"write", "write_inc"} => f.ret = "write"
  /\ f.ret # "idle" => f.left >= 1 /\ \A d \in Envs : d # e => frame[d].ret # f.ret
  /\ f.ret = "write" => sent' + f.left <= MaxBytes

LEMMA CallersStep ==
  ASSUME Calls, Callers, NEW e \in Envs, NEW label, NEW f, Goes(e, label, f),
         rd' \in Where, wr' \in Where, data' \in Where,
         state' \in [Envs -> {"unused", "embryo", "running"}],
         fresh' \in Envs \cup {None},
         sent' = sent \/ frame[e].ret = "write"
  PROVE  /\ Calls' /\ Callers' /\ pc'[e] = label /\ frame'[e] = f
         /\ \A d \in Envs : d # e => pc'[d] = pc[d] /\ frame'[d] = frame[d]
<1>1. /\ pc' \in [Envs -> Points] /\ frame' \in [Envs -> FrameType]
      /\ pc'[e] = label /\ frame'[e] = f
      /\ \A d \in Envs : d # e => pc'[d] = pc[d] /\ frame'[d] = frame[d]
  BY DEF Goes, Goto, Calls
<1>2. Calls'
  BY <1>1 DEF Calls, Goes
<1>3. ASSUME NEW d \in Envs
      PROVE  /\ pc'[d] \in {"read", "read_inc"} => frame'[d].ret = "read"
             /\ pc'[d] \in {"write", "write_inc"} => frame'[d].ret = "write"
             /\ frame'[d].ret # "idle" => frame'[d].left >= 1
             /\ frame'[d].ret = "write" => sent' + frame'[d].left <= MaxBytes
  <2>1. CASE d = e
    BY <1>1, <2>1 DEF Goes
  <2>2. CASE d # e
    <3>1. frame[d].ret = "write" => sent' = sent
      BY <2>2 DEF Callers
    <3> QED BY <1>1, <2>2, <3>1 DEF Callers
  <2> QED BY <2>1, <2>2
<1>4. ASSUME NEW c \in Envs, NEW d \in Envs, frame'[c].ret = frame'[d].ret, frame'[d].ret # "idle"
      PROVE  c = d
  <2>1. CASE c = e
    BY <1>1, <1>4, <2>1 DEF Goes
  <2>2. CASE d = e
    BY <1>1, <1>4, <2>2 DEF Goes
  <2>3. CASE c # e /\ d # e
    BY <1>1, <1>4, <2>3 DEF Callers
  <2> QED BY <2>1, <2>2, <2>3
<1>5. Callers'
  BY <1>3, <1>4 DEF Callers
<1> QED BY <1>1, <1>2, <1>5

LEMMA Frames ==
  /\ Idle \in FrameType /\ Idle.ret = "idle"
  /\ \A n \in Fds : [Idle EXCEPT !.fd = n] \in FrameType /\ [Idle EXCEPT !.fd = n].ret = "idle"
  /\ \A c \in Envs : /\ [Idle EXCEPT !.child = c] \in FrameType
                     /\ [Idle EXCEPT !.child = c].ret = "idle" /\ [Idle EXCEPT !.child = c].child = c
<1>1. 0 \in Fds /\ 0 \in Nat /\ 0 \in 0..MaxBytes
  BY PipeAssumption DEF Fds
<1>2. Idle \in FrameType /\ Idle.ret = "idle"
  BY <1>1 DEF Idle, FrameType
<1>3. ASSUME NEW n \in Fds
      PROVE  [Idle EXCEPT !.fd = n] \in FrameType /\ [Idle EXCEPT !.fd = n].ret = "idle"
  BY <1>2 DEF FrameType
<1>4. ASSUME NEW c \in Envs
      PROVE  /\ [Idle EXCEPT !.child = c] \in FrameType
             /\ [Idle EXCEPT !.child = c].ret = "idle" /\ [Idle EXCEPT !.child = c].child = c
  BY <1>2 DEF FrameType
<1> QED BY <1>2, <1>3, <1>4

LEMMA DupFrame ==
  ASSUME NEW n \in Fds, NEW t \in Fds, NEW f, f = [Idle EXCEPT !.fd = n, !.to = t]
  PROVE  f \in FrameType /\ f.ret = "idle"
BY Frames DEF FrameType

(* The locals that decide about the bytes.                                 *)
SameCall(f, g) == g \in FrameType /\ g.ret = f.ret /\ g.left = f.left

LEMMA FramesKept ==
  ASSUME NEW f \in FrameType
  PROVE  /\ SameCall(f, f)
         /\ \A v \in Nat : SameCall(f, [f EXCEPT !.fd_ref = v])
         /\ \A v \in BOOLEAN : SameCall(f, [f EXCEPT !.closed = v])
         /\ \A v \in 0..MaxBytes : SameCall(f, [f EXCEPT !.byte = v]) /\ [f EXCEPT !.byte = v].byte = v
         /\ SameCall(f, [f EXCEPT !.fd_ref = 0, !.closed = FALSE])
<1>1. ASSUME NEW v \in Nat PROVE SameCall(f, [f EXCEPT !.fd_ref = v])
  BY DEF FrameType, SameCall
<1>2. ASSUME NEW v \in BOOLEAN PROVE SameCall(f, [f EXCEPT !.closed = v])
  BY DEF FrameType, SameCall
<1>3. ASSUME NEW v \in 0..MaxBytes
      PROVE  SameCall(f, [f EXCEPT !.byte = v]) /\ [f EXCEPT !.byte = v].byte = v
  BY DEF FrameType, SameCall
<1>4. SameCall(f, [f EXCEPT !.fd_ref = 0, !.closed = FALSE])
  BY DEF FrameType, SameCall
<1> QED BY <1>1, <1>2, <1>3, <1>4 DEF SameCall

LEMMA OneByteLess ==
  ASSUME NEW f \in FrameType, f.left # 0, f.left # 1,
         NEW g, g = [f EXCEPT !.left = @ - 1, !.some = TRUE, !.byte = 0]
  PROVE  g \in FrameType /\ g.ret = f.ret /\ g.left = f.left - 1 /\ g.left >= 1
<1> DEFINE k == f.left - 1
<1>1. k \in 0..MaxBytes /\ 0 \in 0..MaxBytes /\ k >= 1
  <2>1. f.left \in 0..MaxBytes
    BY DEF FrameType
  <2> QED BY <2>1, PipeAssumption
<1>2. g = [f EXCEPT !.left = k, !.some = TRUE, !.byte = 0]
  OBVIOUS
<1> HIDE DEF k
<1>3. g \in FrameType
  BY <1>1, <1>2 DEF FrameType
<1>4. g.ret = f.ret /\ g.left = k
  BY <1>2 DEF FrameType
<1> QED BY <1>1, <1>3, <1>4 DEF k

LEMMA EndFinite ==
  ASSUME Calls, NEW e \in Envs
  PROVE  Cardinality(End(e)) \in Nat
<1>1. IsFiniteSet(Envs) /\ IsFiniteSet(Fds)
  BY PipeAssumption, FS_Interval DEF Fds
<1>2. IsFiniteSet(Envs \X Fds)
  BY <1>1, FS_Product
<1>3. IsFiniteSet(End(e))
  BY <1>2, FS_Subset DEF Calls, Where, End
<1> QED BY <1>3, FS_CardinalityType

----------------------------------------------------------------------------
(* Steps that leave the bytes alone.                                       *)
Steady(e) ==
  /\ UNCHANGED <<p_rpos, p_wpos, p_buf, sent, got>>
  /\ Calls' /\ Callers'
  /\ \A d \in Envs : d # e => pc'[d] = pc[d] /\ frame'[d] = frame[d]
  /\ pc'[e] # "write_inc"
  /\ pc'[e] = "read_inc" => Len(got) < sent /\ frame'[e].byte = Len(got) + 1

LEMMA SteadyStep ==
  ASSUME BytesInv, NEW e \in Envs, Steady(e)
  PROVE  BytesInv'
<1>1. Positions' /\ Contents'
  BY DEF BytesInv, Steady, Positions, Contents
<1>2. InHand'
  BY DEF BytesInv, Steady, InHand
<1> QED BY <1>1, <1>2 DEF BytesInv, Steady

LEMMA RunsType ==
  ASSUME Calls, NEW e \in Envs, Runs(e) \/ fresh' = e
  PROVE  fresh' \in Envs \cup {None}
BY DEF Runs, Calls

LEMMA SteadyGoes ==
  ASSUME BytesInv, NEW e \in Envs, NEW label, NEW f, Goes(e, label, f), UNCHANGED bytes,
         label # "write_inc", label = "read_inc" => Len(got) < sent /\ f.byte = Len(got) + 1,
         rd' \in Where, wr' \in Where, data' \in Where,
         state' \in [Envs -> {"unused", "embryo", "running"}], Runs(e) \/ fresh' = e
  PROVE  Steady(e)
<1>1. fresh' \in Envs \cup {None} /\ sent' = sent /\ Calls /\ Callers
  BY RunsType DEF BytesInv, bytes
<1>2. /\ Calls' /\ Callers' /\ pc'[e] = label /\ frame'[e] = f
      /\ \A d \in Envs : d # e => pc'[d] = pc[d] /\ frame'[d] = frame[d]
  BY <1>1, CallersStep
<1> QED BY <1>2 DEF Steady, bytes

(* A step of e to a place that is in no transfer.                          *)
LEMMA SteadyIdle ==
  ASSUME BytesInv, NEW e \in Envs, NEW label \in Points, NEW f \in FrameType, Goto(e, label, f),
         f.ret = "idle", label \notin {"read", "read_inc", "write", "write_inc"},
         label = "fork" => f.child \in Envs, UNCHANGED bytes,
         rd' \in Where, wr' \in Where, data' \in Where,
         state' \in [Envs -> {"unused", "embryo", "running"}], Runs(e) \/ fresh' = e
  PROVE  Steady(e)
<1>1. Goes(e, label, f)
  BY DEF Goes
<1> QED BY <1>1, SteadyGoes

(* A step of e within the call it is in.                                   *)
LEMMA SteadyCall ==
  ASSUME BytesInv, NEW e \in Envs, NEW label \in Points, NEW f, Goto(e, label, f), SameCall(frame[e], f),
         label \in {"runs", "fd_ref", "pipe_ref", "recheck"} \/ label = f.ret
           \/ (label = "read_inc" /\ f.ret = "read"),
         UNCHANGED bytes, label = "read_inc" => Len(got) < sent /\ f.byte = Len(got) + 1,
         UNCHANGED <<rd, wr, data, state>>, Runs(e) \/ fresh' = e
  PROVE  Steady(e)
<1>1. frame[e].ret # "idle" => frame[e].left >= 1 /\ \A d \in Envs : d # e => frame[d].ret # frame[e].ret
  BY DEF BytesInv, Callers
<1>2. frame[e].ret = "write" => sent' + frame[e].left <= MaxBytes
  BY DEF BytesInv, Callers, bytes
<1>3. f \in FrameType /\ f.ret = frame[e].ret /\ f.left = frame[e].left
  BY DEF SameCall
<1>4. f.ret \in {"idle", "read", "write"}
  BY <1>3 DEF FrameType
<1>5. Goes(e, label, f)
  BY <1>1, <1>2, <1>3, <1>4 DEF Goes
<1>6. /\ rd' \in Where /\ wr' \in Where /\ data' \in Where
      /\ state' \in [Envs -> {"unused", "embryo", "running"}]
  BY DEF BytesInv, Calls
<1>7. label # "write_inc"
  BY <1>4
<1> QED BY <1>5, <1>6, <1>7, SteadyGoes

LEMMA PageSteps ==
  ASSUME BytesInv, NEW e \in Envs,
         \/ \E n \in Fds : close(e, n)
         \/ \E n, to \in Fds : dup(e, n, to)
         \/ \E c \in Envs : fork(e, c)
         \/ close_2(e) \/ dup_2(e) \/ fork_2(e)
  PROVE  Steady(e)
<1>1. Calls /\ frame[e] \in FrameType
  BY DEF BytesInv, Calls
<1>2. /\ \A n, t \in Fds : <<e, n>> \in Envs \X Fds
      /\ "unmap2" \in Points /\ "map2" \in Points /\ "idle" \in Points /\ "fork" \in Points
  BY DEF Points
<1>3. ASSUME NEW page \in Where, NEW from, NEW at \in Envs \X Fds
      PROVE  Share(page, from, at) \in Where /\ page \ {at} \in Where
  BY DEF Where, Share
<1>4. ASSUME NEW n \in Fds, close(e, n) PROVE Steady(e)
  <2>1. /\ Goto(e, "unmap2", [Idle EXCEPT !.fd = n]) /\ Runs(e) /\ UNCHANGED <<bytes, state>>
        /\ rd' = rd \ {<<e, n>>} /\ wr' = wr \ {<<e, n>>} /\ data' = data
    BY <1>4 DEF close, Unmap, UnmapFd
  <2>2. rd' \in Where /\ wr' \in Where /\ data' \in Where
    BY <1>1, <1>2, <1>3, <2>1 DEF Calls
  <2>3. state' \in [Envs -> {"unused", "embryo", "running"}]
    BY <1>1, <2>1 DEF Calls
  <2> QED BY <1>2, <2>1, <2>2, <2>3, Frames, SteadyIdle
<1>5. ASSUME NEW n \in Fds, NEW to \in Fds, dup(e, n, to) PROVE Steady(e)
  <2>1. /\ Goto(e, "map2", [Idle EXCEPT !.fd = n, !.to = to]) /\ Runs(e) /\ UNCHANGED <<bytes, state>>
        /\ rd' = rd /\ wr' = wr /\ data' = Share(data, <<e, n>>, <<e, to>>)
    BY <1>5 DEF dup, Map, MapData
  <2>2. rd' \in Where /\ wr' \in Where /\ data' \in Where
    BY <1>1, <1>2, <1>3, <2>1 DEF Calls
  <2>3. state' \in [Envs -> {"unused", "embryo", "running"}]
    BY <1>1, <2>1 DEF Calls
  <2>4. PICK f : f = [Idle EXCEPT !.fd = n, !.to = to] /\ Goto(e, "map2", f)
    BY <2>1
  <2>5. f \in FrameType /\ f.ret = "idle"
    BY <2>4, DupFrame
  <2> QED BY <1>2, <2>1, <2>2, <2>3, <2>4, <2>5, SteadyIdle
<1>6. ASSUME NEW c \in Envs, fork(e, c) PROVE Steady(e)
  <2>1. /\ Goto(e, "fork", [Idle EXCEPT !.child = c]) /\ Runs(e) /\ UNCHANGED <<rd, wr, data, bytes>>
        /\ state' = [state EXCEPT ![c] = "embryo"]
    BY <1>6 DEF fork, pages
  <2>2. rd' \in Where /\ wr' \in Where /\ data' \in Where
    BY <1>1, <2>1 DEF Calls
  <2>3. state' \in [Envs -> {"unused", "embryo", "running"}]
    BY <1>1, <2>1 DEF Calls
  <2> DEFINE f == [Idle EXCEPT !.child = c]
  <2>4. f \in FrameType /\ f.ret = "idle" /\ f.child = c /\ Goto(e, "fork", f)
    BY <2>1, Frames, Zenon
  <2> HIDE DEF f
  <2> QED BY <1>2, <2>1, <2>2, <2>3, <2>4, SteadyIdle
<1>7. CASE close_2(e)
  <2>1. /\ Goto(e, "idle", Idle) /\ Runs(e) /\ UNCHANGED <<bytes, state>>
        /\ rd' = rd /\ wr' = wr /\ data' = data \ {<<e, frame[e].fd>>}
    BY <1>7 DEF close_2, Unmap, UnmapData
  <2>2. frame[e].fd \in Fds
    BY <1>1 DEF FrameType
  <2>3. rd' \in Where /\ wr' \in Where /\ data' \in Where
    BY <1>1, <1>2, <1>3, <2>1, <2>2 DEF Calls
  <2>4. state' \in [Envs -> {"unused", "embryo", "running"}]
    BY <1>1, <2>1 DEF Calls
  <2> QED BY <1>2, <2>1, <2>3, <2>4, Frames, SteadyIdle
<1>8. CASE dup_2(e)
  <2>1. /\ Goto(e, "idle", Idle) /\ Runs(e) /\ UNCHANGED <<bytes, state>>
        /\ rd' = Share(rd, <<e, frame[e].fd>>, <<e, frame[e].to>>)
        /\ wr' = Share(wr, <<e, frame[e].fd>>, <<e, frame[e].to>>) /\ data' = data
    BY <1>8 DEF dup_2, Map, MapFd
  <2>2. frame[e].fd \in Fds /\ frame[e].to \in Fds
    BY <1>1 DEF FrameType
  <2>3. rd' \in Where /\ wr' \in Where /\ data' \in Where
    BY <1>1, <1>2, <1>3, <2>1, <2>2 DEF Calls
  <2>4. state' \in [Envs -> {"unused", "embryo", "running"}]
    BY <1>1, <2>1 DEF Calls
  <2> QED BY <1>2, <2>1, <2>3, <2>4, Frames, SteadyIdle
<1>9. CASE fork_2(e)
  <2>1. /\ Goto(e, "idle", Idle) /\ Runs(e) /\ UNCHANGED <<rd, wr, data, bytes>>
        /\ state' = [state EXCEPT ![frame[e].child] = "running"]
    BY <1>9 DEF fork_2, pages
  <2>2. rd' \in Where /\ wr' \in Where /\ data' \in Where
    BY <1>1, <2>1 DEF Calls
  <2>3. state' \in [Envs -> {"unused", "embryo", "running"}]
    BY <1>1, <2>1 DEF Calls
  <2> QED BY <1>2, <2>1, <2>2, <2>3, Frames, SteadyIdle
<1> QED BY <1>4, <1>5, <1>6, <1>7, <1>8, <1>9

(* The copies of fork leave every call where it is.                        *)
LEMMA CopySteps ==
  ASSUME BytesInv, NEW e \in Envs, duppage_fd(e) \/ duppage_data(e)
  PROVE  BytesInv'
<1>1. Calls /\ frame[e].child \in Envs
  BY DEF BytesInv, Calls, duppage_fd, duppage_data, At
<1>2. UNCHANGED <<p_rpos, p_wpos, p_buf, sent, got, state, pc, frame>> /\ Runs(e)
  BY DEF duppage_fd, duppage_data, bytes
<1>3. rd' \in Where /\ wr' \in Where /\ data' \in Where
  <2>1. CASE duppage_fd(e)
    <3>1. PICK n \in Missing(e, rd \cup wr) :
            /\ rd' = Share(rd, <<e, n>>, <<frame[e].child, n>>)
            /\ wr' = Share(wr, <<e, n>>, <<frame[e].child, n>>)
      BY <2>1 DEF duppage_fd
    <3>2. n \in Fds /\ data' = data
      BY <2>1 DEF Missing, duppage_fd
    <3> QED BY <1>1, <3>1, <3>2 DEF Calls, Where, Share
  <2>2. CASE duppage_data(e)
    <3>1. PICK n \in Missing(e, data) : data' = data \cup {<<frame[e].child, n>>}
      BY <2>2 DEF duppage_data
    <3>2. n \in Fds /\ rd' = rd /\ wr' = wr
      BY <2>2 DEF Missing, duppage_data
    <3> QED BY <1>1, <3>1, <3>2 DEF Calls, Where
  <2> QED BY <2>1, <2>2
<1>4. fresh' \in Envs \cup {None}
  BY <1>1, <1>2, RunsType
<1>5. Calls'
  BY <1>1, <1>2, <1>3, <1>4 DEF Calls
<1> QED BY <1>2, <1>5 DEF BytesInv, Callers, Positions, Contents, InHand

LEMMA CallSteps ==
  ASSUME BytesInv, NEW e \in Envs,
         \/ \E n \in Fds : pipe_is_closed(e, n)
         \/ \E n \in Fds, k \in 1..MaxBytes : pipe_read(e, n, k) \/ pipe_write(e, n, k)
  PROVE  Steady(e)
<1>1. /\ rd \in Where /\ wr \in Where /\ data \in Where
      /\ state \in [Envs -> {"unused", "embryo", "running"}]
  BY DEF BytesInv, Calls
<1>2. ASSUME NEW n \in Fds, pipe_is_closed(e, n) PROVE Steady(e)
  <2>1. /\ Goto(e, "fd_ref", [Idle EXCEPT !.fd = n]) /\ fresh' = e
        /\ UNCHANGED <<rd, wr, data, bytes, state>>
    BY <1>2 DEF pipe_is_closed, pages
  <2> DEFINE f == [Idle EXCEPT !.fd = n]
  <2>2. f \in FrameType /\ f.ret = "idle" /\ Goto(e, "fd_ref", f)
    BY <2>1, Frames, Zenon
  <2> HIDE DEF f
  <2>3. "fd_ref" \in Points
    BY DEF Points
  <2> QED BY <1>1, <2>1, <2>2, <2>3, SteadyIdle
<1>3. ASSUME NEW n \in Fds, NEW k \in 1..MaxBytes, NEW r \in {"read", "write"},
             Goto(e, r, [Idle EXCEPT !.fd = n, !.left = k, !.ret = r]), Sole(r),
             r = "write" => sent + k <= MaxBytes,
             UNCHANGED <<rd, wr, data, bytes, state>>, Runs(e)
      PROVE  Steady(e)
  <2>1. PICK f : f = [Idle EXCEPT !.fd = n, !.left = k, !.ret = r] /\ Goto(e, r, f)
    BY <1>3
  <2>2. k \in 0..MaxBytes
    BY PipeAssumption
  <2>3. f \in FrameType /\ f.ret = r /\ f.left = k
    BY <2>1, <2>2, Frames DEF FrameType
  <2>4. r \in Points /\ k >= 1
    BY DEF Points
  <2>5. r = "write" => sent' + k <= MaxBytes
    BY <1>3 DEF bytes
  <2>6. Goes(e, r, f)
    BY <1>3, <2>3, <2>4, <2>5, <2>1 DEF Goes, Sole
  <2> QED BY <1>1, <1>3, <2>6, SteadyGoes
<1>4. ASSUME NEW n \in Fds, NEW k \in 1..MaxBytes, pipe_read(e, n, k) PROVE Steady(e)
  <2>1. /\ Goto(e, "read", [Idle EXCEPT !.fd = n, !.left = k, !.ret = "read"]) /\ Sole("read")
        /\ UNCHANGED <<rd, wr, data, bytes, state>> /\ Runs(e)
    BY <1>4 DEF pipe_read, pages
  <2> QED BY <1>3, <2>1
<1>5. ASSUME NEW n \in Fds, NEW k \in 1..MaxBytes, pipe_write(e, n, k) PROVE Steady(e)
  <2>1. /\ Goto(e, "write", [Idle EXCEPT !.fd = n, !.left = k, !.ret = "write"]) /\ Sole("write")
        /\ UNCHANGED <<rd, wr, data, bytes, state>> /\ Runs(e) /\ sent + k <= MaxBytes
    BY <1>5 DEF pipe_write, pages
  <2> QED BY <1>3, <2>1
<1> QED BY <1>2, <1>4, <1>5

LEMMA LookSteps ==
  ASSUME BytesInv, NEW e \in Envs, Looks(e)
  PROVE  Steady(e)
<1> DEFINE g == frame[e]
<1>1. Calls /\ g \in FrameType
  BY DEF BytesInv, Calls
<1>2. {"idle", "runs", "fd_ref", "pipe_ref", "recheck", "read", "write"} \subseteq Points
  BY DEF Points
<1>3. /\ rd \in Where /\ wr \in Where /\ data \in Where
      /\ state \in [Envs -> {"unused", "embryo", "running"}]
  BY <1>1 DEF Calls
<1>4. UNCHANGED <<rd, wr, data, state, bytes>> /\ (Runs(e) \/ fresh' = e)
  BY DEF Looks, read_runs, read_fd_ref, read_pipe_ref, recheck, pages
<1>5. CASE read_runs(e)
  <2>1. Goto(e, "fd_ref", g) /\ SameCall(g, g)
    BY <1>1, <1>5, FramesKept DEF read_runs
  <2> QED BY <1>2, <1>4, <2>1, SteadyCall
<1>6. CASE read_fd_ref(e)
  <2> DEFINE f == [g EXCEPT !.fd_ref = Cardinality(End(e))]
  <2>1. Goto(e, "pipe_ref", f)
    BY <1>6 DEF read_fd_ref
  <2>2. SameCall(g, f)
    BY <1>1, EndFinite, FramesKept
  <2> HIDE DEF f
  <2> QED BY <1>2, <1>4, <2>1, <2>2, SteadyCall
<1>7. CASE read_pipe_ref(e)
  <2> DEFINE f == [g EXCEPT !.closed = Verdict(e)]
  <2>1. Goto(e, "recheck", f)
    BY <1>7 DEF read_pipe_ref
  <2>2. Verdict(e) \in BOOLEAN
    BY DEF Verdict
  <2>3. SameCall(g, f)
    BY <1>1, <2>2, FramesKept
  <2> HIDE DEF f
  <2> QED BY <1>2, <1>4, <2>1, <2>3, SteadyCall
<1>8. CASE recheck(e)
  <2>1. \/ Goto(e, "runs", Cleared(e)) \/ Goto(e, "idle", Idle)
        \/ Goto(e, g.ret, Cleared(e)) /\ g.ret # "idle"
    BY <1>8 DEF recheck, Answer
  <2>2. SameCall(g, Cleared(e))
    BY <1>1, FramesKept DEF Cleared
  <2>3. g.ret \in {"idle", "read", "write"} /\ Cleared(e).ret = g.ret
    BY <1>1, <2>2 DEF FrameType, SameCall
  <2>4. Idle \in FrameType /\ Idle.ret = "idle"
    BY Frames
  <2>5. CASE Goto(e, "idle", Idle)
    BY <1>2, <1>3, <1>4, <2>4, <2>5, SteadyIdle
  <2>6. CASE Goto(e, "runs", Cleared(e))
    BY <1>2, <1>4, <2>2, <2>6, SteadyCall
  <2>7. CASE Goto(e, g.ret, Cleared(e)) /\ g.ret # "idle"
    BY <1>2, <1>4, <2>2, <2>3, <2>7, SteadyCall
  <2> QED BY <2>1, <2>5, <2>6, <2>7
<1> QED BY <1>5, <1>6, <1>7, <1>8 DEF Looks

(* A byte in its slot.                                                     *)
LEMMA Slots ==
  /\ \A k \in Nat : k % Size \in 0..Size - 1
  /\ \A k \in Nat : k % Word \in 0..Word - 1 /\ (k % Word) % Size = k % Size
<1>1. ASSUME NEW k \in Nat PROVE k % Size \in 0..Size - 1 /\ k % Word \in 0..Word - 1
  BY SizeWord, DivMod
<1>2. ASSUME NEW k \in Nat PROVE (k % Word) % Size = k % Size
  <2>1. ((k % Word) + 0) % Size = (k + 0) % Size
    BY SlotOfPosition
  <2>2. k % Word \in Int /\ k \in Int
    BY SizeWord, DivMod
  <2> DEFINE w == k % Word
  <2>3. w + 0 = w /\ k + 0 = k
    BY <2>2
  <2> QED BY <2>1, <2>3
<1> QED BY <1>1, <1>2

LEMMA Counts ==
  ASSUME Positions
  PROVE  /\ Len(got) \in Nat /\ sent \in Nat /\ Len(got) <= sent /\ sent - Len(got) <= Size
         /\ sent <= MaxBytes /\ MaxBytes \in Nat /\ Size \in Nat
         /\ (p_wpos - p_rpos) % Word = sent - Len(got)
         /\ p_rpos % Size = Len(got) % Size /\ p_wpos % Size = sent % Size
<1>1. Len(got) \in Nat
  BY LenProperties DEF Positions
<1>2. sent \in Nat /\ MaxBytes \in Nat /\ Size \in Nat /\ sent - Len(got) \in 0..Size /\ sent <= MaxBytes
  BY PipeAssumption DEF Positions
<1>3. Len(got) <= sent /\ sent - Len(got) <= Size
  BY <1>1, <1>2
<1>4. ((sent % Word) - (Len(got) % Word)) % Word = sent - Len(got)
  BY <1>1, <1>2, GapOfPositions
<1> QED BY <1>1, <1>2, <1>3, <1>4, Slots DEF Positions

(* Equal positions: the pipe is empty.                                     *)
LEMMA EmptyPositions ==
  ASSUME Positions, p_rpos # p_wpos
  PROVE  Len(got) < sent
<1>1. Len(got) # sent
  BY DEF Positions
<1> QED BY <1>1, Counts

LEMMA ReadTestStep ==
  ASSUME BytesInv, NEW e \in Envs, read_test(e)
  PROVE  Steady(e)
<1> DEFINE g == frame[e]
<1>1. /\ g \in FrameType /\ g.ret = "read" /\ UNCHANGED <<rd, wr, data, state, bytes>> /\ Runs(e)
      /\ Positions
  BY DEF BytesInv, Calls, Callers, read_test, At, pages
<1>2. "runs" \in Points /\ "read_inc" \in Points
  BY DEF Points
<1>3. CASE p_rpos = p_wpos
  <2>1. Goto(e, "runs", g) /\ SameCall(g, g)
    BY <1>1, <1>3, FramesKept DEF read_test
  <2> QED BY <1>1, <1>2, <2>1, SteadyCall
<1>4. CASE p_rpos # p_wpos
  <2> DEFINE b == p_buf[p_rpos % Size]
             f == [g EXCEPT !.byte = b]
  <2>1. Goto(e, "read_inc", f)
    BY <1>4 DEF read_test
  <2>2. Len(got) < sent /\ Len(got) \in Nat /\ p_rpos % Size = Len(got) % Size
    BY <1>1, <1>4, EmptyPositions, Counts
  <2>3. b = Len(got) + 1
    <3>1. p_buf[Len(got) % Size] = Len(got) + 1
      BY <2>2 DEF BytesInv, Contents
    <3> QED BY <2>2, <3>1
  <2>4. b \in 0..MaxBytes
    BY <1>1, <2>2, Slots DEF Positions
  <2> HIDE DEF b
  <2>5. SameCall(g, f) /\ f.byte = b
    BY <1>1, <2>4, FramesKept
  <2>6. f.ret = "read"
    BY <1>1, <2>5 DEF SameCall
  <2> HIDE DEF f
  <2> QED BY <1>1, <1>2, <2>1, <2>2, <2>3, <2>5, <2>6, SteadyCall
<1> QED BY <1>3, <1>4

----------------------------------------------------------------------------
(* The accesses that move bytes.                                           *)

(* The end of an access: the call returns or goes on.                      *)
LEMMA MovedGoes ==
  ASSUME BytesInv, NEW e \in Envs, NEW label \in {"read", "write"}, frame[e].ret = label,
         Moved(e, label), sent' = sent \/ (sent' = sent + 1 /\ label = "write"),
         UNCHANGED <<rd, wr, data, state>>, Runs(e)
  PROVE  /\ Calls' /\ Callers' /\ pc'[e] \in {"idle", label}
         /\ \A d \in Envs : d # e => pc'[d] = pc[d] /\ frame'[d] = frame[d]
<1> DEFINE g == frame[e]
<1>1. /\ Calls /\ Callers /\ g \in FrameType /\ g.left >= 1 /\ g.left \in Nat /\ sent \in Nat
      /\ \A d \in Envs : d # e => frame[d].ret # g.ret
      /\ g.ret = "write" => sent + g.left <= MaxBytes
  <2>1. Calls /\ Callers /\ g \in FrameType
    BY DEF BytesInv, Calls
  <2>2. g.left \in Nat /\ sent \in Nat
    BY <2>1, PipeAssumption DEF FrameType, BytesInv, Positions
  <2> QED BY <2>1, <2>2 DEF Callers
<1>2. /\ rd' \in Where /\ wr' \in Where /\ data' \in Where
      /\ state' \in [Envs -> {"unused", "embryo", "running"}] /\ fresh' \in Envs \cup {None}
  BY <1>1, RunsType DEF Calls
<1>3. \E f : Goes(e, "idle", f) \/ Goes(e, label, f)
  <2>1. CASE g.left = 1
    <3>1. Goto(e, "idle", Idle)
      BY <2>1 DEF Moved
    <3>2. Goes(e, "idle", Idle)
      BY <3>1, Frames DEF Goes, Points
    <3> QED BY <3>2
  <2>2. CASE g.left # 1
    <3>1. PICK f : f = [g EXCEPT !.left = @ - 1, !.some = TRUE, !.byte = 0] /\ Goto(e, label, f)
      BY <2>2 DEF Moved
    <3>2. f \in FrameType /\ f.ret = label /\ f.left = g.left - 1 /\ f.left >= 1
      <4>1. g.left # 0
        BY <1>1
      <4> HIDE DEF g
      <4>2. f \in FrameType /\ f.ret = g.ret /\ f.left = g.left - 1 /\ f.left >= 1
        BY <1>1, <2>2, <3>1, <4>1, OneByteLess
      <4> QED BY <4>2 DEF g
    <3>3. label = "write" => sent' + f.left <= MaxBytes
      BY <1>1, <3>2, PipeAssumption
    <3>4. Goes(e, label, f)
      BY <1>1, <3>1, <3>2, <3>3 DEF Goes, Points
    <3> QED BY <3>4
  <2> QED BY <2>1, <2>2
<1>4. PICK f : Goes(e, "idle", f) \/ Goes(e, label, f)
  BY <1>3
<1>5. sent' = sent \/ frame[e].ret = "write"
  OBVIOUS
<1> QED BY <1>1, <1>2, <1>4, <1>5, CallersStep

LEMMA ReadIncStep ==
  ASSUME BytesInv, NEW e \in Envs, read_inc(e)
  PROVE  BytesInv' /\ got' = Append(got, Len(got) + 1) /\ Len(got) < sent /\ sent' = sent
<1>1. /\ pc[e] = "read_inc" /\ Moved(e, "read") /\ p_rpos' = (p_rpos + 1) % Word
      /\ got' = Append(got, frame[e].byte) /\ Runs(e)
      /\ UNCHANGED <<rd, wr, data, state, p_wpos, p_buf, sent>>
  BY DEF read_inc, At, pages
<1>2. frame[e].ret = "read" /\ frame[e].byte = Len(got) + 1 /\ Len(got) < sent
  BY <1>1 DEF BytesInv, Callers, InHand
<1>3. /\ Calls' /\ Callers' /\ pc'[e] \in {"idle", "read"}
      /\ \A d \in Envs : d # e => pc'[d] = pc[d] /\ frame'[d] = frame[d]
  BY <1>1, <1>2, MovedGoes
<1>4. Positions /\ Len(got) \in Nat /\ sent \in Nat /\ sent <= MaxBytes /\ MaxBytes \in Nat
      /\ got \in Seq(0..MaxBytes) /\ sent - Len(got) <= Size /\ Size \in Nat
  BY Counts DEF BytesInv, Positions
<1>5. Len(got) + 1 \in 0..MaxBytes
  BY <1>2, <1>4
<1>6. got' \in Seq(0..MaxBytes) /\ Len(got') = Len(got) + 1
  BY <1>1, <1>2, <1>4, <1>5, AppendProperties
<1>7. p_rpos' = (Len(got) + 1) % Word
  BY <1>1, <1>4, NextPosition DEF Positions
<1>8. Positions'
  <2>1. sent' - Len(got') \in 0..Size
    BY <1>1, <1>2, <1>4, <1>6
  <2> QED BY <1>1, <1>4, <1>6, <1>7, <2>1 DEF Positions
<1>9. Contents'
  <2> SUFFICES ASSUME NEW k \in Nat, Len(got') <= k, k < sent PROVE p_buf[k % Size] = k + 1
    BY <1>1 DEF Contents
  <2>1. Len(got) <= k
    BY <1>4, <1>6
  <2> QED BY <2>1 DEF BytesInv, Contents
<1>10. InHand'
  <2> SUFFICES ASSUME NEW d \in Envs
               PROVE  /\ pc'[d] = "read_inc" => Len(got') < sent' /\ frame'[d].byte = Len(got') + 1
                      /\ pc'[d] = "write_inc" => sent' - Len(got') < Size /\ p_buf'[sent' % Size] = sent' + 1
    BY DEF InHand
  <2>1. CASE d = e
    BY <1>3, <2>1
  <2>2. CASE d # e
    <3>1. pc[d] # "read_inc"
      BY <1>2, <2>2 DEF BytesInv, Callers
    <3>2. pc[d] = "write_inc" => sent - Len(got) < Size /\ p_buf[sent % Size] = sent + 1
      BY DEF BytesInv, InHand
    <3>3. sent - Len(got) < Size => sent - Len(got') < Size
      BY <1>4, <1>6
    <3> QED BY <1>1, <1>3, <2>2, <3>1, <3>2, <3>3
  <2> QED BY <2>1, <2>2
<1> QED BY <1>1, <1>2, <1>3, <1>8, <1>9, <1>10 DEF BytesInv

(* The slot that pipe_write fills holds no byte that is still to be read.  *)
LEMMA WriteTestStep ==
  ASSUME BytesInv, NEW e \in Envs, write_test(e)
  PROVE  BytesInv' /\ got' = got /\ sent' = sent
<1> DEFINE g == frame[e]
<1>1. /\ g \in FrameType /\ g.ret = "write" /\ UNCHANGED <<rd, wr, data, state>> /\ Runs(e)
      /\ Positions /\ Calls /\ Callers /\ pc[e] = "write"
  BY DEF BytesInv, Calls, Callers, write_test, At, pages
<1>2. "runs" \in Points /\ "write_inc" \in Points
  BY DEF Points
<1>3. SameCall(g, g)
  BY <1>1, FramesKept
<1>4. CASE Full
  <2>1. Goto(e, "runs", g) /\ UNCHANGED bytes
    BY <1>4 DEF write_test
  <2>2. Steady(e)
    BY <1>1, <1>2, <1>3, <2>1, SteadyCall
  <2> QED BY <2>1, <2>2, SteadyStep DEF bytes
<1>5. CASE ~Full
  <2>1. /\ p_buf' = [p_buf EXCEPT ![p_wpos % Size] = sent + 1]
        /\ Goto(e, "write_inc", g) /\ UNCHANGED <<p_rpos, p_wpos, sent, got>>
    BY <1>5 DEF write_test
  <2>2. /\ Len(got) \in Nat /\ sent \in Nat /\ Len(got) <= sent /\ sent - Len(got) < Size
        /\ p_wpos % Size = sent % Size /\ MaxBytes \in Nat /\ Size \in Nat
    <3>1. sent - Len(got) # Size
      BY <1>1, <1>5, Counts DEF Full
    <3> QED BY <1>1, <3>1, Counts
  <2>3. /\ g.left >= 1 /\ sent + g.left <= MaxBytes /\ g.left \in Nat
        /\ \A d \in Envs : d # e => frame[d].ret # g.ret
    <3>1. g.left \in Nat
      BY <1>1, PipeAssumption DEF FrameType
    <3> QED BY <1>1, <3>1 DEF Callers
  <2>4. Goes(e, "write_inc", g)
    BY <1>1, <1>2, <2>1, <2>3 DEF Goes
  <2>5. fresh' \in Envs \cup {None}
    BY <1>1, RunsType
  <2>6. /\ rd' \in Where /\ wr' \in Where /\ data' \in Where
        /\ state' \in [Envs -> {"unused", "embryo", "running"}]
    BY <1>1 DEF Calls
  <2> HIDE DEF g
  <2>7. /\ Calls' /\ Callers' /\ pc'[e] = "write_inc" /\ frame'[e] = g
        /\ \A d \in Envs : d # e => pc'[d] = pc[d] /\ frame'[d] = frame[d]
    BY <1>1, <2>1, <2>4, <2>5, <2>6, CallersStep
  <2>8. sent + 1 \in 0..MaxBytes
    BY <2>2, <2>3
  <2>9. sent % Size \in 0..Size - 1 /\ p_buf \in [0..Size - 1 -> 0..MaxBytes]
    BY <1>1, <2>2, Slots DEF Positions
  <2>10. /\ p_buf' \in [0..Size - 1 -> 0..MaxBytes] /\ p_buf'[sent % Size] = sent + 1
         /\ \A i \in 0..Size - 1 : i # sent % Size => p_buf'[i] = p_buf[i]
    BY <2>1, <2>2, <2>8, <2>9
  <2>11. Positions'
    BY <1>1, <2>1, <2>10 DEF Positions
  <2>12. Contents'
    <3> SUFFICES ASSUME NEW k \in Nat, Len(got) <= k, k < sent PROVE p_buf'[k % Size] = k + 1
      BY <2>1 DEF Contents
    <3>1. p_buf[k % Size] = k + 1
      BY DEF BytesInv, Contents
    <3>2. sent - k < Size
      BY <2>2
    <3>3. k % Size # sent % Size
      BY <2>2, <3>2, SlotsApart
    <3> QED BY <2>10, <3>1, <3>3, Slots
  <2>13. InHand'
    <3> SUFFICES ASSUME NEW d \in Envs
                 PROVE  /\ pc'[d] = "read_inc" => Len(got) < sent /\ frame'[d].byte = Len(got) + 1
                        /\ pc'[d] = "write_inc" => sent - Len(got) < Size /\ p_buf'[sent % Size] = sent + 1
      BY <2>1 DEF InHand
    <3>1. CASE d = e
      BY <2>2, <2>7, <2>10, <3>1
    <3>2. CASE d # e
      BY <2>2, <2>7, <2>10, <3>2 DEF BytesInv, InHand
    <3> QED BY <3>1, <3>2
  <2> QED BY <2>1, <2>7, <2>11, <2>12, <2>13 DEF BytesInv
<1> QED BY <1>4, <1>5

LEMMA WriteIncStep ==
  ASSUME BytesInv, NEW e \in Envs, write_inc(e)
  PROVE  BytesInv' /\ got' = got /\ sent' = sent + 1 /\ sent - Len(got) < Size
<1>1. /\ pc[e] = "write_inc" /\ Moved(e, "write") /\ p_wpos' = (p_wpos + 1) % Word
      /\ sent' = sent + 1 /\ Runs(e)
      /\ UNCHANGED <<rd, wr, data, state, p_rpos, p_buf, got>>
  BY DEF write_inc, At, pages
<1>2. frame[e].ret = "write" /\ p_buf[sent % Size] = sent + 1 /\ sent - Len(got) < Size
  BY <1>1 DEF BytesInv, Callers, InHand
<1>3. /\ Calls' /\ Callers' /\ pc'[e] \in {"idle", "write"}
      /\ \A d \in Envs : d # e => pc'[d] = pc[d] /\ frame'[d] = frame[d]
  BY <1>1, <1>2, MovedGoes
<1>4. /\ Positions /\ Len(got) \in Nat /\ sent \in Nat /\ Len(got) <= sent /\ MaxBytes \in Nat
      /\ Size \in Nat
  BY Counts DEF BytesInv, Positions
<1>5. sent + 1 \in 0..MaxBytes
  <2>1. frame[e].left >= 1 /\ sent + frame[e].left <= MaxBytes
    BY <1>2 DEF BytesInv, Callers
  <2>2. frame[e].left \in Nat
    <3>1. frame[e] \in FrameType
      BY DEF BytesInv, Calls
    <3> QED BY <3>1, PipeAssumption DEF FrameType
  <2> QED BY <1>4, <2>1, <2>2
<1>6. p_wpos' = (sent + 1) % Word
  BY <1>1, <1>4, NextPosition DEF Positions
<1>7. Positions'
  <2>1. sent' - Len(got') \in 0..Size
    BY <1>1, <1>2, <1>4
  <2> QED BY <1>1, <1>4, <1>5, <1>6, <2>1 DEF Positions
<1>8. Contents'
  <2> SUFFICES ASSUME NEW k \in Nat, Len(got) <= k, k < sent + 1 PROVE p_buf[k % Size] = k + 1
    BY <1>1 DEF Contents
  <2>1. k < sent \/ k = sent
    BY <1>4
  <2> QED BY <1>2, <2>1 DEF BytesInv, Contents
<1>9. InHand'
  <2> SUFFICES ASSUME NEW d \in Envs
               PROVE  /\ pc'[d] = "read_inc" => Len(got') < sent' /\ frame'[d].byte = Len(got') + 1
                      /\ pc'[d] # "write_inc"
    BY DEF InHand
  <2>1. CASE d = e
    BY <1>3, <2>1
  <2>2. CASE d # e
    <3>1. pc[d] # "write_inc"
      BY <1>2, <2>2 DEF BytesInv, Callers
    <3>2. pc[d] = "read_inc" => Len(got) < sent /\ frame[d].byte = Len(got) + 1
      BY DEF BytesInv, InHand
    <3>3. Len(got) < sent => Len(got) < sent + 1
      BY <1>4
    <3> QED BY <1>1, <1>3, <2>2, <3>1, <3>2, <3>3
  <2> QED BY <2>1, <2>2
<1> QED BY <1>1, <1>2, <1>3, <1>7, <1>8, <1>9 DEF BytesInv

----------------------------------------------------------------------------
(* Every step, and what it is to the channel.                              *)
Unmoved == got' = got /\ sent' = sent
Took == got' = Append(got, Len(got) + 1) /\ sent' = sent /\ Len(got) < sent
Gave == got' = got /\ sent' = sent + 1 /\ sent - Len(got) < Size

LEMMA BytesStep ==
  ASSUME BytesInv, [Next]_vars
  PROVE  BytesInv' /\ (Unmoved \/ Took \/ Gave)
<1>1. ASSUME NEW e \in Envs, Steady(e) PROVE BytesInv' /\ Unmoved
  BY <1>1, SteadyStep DEF Steady, Unmoved
<1>2. ASSUME NEW e \in Envs, Call(e) PROVE BytesInv' /\ Unmoved
  <2>1. \/ \E n \in Fds : close(e, n)
        \/ \E n, to \in Fds : dup(e, n, to)
        \/ \E c \in Envs : fork(e, c)
        \/ \E n \in Fds : pipe_is_closed(e, n)
        \/ \E n \in Fds, k \in 1..MaxBytes : pipe_read(e, n, k) \/ pipe_write(e, n, k)
    BY <1>2 DEF Call
  <2>2. Steady(e)
    BY <2>1, PageSteps, CallSteps
  <2> QED BY <1>1, <2>2
<1>3. ASSUME NEW e \in Envs, Work(e) PROVE BytesInv' /\ (Unmoved \/ Took \/ Gave)
  <2>1. CASE close_2(e) \/ dup_2(e) \/ fork_2(e) \/ Looks(e) \/ read_test(e)
    BY <1>1, <2>1, PageSteps, LookSteps, ReadTestStep
  <2>2. CASE duppage_fd(e) \/ duppage_data(e)
    BY <2>2, CopySteps DEF duppage_fd, duppage_data, bytes, Unmoved
  <2>3. CASE read_inc(e) \/ write_test(e) \/ write_inc(e)
    BY <2>3, ReadIncStep, WriteTestStep, WriteIncStep DEF Unmoved, Took, Gave
  <2> QED BY <1>3, <2>1, <2>2, <2>3 DEF Work, Looks
<1>4. CASE UNCHANGED vars
  BY <1>4 DEF vars, pages, bytes, BytesInv, Calls, Callers, Positions, Contents, InHand, Unmoved
<1> QED BY <1>2, <1>3, <1>4 DEF Next

LEMMA BytesInit == Init => BytesInv
<1> SUFFICES ASSUME Init PROVE BytesInv
  OBVIOUS
<1>1. 0 \in Fds /\ 1 \in Fds /\ 0 \in 0..MaxBytes /\ 0 \in 0..Size /\ Size \in Nat
  BY PipeAssumption DEF Fds
<1>2. <<Root, 0>> \in Envs \X Fds /\ <<Root, 1>> \in Envs \X Fds
  BY <1>1, PipeAssumption
<1>3. Calls
  <2>1. rd \in Where /\ wr \in Where /\ data \in Where
    BY <1>2 DEF Init, Where
  <2>2. frame \in [Envs -> FrameType] /\ pc \in [Envs -> Points]
    BY Frames DEF Init, Points
  <2>3. state \in [Envs -> {"unused", "embryo", "running"}] /\ fresh \in Envs \cup {None}
    BY DEF Init
  <2> QED BY <2>1, <2>2, <2>3 DEF Calls, Init
<1>4. Callers
  BY Frames DEF Init, Callers
<1>5. Positions
  <2>1. got \in Seq(0..MaxBytes) /\ Len(got) = 0 /\ sent = 0
    BY DEF Init
  <2>2. 0 % Word = 0
    BY SizeWord, ModSmall
  <2> QED BY <1>1, <2>1, <2>2 DEF Positions, Init
<1>6. Contents /\ InHand
  BY DEF Init, Contents, InHand
<1> QED BY <1>3, <1>4, <1>5, <1>6 DEF BytesInv

LEMMA BytesAlways == Spec => []BytesInv
BY BytesInit, BytesStep, PTL DEF Spec

(* What the pipe's pages, positions and buffer and the locals of the calls *)
(* may be (pipe.c's struct Pipe, fd.c), whatever the sizes and however     *)
(* many envs share it.                                                     *)
THEOREM PipeTypeCorrect == Spec => []TypeOK
<1>1. BytesInv => TypeOK
  <2> SUFFICES ASSUME BytesInv PROVE TypeOK
    OBVIOUS
  <2>1. Len(got) \in Nat /\ sent \in Nat
    BY Counts DEF BytesInv
  <2>2. p_rpos \in 0..Word - 1 /\ p_wpos \in 0..Word - 1
    <3>1. Len(got) % Word \in 0..Word - 1 /\ sent % Word \in 0..Word - 1
      BY <2>1, Slots
    <3> QED BY <3>1 DEF BytesInv, Positions
  <2> QED BY <2>2 DEF BytesInv, Calls, Positions, TypeOK, FrameType, Points
<1> QED BY <1>1, BytesAlways, PTL

(* The bytes between the positions are the ones written and not read.      *)
Numbers(n, m) == [k \in 1..(m - n) |-> n + k]
HoldsUnread == InPipe = Numbers(Len(got), sent)

LEMMA PipeHolds == BytesInv => HoldsUnread
<1> SUFFICES ASSUME BytesInv PROVE InPipe = [k \in 1..(sent - Len(got)) |-> Len(got) + k]
  BY DEF HoldsUnread, Numbers
<1>1. Positions /\ Contents
  BY DEF BytesInv
<1>2. Len(got) \in Nat /\ sent \in Nat /\ (p_wpos - p_rpos) % Word = sent - Len(got)
  BY <1>1, Counts
<1>3. ASSUME NEW k \in 1..(sent - Len(got)) PROVE p_buf[(p_rpos + k - 1) % Size] = Len(got) + k
  <2> DEFINE N == Len(got)
             r == N % Word
             j == k - 1
  <2>1. N \in Nat /\ j \in Int /\ k \in Int /\ r \in Int /\ p_rpos = r
    BY <1>1, <1>2, SizeWord, DivMod DEF Positions
  <2>2. N + j \in Nat /\ N <= N + j /\ N + j < sent
    BY <1>2, <2>1
  <2>3. p_buf[(N + j) % Size] = N + j + 1
    BY <1>1, <2>2 DEF Contents
  <2>4. (r + j) % Size = (N + j) % Size
    BY <2>1, SlotOfPosition
  <2>5. p_rpos + k - 1 = r + j /\ N + j + 1 = N + k
    BY <2>1
  <2> HIDE DEF N, r, j
  <2>6. p_buf[(p_rpos + k - 1) % Size] = N + k
    BY <2>3, <2>4, <2>5
  <2> QED BY <2>6 DEF N
<1> QED BY <1>2, <1>3 DEF InPipe

LEMMA NumbersEnds ==
  ASSUME NEW n \in Nat, NEW m \in Nat, n <= m
  PROVE  /\ Numbers(n, m) \in Seq(Nat) /\ Len(Numbers(n, m)) = m - n
         /\ Numbers(n, m + 1) = Append(Numbers(n, m), m + 1)
         /\ n < m => /\ Numbers(n, m) # <<>> /\ Head(Numbers(n, m)) = n + 1
                     /\ Numbers(n + 1, m) = Tail(Numbers(n, m))
<1> DEFINE q == Numbers(n, m)
           l == m - n
<1>1. l \in Nat /\ \A k \in 1..l : n + k \in Nat
  OBVIOUS
<1>2. q = [k \in 1..l |-> n + k]
  BY DEF Numbers
<1>3. q \in Seq(Nat) /\ Len(q) = l
  BY <1>1, <1>2, IsASeq
<1>4. Numbers(n, m + 1) = Append(q, m + 1)
  <2>1. (m + 1) - n = l + 1 /\ n + (l + 1) = m + 1
    OBVIOUS
  <2>2. Numbers(n, m + 1) = [k \in 1..(l + 1) |-> n + k]
    BY <2>1 DEF Numbers
  <2>3. Append(q, m + 1) = [k \in 1..(l + 1) |-> IF k = l + 1 THEN m + 1 ELSE q[k]]
    BY <1>3
  <2>4. \A k \in 1..(l + 1) : n + k = IF k = l + 1 THEN m + 1 ELSE q[k]
    BY <1>1, <1>2, <2>1
  <2> HIDE DEF q, l
  <2> QED BY <2>2, <2>3, <2>4
<1>5. ASSUME n < m
      PROVE  q # <<>> /\ Head(q) = n + 1 /\ Numbers(n + 1, m) = Tail(q)
  <2>1. 1 \in 1..l /\ l >= 1
    BY <1>5
  <2>2. q # <<>> /\ Head(q) = q[1] /\ q[1] = n + 1
    BY <1>2, <1>3, <2>1
  <2> DEFINE t == Numbers(n + 1, m)
  <2>3. m - (n + 1) = l - 1 /\ l - 1 \in Nat /\ \A k \in 1..(l - 1) : (n + 1) + k \in Nat
    BY <2>1
  <2>4. t = [k \in 1..(l - 1) |-> (n + 1) + k]
    BY <2>3 DEF Numbers
  <2>5. t \in Seq(Nat) /\ Len(t) = l - 1
    BY <2>3, <2>4, IsASeq
  <2>6. \A k \in 1..(l - 1) : q[k + 1] = (n + 1) + k
    BY <1>1, <1>2
  <2>7. /\ Tail(q) \in Seq(Nat) /\ Len(Tail(q)) = l - 1
        /\ \A k \in 1..(l - 1) : Tail(q)[k] = q[k + 1]
    BY <1>3, <2>2, HeadTailProperties
  <2> HIDE DEF q, l, t
  <2>8. \A k \in 1..Len(t) : t[k] = Tail(q)[k]
    BY <2>4, <2>5, <2>6, <2>7
  <2>9. t = Tail(q)
    BY <2>5, <2>7, <2>8, SeqEqual
  <2> QED BY <2>2, <2>9 DEF t
<1> QED BY <1>3, <1>4, <1>5

(* pipe_read, pipe_write: through positions that wrap, the test and the    *)
(* increment in two steps, and two envs (or one) at it, the pipe is a      *)
(* channel of capacity PIPE_SIZE: every byte written is read once, in      *)
(* order.                                                                  *)
THEOREM PipeIsAChannel == Spec => ImplementsChannel
<1>1. Init => Chan!Init
  <2> SUFFICES ASSUME Init PROVE Chan!Init
    OBVIOUS
  <2>1. BytesInv
    BY BytesInit
  <2>2. InPipe = [k \in 1..(0 - 0) |-> 0 + k]
    BY <2>1, PipeHolds DEF Init, HoldsUnread, Numbers
  <2>3. InPipe = <<>>
    BY <2>2
  <2> QED BY <2>3 DEF Init, Chan!Init
<1>2. BytesInv /\ HoldsUnread /\ HoldsUnread' /\ [Next]_vars => [Chan!Next]_<<sent, InPipe, got>>
  <2> SUFFICES ASSUME BytesInv, HoldsUnread, HoldsUnread', [Next]_vars PROVE [Chan!Next]_<<sent, InPipe, got>>
    OBVIOUS
  <2>1. BytesInv' /\ (Unmoved \/ Took \/ Gave)
    BY BytesStep
  <2> DEFINE N == Len(got)
  <2>2. N \in Nat /\ sent \in Nat /\ N <= sent
    BY Counts DEF BytesInv
  <2>3. InPipe = Numbers(N, sent)
    BY DEF HoldsUnread
  <2>4. InPipe' = Numbers(Len(got'), sent')
    BY DEF HoldsUnread
  <2>5. CASE Unmoved
    BY <2>3, <2>4, <2>5 DEF Unmoved
  <2>6. CASE Took
    <3>1. Len(got') = N + 1
      BY <2>6, AppendProperties DEF Took, BytesInv, Positions
    <3>2. InPipe # <<>> /\ Head(InPipe) = N + 1 /\ InPipe' = Tail(InPipe)
      BY <2>2, <2>3, <2>4, <2>6, <3>1, NumbersEnds DEF Took
    <3>3. Chan!Take
      BY <2>6, <3>2 DEF Took, Chan!Take
    <3> QED BY <3>3 DEF Chan!Next
  <2>7. CASE Gave
    <3>1. Len(InPipe) < Size
      BY <2>2, <2>3, <2>7, NumbersEnds DEF Gave
    <3>2. InPipe' = Append(InPipe, sent + 1)
      BY <2>2, <2>3, <2>4, <2>7, NumbersEnds DEF Gave
    <3>3. Chan!Give
      BY <2>7, <3>1, <3>2 DEF Gave, Chan!Give
    <3> QED BY <3>3 DEF Chan!Next
  <2> QED BY <2>1, <2>5, <2>6, <2>7
<1> QED BY <1>1, <1>2, BytesAlways, PipeHolds, PTL DEF Spec, ImplementsChannel, Chan!Spec
=============================================================================
