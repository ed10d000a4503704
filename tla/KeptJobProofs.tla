--------------------------- MODULE KeptJobProofs ---------------------------
(***************************************************************************)
(* Proofs about KeptJob, for any set of connections, any buffer sizes and  *)
(* any bounds: type correctness; the lock discipline that protects the     *)
(* child's pid; that attach clients are told the truth and see a stream    *)
(* without gaps; that the log pair is the most recent output whatever write*)
(* or rotation fails; and the refinement of JobContract.                   *)
(***************************************************************************)
EXTENDS KeptJob, SequenceTheorems, TLAPS

-----------------------------------------------------------------------------
(* Sequences. *)

\* The smaller of two naturals is a natural no larger than either.
LEMMA LeastType ==
  ASSUME NEW a \in Nat, NEW b \in Nat
  PROVE  Least(a, b) \in Nat /\ Least(a, b) <= a /\ Least(a, b) <= b
BY DEF Least

\* The last n elements of s are a sequence of Least(n, Len(s)) elements.
LEMMA LastOfType ==
  ASSUME NEW S, NEW s \in Seq(S), NEW n \in Nat
  PROVE  /\ LastOf(s, n) \in Seq(S)
         /\ Len(LastOf(s, n)) = Least(n, Len(s))
         /\ Len(LastOf(s, n)) <= n
<1>1. Len(s) \in Nat
  OBVIOUS
<1> DEFINE l == Least(n, Len(s))
<1>a. l \in Nat /\ l <= n /\ l <= Len(s)
  BY <1>1, LeastType
<1> HIDE DEF l
<1>2. PICK m \in Int : m = Len(s) - l + 1
  BY <1>1, <1>a
<1>3. m >= 1 /\ Len(s) - m + 1 = l
  BY <1>1, <1>2, <1>a
<1>4. \A i \in m..Len(s) : s[i] \in S
  BY <1>1, <1>3
<1>5. /\ SubSeq(s, m, Len(s)) \in Seq(S)
      /\ Len(SubSeq(s, m, Len(s))) = IF m <= Len(s) THEN Len(s) - m + 1 ELSE 0
  BY <1>1, <1>4, SubSeqProperties
<1> QED
  BY <1>1, <1>2, <1>3, <1>5, <1>a DEF LastOf, l

\* A prefix of a sequence is a sequence over the same set.
LEMMA PrefixType ==
  ASSUME NEW S, NEW s \in Seq(S), NEW k \in 0..Len(s)
  PROVE  SubSeq(s, 1, k) \in Seq(S)
BY \A i \in 1..k : s[i] \in S, SubSeqProperties

-----------------------------------------------------------------------------
(* Type correctness. *)

\* The state a job is published with is well typed.
LEMMA TypeInit == Init => TypeOK
<1> SUFFICES ASSUME Init PROVE TypeOK
  OBVIOUS
<1> USE KeptJobAssumption DEF Init
<1>1. JobTypeOK
  BY DEF JobTypeOK
<1>2. StateTypeOK
  BY DEF StateTypeOK
<1>3. OutTypeOK
  BY DEF OutTypeOK, NoAttach
<1>4. PumpTypeOK
  <2>1. PICK o \in BOOLEAN : log = [open |-> o, cur |-> << >>, old |-> << >>]
    OBVIOUS
  <2>2. log \in [open : BOOLEAN, cur : Seq(Nat), old : Seq(Nat)]
    BY <2>1
  <2>3. chunk \in Seq(Nat)
    OBVIOUS
  <2>4. drained \in Nat /\ sawData \in BOOLEAN
    OBVIOUS
  <2> QED
    BY <2>2, <2>3, <2>4 DEF PumpTypeOK
<1>5. ConnTypeOK
  BY DEF ConnTypeOK, NotRead
<1> QED
  BY <1>1, <1>2, <1>3, <1>4, <1>5 DEF TypeOK

\* A part of the state that a step leaves alone keeps its type.
LEMMA TypeUnchanged ==
  /\ JobTypeOK /\ UNCHANGED jobVars => JobTypeOK'
  /\ StateTypeOK /\ UNCHANGED <<runState, stateLock>> => StateTypeOK'
  /\ OutTypeOK /\ UNCHANGED outVars => OutTypeOK'
  /\ PumpTypeOK /\ UNCHANGED pumpVars => PumpTypeOK'
  /\ ConnTypeOK /\ UNCHANGED connVars => ConnTypeOK'
<1>1. JobTypeOK /\ UNCHANGED jobVars => JobTypeOK'
  BY DEF JobTypeOK, jobVars
<1>2. StateTypeOK /\ UNCHANGED <<runState, stateLock>> => StateTypeOK'
  BY DEF StateTypeOK
<1>3. OutTypeOK /\ UNCHANGED outVars => OutTypeOK'
  BY DEF OutTypeOK, outVars
<1>4. PumpTypeOK /\ UNCHANGED pumpVars => PumpTypeOK'
  BY DEF PumpTypeOK, pumpVars
<1>5. ConnTypeOK /\ UNCHANGED connVars => ConnTypeOK'
  BY DEF ConnTypeOK, connVars
<1> QED
  BY <1>1, <1>2, <1>3, <1>4, <1>5

\* Changing a function at one argument to a value of its range keeps its type.
LEMMA ExceptType ==
  ASSUME NEW D, NEW S, NEW f \in [D -> S], NEW x, NEW v, x \in D => v \in S
  PROVE  [f EXCEPT ![x] = v] \in [D -> S]
OBVIOUS

\* Every outcome of writing a chunk to the log pair leaves typed logs.
LEMMA LogWritesType ==
  ASSUME NEW bs \in Seq(Nat), NEW l \in LogWrites(bs),
         log \in [open : BOOLEAN, cur : Seq(Nat), old : Seq(Nat)]
  PROVE  l \in [open : BOOLEAN, cur : Seq(Nat), old : Seq(Nat)]
<1>1. log.cur \o bs \in Seq(Nat)
  BY ConcatProperties
<1>2. \A k \in 0..(Len(bs) - 1) : log.cur \o SubSeq(bs, 1, k) \in Seq(Nat)
  <2> TAKE k \in 0..(Len(bs) - 1)
  <2>1. SubSeq(bs, 1, k) \in Seq(Nat)
    BY PrefixType
  <2> QED
    BY <2>1, ConcatProperties
<1>3. CASE l = log
  BY <1>3
<1>4. CASE l \in Rotations(log.cur \o bs)
  <2> DEFINE full == log.cur \o bs
  <2>1. \/ l = [open |-> TRUE, cur |-> << >>, old |-> full]
        \/ l = [open |-> FALSE, cur |-> full, old |-> log.old]
        \/ l = [open |-> FALSE, cur |-> full, old |-> << >>]
        \/ l = [open |-> FALSE, cur |-> << >>, old |-> full]
    BY <1>4 DEF Rotations
  <2>2. full \in Seq(Nat) /\ log.old \in Seq(Nat)
    BY <1>1
  <2>3. << >> \in Seq(Nat)
    OBVIOUS
  <2> HIDE DEF full
  <2>4. \A o \in BOOLEAN : \A a, b \in Seq(Nat) :
          [open |-> o, cur |-> a, old |-> b]
            \in [open : BOOLEAN, cur : Seq(Nat), old : Seq(Nat)]
    OBVIOUS
  <2>5. TRUE \in BOOLEAN /\ FALSE \in BOOLEAN
    OBVIOUS
  <2>6. CASE l = [open |-> TRUE, cur |-> << >>, old |-> full]
    BY <2>2, <2>3, <2>4, <2>5, <2>6
  <2>7. CASE l = [open |-> FALSE, cur |-> full, old |-> log.old]
    BY <2>2, <2>4, <2>5, <2>7
  <2>8. CASE l = [open |-> FALSE, cur |-> full, old |-> << >>]
    BY <2>2, <2>3, <2>4, <2>5, <2>8
  <2>9. CASE l = [open |-> FALSE, cur |-> << >>, old |-> full]
    BY <2>2, <2>3, <2>4, <2>5, <2>9
  <2> QED
    BY <2>1, <2>6, <2>7, <2>8, <2>9
<1>5. CASE l = [log EXCEPT !.cur = log.cur \o bs]
  BY <1>1, <1>5
<1>6. CASE \E k \in 0..(Len(bs) - 1) :
             l = DisableLog([log EXCEPT !.cur = log.cur \o SubSeq(bs, 1, k)])
  <2>1. PICK k \in 0..(Len(bs) - 1) :
          l = DisableLog([log EXCEPT !.cur = log.cur \o SubSeq(bs, 1, k)])
    BY <1>6
  <2> QED
    BY <1>2, <2>1 DEF DisableLog
<1> QED
  BY <1>3, <1>4, <1>5, <1>6 DEF LogWrites

\* What a client received of a failing replay is a sequence of bytes.
LEMMA PartialReplayType ==
  ASSUME NEW s \in Seq(Nat), NEW r \in Nat, NEW k \in 0..(Least(r, Len(s)) - 1)
  PROVE  SubSeq(LastOf(s, r), 1, k) \in Seq(Nat)
<1>1. LastOf(s, r) \in Seq(Nat) /\ Len(LastOf(s, r)) = Least(r, Len(s))
  BY LastOfType
<1>2. k \in 0..Len(LastOf(s, r))
  BY <1>1, LeastType
<1> QED
  BY <1>1, <1>2, PrefixType

\* The steps of the job itself keep the state well typed.
LEMMA TypeJob == ASSUME TypeOK, Job PROVE TypeOK'
<1> USE KeptJobAssumption DEF TypeOK
<1>1. CASE JobWrite
  <2>1. JobTypeOK'
    BY <1>1 DEF JobWrite, JobTypeOK
  <2> QED
    BY <1>1, <2>1, TypeUnchanged DEF JobWrite, TypeOK
<1>2. CASE JobReadInput
  <2>1. JobTypeOK'
    BY <1>2 DEF JobReadInput, JobTypeOK
  <2> QED
    BY <1>2, <2>1, TypeUnchanged DEF JobReadInput, TypeOK
<1>3. CASE ChildExit
  <2>1. JobTypeOK'
    BY <1>3 DEF ChildExit, JobTypeOK
  <2> QED
    BY <1>3, <2>1, TypeUnchanged DEF ChildExit, TypeOK
<1>4. CASE BgExit
  <2>1. JobTypeOK'
    BY <1>4 DEF BgExit, JobTypeOK
  <2> QED
    BY <1>4, <2>1, TypeUnchanged DEF BgExit, TypeOK
<1> QED
  BY <1>1, <1>2, <1>3, <1>4 DEF Job

\* The steps of the pump thread keep the state well typed.
LEMMA TypePump == ASSUME TypeOK, Pump PROVE TypeOK'
<1> USE KeptJobAssumption DEF TypeOK
<1>1. CASE PumpRead
  <2>1. PICK n \in 1..Least(ChunkCap, written - drained) :
          LET bs == [i \in 1..n |-> drained + i] IN
            chunk' = bs /\ drained' = drained + n /\ log' \in LogWrites(bs)
    BY <1>1 DEF PumpRead
  <2> DEFINE bs == [i \in 1..n |-> drained + i]
  <2>2. n \in Nat /\ drained \in Nat
    BY <1>1, LeastType DEF PumpRead, JobTypeOK, PumpTypeOK
  <2>3. bs \in Seq(Nat)
    BY <2>2
  <2> HIDE DEF bs
  <2>4. log' \in LogWrites(bs)
    BY <2>1 DEF bs
  <2>5. log' \in [open : BOOLEAN, cur : Seq(Nat), old : Seq(Nat)]
    BY <2>3, <2>4, LogWritesType DEF PumpTypeOK
  <2>6. PumpTypeOK'
    BY <1>1, <2>1, <2>2, <2>3, <2>5 DEF PumpRead, PumpTypeOK, bs
  <2> QED
    BY <1>1, <2>6, TypeUnchanged DEF PumpRead, TypeOK
<1>2. CASE PumpForward
  <2>1. OutTypeOK'
    <3>1. ring \o chunk \in Seq(Nat)
      BY ConcatProperties DEF OutTypeOK, PumpTypeOK
    <3>2. ring' \in Seq(Nat) /\ Len(ring') <= ScrollbackCap
      BY <1>2, <3>1, LastOfType DEF PumpForward, PushRing
    <3>3. attach' = attach \/ attach' = NoAttach
      BY <1>2 DEF PumpForward, AfterFailedForward
    <3>4. attachGen' = attachGen
      BY <1>2 DEF PumpForward
    <3> QED
      BY <3>2, <3>3, <3>4 DEF OutTypeOK, NoAttach
  <2>2. PumpTypeOK'
    BY <1>2 DEF PumpForward, PumpTypeOK
  <2>3. recv' \in [Conns -> Seq(Nat)]
    <3>1. \A k \in 0..(Len(chunk) - 1) : SubSeq(chunk, 1, k) \in Seq(Nat)
      BY PrefixType DEF PumpTypeOK
    <3>2. \A d \in Conns, s \in Seq(Nat) : recv[d] \o s \in Seq(Nat)
      BY ConcatProperties DEF ConnTypeOK
    <3>3. PICK s \in Seq(Nat) :
            recv' = recv \/ recv' = [recv EXCEPT ![attach.conn] = recv[attach.conn] \o s]
      BY <1>2, <3>1 DEF PumpForward, PumpTypeOK
    <3> QED
      BY <3>2, <3>3, ExceptType DEF ConnTypeOK
  <2>4. ConnTypeOK'
    BY <1>2, <2>3 DEF PumpForward, ConnTypeOK, AfterFailedForward
  <2> QED
    BY <1>2, <2>1, <2>2, <2>4, TypeUnchanged DEF PumpForward, TypeOK
<1>3. CASE PumpWouldBlock
  <2>1. PumpTypeOK'
    BY <1>3 DEF PumpWouldBlock, PumpTypeOK
  <2> QED
    BY <1>3, <2>1, TypeUnchanged DEF PumpWouldBlock, TypeOK
<1>4. CASE PumpStillRunning
  <2>1. PumpTypeOK'
    BY <1>4 DEF PumpStillRunning, PumpTypeOK
  <2> QED
    BY <1>4, <2>1, TypeUnchanged DEF PumpStillRunning, TypeOK
<1>5. CASE PumpReap
  <2>1. JobTypeOK'
    BY <1>5 DEF PumpReap, JobTypeOK
  <2>2. StateTypeOK'
    BY <1>5 DEF PumpReap, StateTypeOK
  <2>3. PumpTypeOK'
    BY <1>5 DEF PumpReap, PumpTypeOK
  <2> QED
    BY <1>5, <2>1, <2>2, <2>3, TypeUnchanged DEF PumpReap, TypeOK
<1>6. CASE PumpFinishing
  <2>1. PumpTypeOK'
    BY <1>6 DEF PumpFinishing, PumpTypeOK, FinalizeOrDrain
  <2> QED
    BY <1>6, <2>1, TypeUnchanged DEF PumpFinishing, TypeOK
<1>7. CASE PumpPublish
  <2>1. PumpTypeOK'
    <3>1. log.cur \in Seq(Nat) => Append(log.cur, Notice) \in Seq(Nat)
      BY AppendProperties DEF Notice
    <3> QED
      BY <1>7, <3>1 DEF PumpPublish, PumpTypeOK, OutTypeOK, NoAttach
  <2>2. OutTypeOK' /\ StateTypeOK'
    BY <1>7 DEF PumpPublish, OutTypeOK, StateTypeOK, NoAttach
  <2> QED
    BY <1>7, <2>1, <2>2, TypeUnchanged DEF PumpPublish, TypeOK
<1>8. CASE PumpNotify
  <2>1. recv' \in [Conns -> Seq(Nat)]
    <3>1. \A d \in Conns : Append(recv[d], Notice) \in Seq(Nat)
      BY AppendProperties DEF ConnTypeOK, Notice
    <3>2. \/ recv' = recv
          \/ recv' = [recv EXCEPT ![notifyTo] = Append(recv[notifyTo], Notice)]
      BY <1>8 DEF PumpNotify
    <3> QED
      BY <3>1, <3>2, ExceptType DEF ConnTypeOK
  <2>2. ConnTypeOK'
    BY <1>8, <2>1 DEF PumpNotify, ConnTypeOK, HangUpNotified
  <2>3. PumpTypeOK'
    BY <1>8 DEF PumpNotify, PumpTypeOK
  <2> QED
    BY <1>8, <2>2, <2>3, TypeUnchanged DEF PumpNotify, TypeOK
<1> QED
  BY <1>1, <1>2, <1>3, <1>4, <1>5, <1>6, <1>7, <1>8 DEF Pump

\* The steps of a connection worker keep the state well typed.
LEMMA TypeWorker == ASSUME NEW c \in Conns, TypeOK, Worker(c) PROVE TypeOK'
<1> USE KeptJobAssumption DEF TypeOK
<1>1. CASE OpLock(c)
  <2>1. StateTypeOK'
    BY <1>1 DEF OpLock, StateTypeOK, Return
  <2>2. ConnTypeOK'
    BY <1>1 DEF OpLock, ConnTypeOK, Return
  <2> QED
    BY <1>1, <2>1, <2>2, TypeUnchanged DEF OpLock, TypeOK
<1>2. CASE OpDo(c)
  <2>1. StateTypeOK'
    BY <1>2 DEF OpDo, StateTypeOK, Return
  <2>2. ConnTypeOK'
    BY <1>2 DEF OpDo, ConnTypeOK, Return
  <2> QED
    BY <1>2, <2>1, <2>2, TypeUnchanged DEF OpDo, TypeOK
<1>3. CASE AttachRefused(c)
  <2>1. ConnTypeOK'
    BY <1>3 DEF AttachRefused, ConnTypeOK, Return
  <2> QED
    BY <1>3, <2>1, TypeUnchanged DEF AttachRefused, TypeOK
<1>4. CASE AttachInstall(c)
  <2>1. recv' \in [Conns -> Seq(Nat)]
    <3>1. \A r \in Replays : LastOf(ring, r) \in Seq(Nat)
      BY LastOfType DEF OutTypeOK
    <3> QED
      BY <1>4, <3>1 DEF AttachInstall, ConnTypeOK
  <2>2. OutTypeOK'
    BY <1>4 DEF AttachInstall, OutTypeOK, MayInstall
  <2>3. ConnTypeOK'
    <3>1. sock' \in [Conns -> {"none", "open", "shut", "closed"}]
      BY <1>4 DEF AttachInstall, ConnTypeOK, HangUpOld
    <3>2. token' \in [Conns -> Nat]
      BY <1>4, ExceptType DEF AttachInstall, ConnTypeOK, OutTypeOK
    <3> QED
      BY <1>4, <2>1, <3>1, <3>2 DEF AttachInstall, ConnTypeOK
  <2> QED
    BY <1>4, <2>2, <2>3, TypeUnchanged DEF AttachInstall, TypeOK
<1>5. CASE AttachFails(c)
  <2>1. recv' \in [Conns -> Seq(Nat)]
    <3>1. \A r \in Replays : \A k \in 0..(Least(r, Len(ring)) - 1) :
            SubSeq(LastOf(ring, r), 1, k) \in Seq(Nat)
      BY PartialReplayType DEF OutTypeOK
    <3>2. \/ recv' = recv
          \/ \E s \in Seq(Nat) : recv' = [recv EXCEPT ![c] = s]
      BY <1>5, <3>1 DEF AttachFails
    <3> QED
      BY <3>2, ExceptType DEF ConnTypeOK
  <2>2. OutTypeOK'
    BY <1>5 DEF AttachFails, OutTypeOK, NoAttach
  <2>3. ConnTypeOK'
    <3>1. HangUpOld \in [Conns -> {"none", "open", "shut", "closed"}]
      BY DEF HangUpOld, ConnTypeOK
    <3>2. sock' \in [Conns -> {"none", "open", "shut", "closed"}]
      BY <1>5, <3>1 DEF AttachFails
    <3>3. token' \in [Conns -> Nat]
      <4>1. token' = token \/ token' = [token EXCEPT ![c] = attachGen + 1]
        BY <1>5 DEF AttachFails
      <4> QED
        BY <4>1, ExceptType DEF ConnTypeOK, OutTypeOK
    <3> QED
      BY <1>5, <2>1, <3>2, <3>3 DEF AttachFails, ConnTypeOK
  <2> QED
    BY <1>5, <2>2, <2>3, TypeUnchanged DEF AttachFails, TypeOK
<1>6. CASE InputRead(c)
  <2>1. ConnTypeOK'
    BY <1>6 DEF InputRead, ConnTypeOK
  <2> QED
    BY <1>6, <2>1, TypeUnchanged DEF InputRead, TypeOK
<1>7. CASE InputLock(c)
  <2>1. StateTypeOK'
    BY <1>7 DEF InputLock, StateTypeOK
  <2>2. ConnTypeOK'
    <3>1. CASE runState = "running"
      BY <1>7, <3>1 DEF InputLock, ConnTypeOK
    <3>2. CASE runState # "running"
      <4>1. pend' = [pend EXCEPT ![c] = 0]
        BY <1>7, <3>2 DEF InputLock
      <4>2. pend' \in [Conns -> Nat]
        BY <4>1, ExceptType DEF ConnTypeOK
      <4> QED
        BY <1>7, <3>2, <4>2 DEF InputLock, ConnTypeOK
    <3> QED
      BY <3>1, <3>2
  <2> QED
    BY <1>7, <2>1, <2>2, TypeUnchanged DEF InputLock, TypeOK
<1>8. CASE InputWrite(c)
  <2>1. StateTypeOK' /\ JobTypeOK'
    BY <1>8 DEF InputWrite, StateTypeOK, JobTypeOK
  <2>2. ConnTypeOK'
    <3>1. pend[c] - 1 \in Nat
      BY <1>8 DEF InputWrite, ConnTypeOK
    <3>2. pend' \in [Conns -> Nat]
      BY <1>8, <3>1, ExceptType DEF InputWrite, ConnTypeOK
    <3>3. \/ connPc' = connPc
          \/ connPc' = [connPc EXCEPT ![c] = "pump"]
      BY <1>8 DEF InputWrite
    <3> QED
      BY <1>8, <3>2, <3>3 DEF InputWrite, ConnTypeOK
  <2> QED
    BY <1>8, <2>1, <2>2, TypeUnchanged DEF InputWrite, TypeOK
<1>9. CASE InputError(c)
  <2>1. StateTypeOK'
    BY <1>9 DEF InputError, StateTypeOK
  <2>2. ConnTypeOK'
    BY <1>9 DEF InputError, ConnTypeOK
  <2> QED
    BY <1>9, <2>1, <2>2, TypeUnchanged DEF InputError, TypeOK
<1>10. CASE StreamEnd(c)
  <2>1. ConnTypeOK'
    BY <1>10 DEF StreamEnd, ConnTypeOK
  <2> QED
    BY <1>10, <2>1, TypeUnchanged DEF StreamEnd, TypeOK
<1>11. CASE Detach(c)
  <2>1. OutTypeOK'
    BY <1>11 DEF Detach, OutTypeOK, OwnsSlot, NoAttach
  <2>2. ConnTypeOK'
    BY <1>11 DEF Detach, ConnTypeOK, OwnsSlot, NoAttach
  <2> QED
    BY <1>11, <2>1, <2>2, TypeUnchanged DEF Detach, TypeOK
<1>12. CASE CheckExited(c)
  <2>1. ConnTypeOK'
    BY <1>12 DEF CheckExited, ConnTypeOK, Return
  <2> QED
    BY <1>12, <2>1, TypeUnchanged DEF CheckExited, TypeOK
<1>13. CASE InfoState(c)
  <2>1. ConnTypeOK'
    BY <1>13 DEF InfoState, ConnTypeOK, NotRead, StateTypeOK
  <2> QED
    BY <1>13, <2>1, TypeUnchanged DEF InfoState, TypeOK
<1>14. CASE InfoAttached(c)
  <2>1. ConnTypeOK'
    BY <1>14 DEF InfoAttached, ConnTypeOK, NotRead, Return
  <2> QED
    BY <1>14, <2>1, TypeUnchanged DEF InfoAttached, TypeOK
<1> QED
  BY <1>1, <1>2, <1>3, <1>4, <1>5, <1>6, <1>7, <1>8, <1>9, <1>10, <1>11,
     <1>12, <1>13, <1>14 DEF Worker

\* The steps of a client keep the state well typed.
LEMMA TypeClient == ASSUME NEW c \in Conns, TypeOK, Client(c) PROVE TypeOK'
<1> USE KeptJobAssumption DEF TypeOK
<1>1. CASE ClientSend(c)
  <2>1. ConnTypeOK'
    BY <1>1 DEF ClientSend, ConnTypeOK
  <2> QED
    BY <1>1, <2>1, TypeUnchanged DEF ClientSend, TypeOK
<1>2. CASE ClientClose(c)
  <2>1. ConnTypeOK'
    BY <1>2 DEF ClientClose, ConnTypeOK
  <2> QED
    BY <1>2, <2>1, TypeUnchanged DEF ClientClose, TypeOK
<1>3. CASE \E k \in Kinds : Connect(c, k)
  <2>1. ConnTypeOK'
    BY <1>3 DEF Connect, ConnTypeOK
  <2> QED
    BY <1>3, <2>1, TypeUnchanged DEF Connect, TypeOK
<1> QED
  BY <1>1, <1>2, <1>3 DEF Client

\* The state of a kept job is always well typed and its scrollback bounded.
THEOREM TypeCorrect == Spec => []TypeOK
<1>1. TypeOK /\ [Next]_vars => TypeOK'
  BY TypeJob, TypePump, TypeClient, TypeWorker, TypeUnchanged DEF Next, vars, TypeOK
<1> QED
  BY <1>1, TypeInit, PTL DEF Spec

-----------------------------------------------------------------------------
(* The lock discipline. *)

\* Exactly the workers inside a pid or controller operation hold the state
\* lock, only while the job runs, and a running job's child is not reaped.
LockInv ==
  /\ \A c \in Conns : connPc[c] \in {"op", "inwrite"} <=> stateLock = c
  /\ stateLock # NoConn => runState = "running"
  /\ runState = "running" => child # "reaped"

\* LockInv is inductive: no step lets the pump reap while an operation on
\* the pid is in progress.
LEMMA LockStep ==
  ASSUME TypeOK, LockInv, Next PROVE LockInv'
<1> USE KeptJobAssumption DEF TypeOK, JobTypeOK, StateTypeOK, ConnTypeOK, LockInv
<1>1. CASE JobWrite
  BY <1>1 DEF JobWrite, connVars, jobVars
<1>2. CASE JobReadInput
  BY <1>2 DEF JobReadInput, connVars, jobVars
<1>3. CASE ChildExit
  BY <1>3 DEF ChildExit, connVars, jobVars
<1>4. CASE BgExit
  BY <1>4 DEF BgExit, connVars, jobVars
<1>5. CASE PumpRead
  BY <1>5 DEF PumpRead, connVars, jobVars
<1>6. CASE PumpForward
  BY <1>6 DEF PumpForward, connVars, jobVars
<1>7. CASE PumpWouldBlock
  BY <1>7 DEF PumpWouldBlock, connVars, jobVars
<1>8. CASE PumpStillRunning
  BY <1>8 DEF PumpStillRunning, PumpMayWait, connVars, jobVars
<1>9. CASE PumpReap
  BY <1>9 DEF PumpReap, PumpMayWait, connVars, jobVars
<1>10. CASE PumpFinishing
  BY <1>10 DEF PumpFinishing, connVars, jobVars
<1>11. CASE PumpPublish
  BY <1>11 DEF PumpPublish, connVars, jobVars
<1>12. CASE PumpNotify
  BY <1>12 DEF PumpNotify, connVars, jobVars
<1>13. ASSUME NEW c \in Conns, Client(c) PROVE LockInv'
  <2>1. CASE \E k \in Kinds : Connect(c, k)
    BY <2>1 DEF Connect, jobVars
  <2>2. CASE ClientSend(c)
    BY <2>2 DEF ClientSend, jobVars
  <2>3. CASE ClientClose(c)
    BY <2>3 DEF ClientClose, jobVars
  <2> QED
    BY <1>13, <2>1, <2>2, <2>3 DEF Client
<1>14. ASSUME NEW c \in Conns, Worker(c) PROVE LockInv'
  <2>1. CASE OpLock(c)
    BY <2>1 DEF OpLock, Return, jobVars
  <2>2. CASE OpDo(c)
    BY <2>2 DEF OpDo, Return, jobVars
  <2>3. CASE AttachRefused(c)
    BY <2>3 DEF AttachRefused, Return, jobVars
  <2>4. CASE AttachInstall(c)
    BY <2>4 DEF AttachInstall, jobVars
  <2>5. CASE AttachFails(c)
    BY <2>5 DEF AttachFails, jobVars
  <2>6. CASE InputRead(c)
    BY <2>6 DEF InputRead, jobVars
  <2>7. CASE InputLock(c)
    BY <2>7 DEF InputLock, jobVars
  <2>8. CASE InputWrite(c)
    <3>1. CASE pend[c] = 1
      <4>1. /\ stateLock = c /\ stateLock' = NoConn
            /\ connPc' = [connPc EXCEPT ![c] = "pump"]
            /\ UNCHANGED <<runState, child>>
        BY <2>8, <3>1 DEF InputWrite
      <4> QED
        BY <4>1
    <3>2. CASE pend[c] # 1
      BY <2>8, <3>2 DEF InputWrite
    <3> QED
      BY <3>1, <3>2
  <2>9. CASE InputError(c)
    BY <2>9 DEF InputError, jobVars
  <2>10. CASE StreamEnd(c)
    BY <2>10 DEF StreamEnd, jobVars
  <2>11. CASE Detach(c)
    BY <2>11 DEF Detach, jobVars
  <2>12. CASE CheckExited(c)
    BY <2>12 DEF CheckExited, Return, jobVars
  <2>13. CASE InfoState(c)
    BY <2>13 DEF InfoState, jobVars
  <2>14. CASE InfoAttached(c)
    BY <2>14 DEF InfoAttached, Return, jobVars
  <2> QED
    BY <1>14, <2>1, <2>2, <2>3, <2>4, <2>5, <2>6, <2>7, <2>8, <2>9, <2>10,
     <2>11, <2>12, <2>13, <2>14 DEF Worker
<1> QED
  BY <1>1, <1>2, <1>3, <1>4, <1>5, <1>6, <1>7, <1>8, <1>9, <1>10, <1>11,
     <1>12, <1>13, <1>14 DEF Next, Job, Pump

\* Signals, resizes and input writes only ever reach a child that has not been
\* reaped: with_running_state holds the lock across the whole operation.
THEOREM PidOpsSafe == Spec => []PidOpsTargetUnreapedChild
<1>1. Init => LockInv
  BY KeptJobAssumption DEF Init, LockInv
<1>2. TypeOK /\ LockInv /\ [Next]_vars => LockInv'
  <2>1. LockInv /\ UNCHANGED vars => LockInv'
    BY DEF LockInv, vars, jobVars, connVars
  <2> QED
    BY <2>1, LockStep
<1>3. TypeOK /\ LockInv => PidOpsTargetUnreapedChild
  BY KeptJobAssumption DEF LockInv, PidOpsTargetUnreapedChild, TypeOK, StateTypeOK
<1> QED
  BY <1>1, <1>2, <1>3, TypeCorrect, PTL DEF Spec

-----------------------------------------------------------------------------
(* The attach slot. *)

\* An empty slot is NoAttach; the exit is published exactly when the pump is
\* past it, and from then on the slot stays empty.
SlotInv ==
  /\ attach.conn = NoConn <=> attach = NoAttach
  /\ runState = "exited" <=> pumpPc \in {"notify", "done"}
  /\ runState = "exited" => attach = NoAttach
  /\ pumpPc = "publish" => runState = "finishing"

\* SlotInv is inductive: no step leaves a client in the slot of an exited job.
LEMMA SlotStep ==
  ASSUME TypeOK, SlotInv, Next PROVE SlotInv'
<1> USE KeptJobAssumption DEF TypeOK, OutTypeOK, StateTypeOK, SlotInv, NoAttach
<1>1. CASE JobWrite
  BY <1>1 DEF JobWrite, outVars, pumpVars
<1>2. CASE JobReadInput
  BY <1>2 DEF JobReadInput, outVars, pumpVars
<1>3. CASE ChildExit
  BY <1>3 DEF ChildExit, outVars, pumpVars
<1>4. CASE BgExit
  BY <1>4 DEF BgExit, outVars, pumpVars
<1>5. CASE PumpRead
  BY <1>5 DEF PumpRead, outVars, pumpVars
<1>6. CASE PumpForward
  <2>1. attach' = attach \/ attach' = NoAttach
    BY <1>6 DEF PumpForward, AfterFailedForward
  <2>2. pumpPc = "forward" /\ pumpPc' = "drain" /\ UNCHANGED runState
    BY <1>6 DEF PumpForward
  <2> QED
    BY <2>1, <2>2
<1>7. CASE PumpWouldBlock
  BY <1>7 DEF PumpWouldBlock, outVars, pumpVars
<1>8. CASE PumpStillRunning
  BY <1>8 DEF PumpStillRunning, PumpMayWait, outVars, pumpVars
<1>9. CASE PumpReap
  BY <1>9 DEF PumpReap, PumpMayWait, outVars, pumpVars
<1>10. CASE PumpFinishing
  BY <1>10 DEF PumpFinishing, FinalizeOrDrain, outVars, pumpVars
<1>11. CASE PumpPublish
  BY <1>11 DEF PumpPublish, outVars, pumpVars
<1>12. CASE PumpNotify
  BY <1>12 DEF PumpNotify, outVars, pumpVars
<1>13. ASSUME NEW c \in Conns, Client(c) PROVE SlotInv'
  <2>1. CASE \E k \in Kinds : Connect(c, k)
    BY <2>1 DEF Connect, outVars, pumpVars
  <2>2. CASE ClientSend(c)
    BY <2>2 DEF ClientSend, outVars, pumpVars
  <2>3. CASE ClientClose(c)
    BY <2>3 DEF ClientClose, outVars, pumpVars
  <2> QED
    BY <1>13, <2>1, <2>2, <2>3 DEF Client
<1>14. ASSUME NEW c \in Conns, Worker(c) PROVE SlotInv'
  <2>1. CASE OpLock(c)
    BY <2>1 DEF OpLock, Return, outVars, pumpVars
  <2>2. CASE OpDo(c)
    BY <2>2 DEF OpDo, Return, outVars, pumpVars
  <2>3. CASE AttachRefused(c)
    BY <2>3 DEF AttachRefused, Return, outVars, pumpVars
  <2>4. CASE AttachInstall(c)
    BY <2>4 DEF AttachInstall, MayInstall, outVars, pumpVars
  <2>5. CASE AttachFails(c)
    BY <2>5 DEF AttachFails, MayInstall, outVars, pumpVars
  <2>6. CASE InputRead(c)
    BY <2>6 DEF InputRead, outVars, pumpVars
  <2>7. CASE InputLock(c)
    BY <2>7 DEF InputLock, outVars, pumpVars
  <2>8. CASE InputWrite(c)
    BY <2>8 DEF InputWrite, outVars, pumpVars
  <2>9. CASE InputError(c)
    BY <2>9 DEF InputError, outVars, pumpVars
  <2>10. CASE StreamEnd(c)
    BY <2>10 DEF StreamEnd, outVars, pumpVars
  <2>11. CASE Detach(c)
    BY <2>11 DEF Detach, OwnsSlot, outVars, pumpVars
  <2>12. CASE CheckExited(c)
    BY <2>12 DEF CheckExited, Return, outVars, pumpVars
  <2>13. CASE InfoState(c)
    BY <2>13 DEF InfoState, outVars, pumpVars
  <2>14. CASE InfoAttached(c)
    BY <2>14 DEF InfoAttached, Return, outVars, pumpVars
  <2> QED
    BY <1>14, <2>1, <2>2, <2>3, <2>4, <2>5, <2>6, <2>7, <2>8, <2>9, <2>10,
     <2>11, <2>12, <2>13, <2>14 DEF Worker
<1> QED
  BY <1>1, <1>2, <1>3, <1>4, <1>5, <1>6, <1>7, <1>8, <1>9, <1>10, <1>11,
     <1>12, <1>13, <1>14 DEF Next, Job, Pump

\* Types and the slot discipline hold throughout.
LEMMA SlotInvariant == Spec => [](TypeOK /\ SlotInv)
<1>1. Init => SlotInv
  BY KeptJobAssumption DEF Init, SlotInv, NoAttach
<1>2. TypeOK /\ SlotInv /\ [Next]_vars => SlotInv'
  <2>1. SlotInv /\ UNCHANGED vars => SlotInv'
    BY DEF SlotInv, vars, outVars, pumpVars
  <2> QED
    BY <2>1, SlotStep
<1> QED
  BY <1>1, <1>2, TypeCorrect, PTL DEF Spec

\* Every step of the threaded job is a step of the contract or leaves the
\* phase, the holder and the generation alone.
LEMMA ContractStep ==
  ASSUME TypeOK, SlotInv, SlotInv', Next
  PROVE  [Contract!Next]_(Contract!contractVars)
<1> DEFINE Quiet == UNCHANGED <<runState, attach, attachGen>>
           Dropped == /\ runState # "exited" /\ attach' = NoAttach
                      /\ UNCHANGED <<runState, attachGen>>
<1>q. Quiet => UNCHANGED Contract!contractVars
  BY DEF Contract!contractVars
<1>d. Dropped => Contract!Drop
  BY DEF Contract!Drop, NoAttach
<1>1. CASE Job
  BY <1>1, <1>q DEF Job, JobWrite, JobReadInput, ChildExit, BgExit, outVars
<1>2. CASE PumpForward
  <2>1. attach' = attach \/ attach' = NoAttach
    BY <1>2 DEF PumpForward, AfterFailedForward
  <2>2. runState # "exited" /\ UNCHANGED <<runState, attachGen>>
    BY <1>2 DEF PumpForward, SlotInv
  <2>3. Quiet \/ Dropped
    BY <2>1, <2>2
  <2> QED
    BY <2>3, <1>q, <1>d DEF Contract!Next
<1>3. CASE PumpReap
  BY <1>3 DEF PumpReap, PumpMayWait, Contract!Next, Contract!Reap, outVars
<1>4. CASE PumpPublish
  BY <1>4 DEF PumpPublish, Contract!Next, Contract!Exit, SlotInv, NoAttach
<1>5. CASE PumpRead \/ PumpWouldBlock \/ PumpStillRunning \/ PumpFinishing \/ PumpNotify
  BY <1>5, <1>q
     DEF PumpRead, PumpWouldBlock, PumpStillRunning, PumpFinishing, PumpNotify, outVars
<1>6. ASSUME NEW c \in Conns, Client(c) PROVE Quiet
  BY <1>6 DEF Client, Connect, ClientSend, ClientClose, outVars
<1>7. ASSUME NEW c \in Conns, Worker(c)
      PROVE  [Contract!Next]_(Contract!contractVars)
  <2>1. CASE AttachInstall(c)
    BY <2>1 DEF AttachInstall, MayInstall, Contract!Next, Contract!Attach
  <2>2. CASE AttachFails(c)
    <3>1. Dropped
      BY <2>2 DEF AttachFails, MayInstall
    <3> QED
      BY <3>1, <1>d DEF Contract!Next
  <2>3. CASE Detach(c)
    <3>1. Dropped \/ Quiet
      BY <2>3 DEF Detach, OwnsSlot, SlotInv
    <3> QED
      BY <3>1, <1>d, <1>q DEF Contract!Next
  <2>4. CASE OpLock(c) \/ OpDo(c) \/ AttachRefused(c) \/ InputRead(c) \/ InputLock(c)
    BY <2>4, <1>q DEF OpLock, OpDo, AttachRefused, InputRead, InputLock, outVars
  <2>5. CASE InputWrite(c) \/ InputError(c) \/ StreamEnd(c) \/ CheckExited(c)
    BY <2>5, <1>q DEF InputWrite, InputError, StreamEnd, CheckExited, outVars
  <2>6. CASE InfoState(c) \/ InfoAttached(c)
    BY <2>6, <1>q DEF InfoState, InfoAttached, outVars
  <2> QED
    BY <1>7, <2>1, <2>2, <2>3, <2>4, <2>5, <2>6 DEF Worker
<1> QED
  BY <1>1, <1>2, <1>3, <1>4, <1>5, <1>6, <1>7, <1>q, <1>d DEF Next, Pump, Contract!Next

\* The daemon's kept job implements JobContract: phases move forward only, the
\* last client to attach holds the job, and the exit empties the slot.
THEOREM Refinement == Spec => ImplementsContract
<1>1. Init => Contract!Init
  BY DEF Init, Contract!Init, NoAttach
<1>2. TypeOK /\ SlotInv /\ SlotInv' /\ [Next]_vars
        => [Contract!Next]_(Contract!contractVars)
  <2>1. UNCHANGED vars => UNCHANGED Contract!contractVars
    BY DEF vars, outVars, Contract!contractVars
  <2> QED
    BY <2>1, ContractStep
<1> QED
  BY <1>1, <1>2, SlotInvariant, PTL DEF Spec, ImplementsContract, Contract!Spec

-----------------------------------------------------------------------------
(* The attached client and the status answers. *)

\* Where the worker of a client that attached still may clear the slot.
Pumping(c) == connPc[c] \in {"pump", "inlock", "inwrite", "detach"}

\* The generation in the slot is its holder's token and no other client still
\* pumping input has that token; a client that is connected and not on its way
\* out holds the slot; an exit that a status answer has read stays true.
AttachInv ==
  /\ attach # NoAttach => Pumping(attach.conn) /\ attach.gen = token[attach.conn]
  /\ \A c \in Conns : Pumping(c) => token[c] <= attachGen
  /\ \A c, d \in Conns : Pumping(c) /\ Pumping(d) /\ token[c] = token[d] => c = d
  /\ \A c \in Conns : connPc[c] \in {"pump", "inlock", "inwrite"} /\ sock[c] = "open"
                      => attach.conn = c \/ runState = "exited"
  /\ \A c \in Conns : obs[c].state = "exited" => runState = "exited"
  /\ \A c \in Conns : obs[c].attached => obs[c].state \notin {"exited", NotRead}

\* A step that leaves the slot, the workers, the sockets and the answers alone
\* and does not take an exit back.
LEMMA AttachFrame ==
  ASSUME TypeOK, AttachInv, UNCHANGED <<attach, attachGen, token, connPc, sock, obs>>,
         runState = "exited" => runState' = "exited"
  PROVE  AttachInv'
BY DEF AttachInv, Pumping

\* A worker's step that keeps the slot, and its place in or out of Pumping.
LEMMA AttachWorkerFrame ==
  ASSUME TypeOK, SlotInv, AttachInv, NEW c \in Conns, NEW label, NEW s,
         connPc' = [connPc EXCEPT ![c] = label], sock' = [sock EXCEPT ![c] = s],
         UNCHANGED <<attach, attachGen, token, obs, runState>>,
         label \in {"pump", "inlock", "inwrite"} =>
            connPc[c] \in {"pump", "inlock", "inwrite"} /\ s = sock[c],
         Pumping(c) <=> label \in {"pump", "inlock", "inwrite", "detach"}
  PROVE  AttachInv'
<1>1. \A d \in Conns : connPc'[d] = IF d = c THEN label ELSE connPc[d]
  BY DEF TypeOK, ConnTypeOK
<1>2. \A d \in Conns : sock'[d] = IF d = c THEN s ELSE sock[d]
  BY DEF TypeOK, ConnTypeOK
<1>3. \A d \in Conns : Pumping(d)' <=> Pumping(d)
  BY <1>1 DEF Pumping
<1>4. \A d \in Conns : connPc'[d] \in {"pump", "inlock", "inwrite"} /\ sock'[d] = "open"
                       => connPc[d] \in {"pump", "inlock", "inwrite"} /\ sock[d] = "open"
  BY <1>1, <1>2
<1>5. attach # NoAttach => attach.conn \in Conns
  BY KeptJobAssumption DEF TypeOK, OutTypeOK, SlotInv
<1>6. (attach # NoAttach => Pumping(attach.conn) /\ attach.gen = token[attach.conn])'
  BY <1>3, <1>5 DEF AttachInv
<1>7. (\A d \in Conns : Pumping(d) => token[d] <= attachGen)'
  BY <1>3 DEF AttachInv
<1>8. (\A a, d \in Conns : Pumping(a) /\ Pumping(d) /\ token[a] = token[d] => a = d)'
  BY <1>3 DEF AttachInv
<1>9. (\A d \in Conns : connPc[d] \in {"pump", "inlock", "inwrite"} /\ sock[d] = "open"
                        => attach.conn = d \/ runState = "exited")'
  BY <1>4 DEF AttachInv
<1> HIDE DEF Pumping
<1> QED BY <1>6, <1>7, <1>8, <1>9 DEF AttachInv

\* AttachInv is inductive: no failed write, takeover or stale detach cuts a
\* connected client off, and no answer calls a finished job attached.
LEMMA AttachStep ==
  ASSUME TypeOK, SlotInv, AttachInv, Next PROVE AttachInv'
<1> USE KeptJobAssumption
<1>t. /\ connPc \in [Conns -> {"idle", "oplock", "op", "install", "pump", "inlock",
                              "inwrite", "detach", "check", "info", "done"}]
      /\ sock \in [Conns -> {"none", "open", "shut", "closed"}]
      /\ token \in [Conns -> Nat] /\ attachGen \in Nat
      /\ attach # NoAttach => attach.conn \in Conns
      /\ attach.conn = NoConn <=> attach = NoAttach
      /\ obs \in [Conns -> [state : {"running", "finishing", "exited", NotRead},
                            attached : BOOLEAN]]
  BY DEF TypeOK, ConnTypeOK, OutTypeOK, SlotInv
<1>1. CASE Job
  BY <1>1, AttachFrame DEF Job, JobWrite, JobReadInput, ChildExit, BgExit, outVars, connVars
<1>2. CASE PumpRead \/ PumpWouldBlock \/ PumpStillRunning \/ PumpFinishing
  BY <1>2, AttachFrame
     DEF PumpRead, PumpWouldBlock, PumpStillRunning, PumpFinishing, outVars, connVars
<1>3. CASE PumpReap
  BY <1>3, AttachFrame DEF PumpReap, PumpMayWait, outVars, connVars
<1>4. CASE PumpForward
  <2>1. CASE UNCHANGED <<attach, sock>>
    BY <1>4, <2>1, AttachFrame DEF PumpForward
  <2>2. CASE /\ attach # NoAttach /\ attach' = NoAttach
             /\ sock' = [sock EXCEPT ![attach.conn] = "shut"]
    <3>1. UNCHANGED <<attachGen, token, connPc, obs, runState>>
      BY <1>4 DEF PumpForward
    <3> QED BY <1>t, <2>2, <3>1 DEF AttachInv, Pumping
  <2> QED BY <1>4, <2>1, <2>2 DEF PumpForward, AfterFailedForward
<1>5. CASE PumpPublish
  <2>1. /\ attach' = NoAttach /\ runState' = "exited"
        /\ UNCHANGED <<attachGen, token, connPc, sock, obs>>
    BY <1>5 DEF PumpPublish, connVars
  <2> QED BY <1>t, <2>1 DEF AttachInv, Pumping
<1>6. CASE PumpNotify
  <2>1. /\ sock' = [sock EXCEPT ![notifyTo] = "shut"]
        /\ UNCHANGED <<attach, attachGen, token, connPc, obs, runState>>
    BY <1>6 DEF PumpNotify, HangUpNotified, outVars
  <2>2. \A c \in Conns : sock'[c] = "open" => sock[c] = "open"
    BY <1>t, <2>1
  <2> QED BY <1>t, <2>1, <2>2 DEF AttachInv, Pumping
<1>7. ASSUME NEW c \in Conns, Client(c) PROVE AttachInv'
  <2>1. CASE \E k \in Kinds : Connect(c, k)
    <3>1. /\ connPc[c] = "idle" /\ sock' = [sock EXCEPT ![c] = "open"]
          /\ \E label \in {"info", "oplock"} : connPc' = [connPc EXCEPT ![c] = label]
          /\ UNCHANGED <<attach, attachGen, token, obs, runState>>
      BY <2>1 DEF Connect, outVars
    <3> QED BY <3>1, AttachWorkerFrame DEF Pumping
  <2>2. CASE ClientSend(c)
    BY <2>2, AttachFrame DEF ClientSend, outVars
  <2>3. CASE ClientClose(c)
    <3>1. /\ sock' = [sock EXCEPT ![c] = "closed"]
          /\ UNCHANGED <<attach, attachGen, token, connPc, obs, runState>>
      BY <2>3 DEF ClientClose, outVars
    <3> QED BY <1>t, <3>1 DEF AttachInv, Pumping
  <2> QED BY <1>7, <2>1, <2>2, <2>3 DEF Client
<1>8. ASSUME NEW c \in Conns, Worker(c) PROVE AttachInv'
  <2> DEFINE Moves(from, to) ==
        /\ connPc[c] \in from /\ \E l \in to : connPc' = [connPc EXCEPT ![c] = l]
        /\ \E s : sock' = [sock EXCEPT ![c] = s]
        /\ UNCHANGED <<attach, attachGen, token, obs, runState>>
  <2>m. /\ Moves({"oplock", "op", "install", "check"}, {"op", "install", "done"}) => AttachInv'
        /\ Moves({"pump", "inlock", "inwrite"}, {"detach"}) => AttachInv'
    BY AttachWorkerFrame, Zenon DEF Pumping
  <2>s. sock' = sock => \E s : sock' = [sock EXCEPT ![c] = s]
    BY <1>t
  <2>i. ASSUME connPc[c] \in {"pump", "inlock", "inwrite"},
               \E l \in {"pump", "inlock", "inwrite"} : connPc' = [connPc EXCEPT ![c] = l],
               UNCHANGED <<sock, attach, attachGen, token, obs, runState>>
        PROVE  AttachInv'
    BY <1>t, <2>i DEF AttachInv, Pumping
  <2>1. CASE OpLock(c)
    <3>1. Moves({"oplock", "op", "install", "check"}, {"op", "install", "done"})
      BY <2>1, <2>s DEF OpLock, Return, outVars
    <3> QED BY <3>1, <2>m
  <2>2. CASE OpDo(c)
    <3>1. Moves({"oplock", "op", "install", "check"}, {"op", "install", "done"})
      BY <2>2, <2>s DEF OpDo, Return, outVars
    <3> QED BY <3>1, <2>m
  <2>3. CASE AttachRefused(c) \/ CheckExited(c)
    <3>1. Moves({"oplock", "op", "install", "check"}, {"op", "install", "done"})
      BY <2>3, <2>s DEF AttachRefused, CheckExited, Return, outVars
    <3> QED BY <3>1, <2>m
  <2>4. CASE AttachInstall(c)
    <3>1. /\ connPc[c] = "install" /\ sock' = HangUpOld
          /\ token' = [token EXCEPT ![c] = attachGen + 1]
          /\ attachGen' = attachGen + 1
          /\ attach' = [conn |-> c, gen |-> attachGen + 1]
          /\ connPc' = [connPc EXCEPT ![c] = "pump"]
          /\ UNCHANGED <<obs, runState>>
      BY <2>4 DEF AttachInstall
    <3>2. \A d \in Conns : d # c => /\ token'[d] = token[d] /\ connPc'[d] = connPc[d]
                                    /\ Pumping(d) => token[d] # attachGen + 1
      BY <1>t, <3>1 DEF AttachInv
    <3>3. token'[c] = attachGen + 1 /\ connPc'[c] = "pump" /\ attach'.conn = c
      BY <1>t, <3>1
    <3>4. \A d \in Conns : d # c /\ sock'[d] = "open" /\ runState # "exited"
                           => connPc[d] \notin {"pump", "inlock", "inwrite"}
      <4>1. CASE attach = NoAttach
        BY <1>t, <3>1, <4>1 DEF HangUpOld, AttachInv
      <4>2. CASE attach # NoAttach
        <5>1. sock' = [sock EXCEPT ![attach.conn] = "shut"]
          BY <3>1, <4>2 DEF HangUpOld
        <5> QED BY <1>t, <5>1 DEF AttachInv
      <4> QED BY <4>1, <4>2
    <3>5. \A d \in Conns : Pumping(d)' <=> d = c \/ Pumping(d)
      BY <3>2, <3>3 DEF Pumping
    <3>6. (attach # NoAttach => Pumping(attach.conn) /\ attach.gen = token[attach.conn])'
      BY <3>1, <3>3, <3>5
    <3>7. (\A d \in Conns : Pumping(d) => token[d] <= attachGen)'
      BY <1>t, <3>1, <3>2, <3>3, <3>5 DEF AttachInv
    <3>8. (\A a, d \in Conns : Pumping(a) /\ Pumping(d) /\ token[a] = token[d] => a = d)'
      BY <3>2, <3>3, <3>5 DEF AttachInv
    <3> QED BY <3>1, <3>2, <3>3, <3>4, <3>6, <3>7, <3>8 DEF AttachInv
  <2>5. CASE AttachFails(c)
    <3>1. /\ connPc[c] = "install" /\ attach' = NoAttach
          /\ connPc' = [connPc EXCEPT ![c] = "done"]
          /\ UNCHANGED <<attachGen, obs, runState>>
          /\ sock' = [HangUpOld EXCEPT ![c] = IF @ = "open" THEN "shut" ELSE @]
          /\ token' = token \/ token' = [token EXCEPT ![c] = attachGen + 1]
      BY <2>5 DEF AttachFails
    <3>2. HangUpOld \in [Conns -> {"none", "open", "shut", "closed"}]
      BY <1>t DEF HangUpOld
    <3>3. \A d \in Conns : sock'[d] = "open" => HangUpOld[d] = "open"
      BY <3>1, <3>2
    <3>4. \A d \in Conns : HangUpOld[d] = "open" /\ connPc[d] \in {"pump", "inlock", "inwrite"}
                           => runState = "exited"
      BY <1>t DEF HangUpOld, AttachInv
    <3>5. \A d \in Conns : d # c => token'[d] = token[d] /\ connPc'[d] = connPc[d]
      BY <1>t, <3>1
    <3>6. connPc'[c] = "done"
      BY <1>t, <3>1
    <3> HIDE DEF HangUpOld
    <3> QED BY <1>t, <3>1, <3>3, <3>4, <3>5, <3>6 DEF AttachInv, Pumping
  <2>6. CASE InputRead(c)
    BY <2>6, <2>i DEF InputRead, outVars
  <2>7. CASE InputLock(c)
    BY <2>7, <2>i DEF InputLock, outVars
  <2>8. CASE InputWrite(c)
    <3>1. connPc' = connPc => connPc' = [connPc EXCEPT ![c] = connPc[c]]
      BY <1>t
    <3> QED BY <2>8, <2>i, <3>1 DEF InputWrite, outVars
  <2>9. CASE InputError(c) \/ StreamEnd(c)
    <3>1. Moves({"pump", "inlock", "inwrite"}, {"detach"})
      BY <2>9, <2>s DEF InputError, StreamEnd, outVars
    <3> QED BY <3>1, <2>m
  <2>10. CASE Detach(c)
    <3>1. /\ connPc[c] = "detach" /\ connPc' = [connPc EXCEPT ![c] = "check"]
          /\ attach' = IF OwnsSlot(c) THEN NoAttach ELSE attach
          /\ UNCHANGED <<attachGen, sock, token, obs, runState>>
      BY <2>10 DEF Detach
    <3>2. OwnsSlot(c) => attach.conn = c
      BY <1>t, <3>1 DEF OwnsSlot, AttachInv, Pumping
    <3>3. ~OwnsSlot(c) /\ attach # NoAttach => attach.conn # c
      BY <1>t DEF OwnsSlot, AttachInv
    <3>4. \A d \in Conns : connPc'[d] = IF d = c THEN "check" ELSE connPc[d]
      BY <1>t, <3>1
    <3> QED BY <1>t, <3>1, <3>2, <3>3, <3>4 DEF AttachInv, Pumping
  <2>11. CASE InfoState(c)
    <3>1. /\ connPc[c] = "info" /\ obs' = [obs EXCEPT ![c].state = runState]
          /\ obs[c].state = NotRead
          /\ UNCHANGED <<attach, attachGen, token, connPc, sock, runState>>
      BY <2>11 DEF InfoState, outVars
    <3>2. /\ obs'[c].state = runState /\ obs'[c].attached = obs[c].attached
          /\ \A d \in Conns : d # c => obs'[d] = obs[d]
      BY <1>t, <3>1
    <3>3. ~obs[c].attached
      BY <3>1 DEF AttachInv
    <3>4. \A d \in Conns : /\ obs'[d].state = "exited" => runState' = "exited"
                           /\ obs'[d].attached => obs'[d].state \notin {"exited", NotRead}
      BY <3>1, <3>2, <3>3 DEF AttachInv
    <3> QED BY <1>t, <3>1, <3>4 DEF AttachInv, Pumping
  <2>12. CASE InfoAttached(c)
    <3>1. /\ connPc[c] = "info" /\ obs' = [obs EXCEPT ![c].attached = (attach # NoAttach)]
          /\ connPc' = [connPc EXCEPT ![c] = "done"]
          /\ sock' = [sock EXCEPT ![c] = IF @ = "open" THEN "shut" ELSE @]
          /\ obs[c].state # NotRead
          /\ UNCHANGED <<attach, attachGen, token, runState>>
      BY <2>12 DEF InfoAttached, Return, outVars
    <3>2. \A d \in Conns : obs'[d].state = obs[d].state
      BY <1>t, <3>1
    <3>3. \A d \in Conns : obs'[d].attached => obs[d].attached \/ (d = c /\ attach # NoAttach)
      BY <1>t, <3>1
    <3>4. attach # NoAttach => runState # "exited"
      BY DEF SlotInv
    <3>5. \A d \in Conns : connPc'[d] = IF d = c THEN "done" ELSE connPc[d]
      BY <1>t, <3>1
    <3>6. \A d \in Conns : d # c => sock'[d] = sock[d]
      BY <1>t, <3>1
    <3> QED BY <1>t, <3>1, <3>2, <3>3, <3>4, <3>5, <3>6 DEF AttachInv, Pumping
  <2> QED BY <1>8, <2>1, <2>2, <2>3, <2>4, <2>5, <2>6, <2>7, <2>8, <2>9, <2>10,
             <2>11, <2>12 DEF Worker
<1> QED BY <1>1, <1>2, <1>3, <1>4, <1>5, <1>6, <1>7, <1>8 DEF Next, Pump

\* A connected client is the one the output goes to, and a status answer never
\* calls a finished job attached: neither a failed write, a takeover nor the
\* late detach of a replaced client breaks it (attach, Detach's generation check,
\* KeptJob::info).
THEOREM AttachmentAlwaysTruthful == Spec => []AttachmentTruthful
<1>1. Init => AttachInv
  BY KeptJobAssumption DEF Init, AttachInv, Pumping, NotRead
<1>2. TypeOK /\ SlotInv /\ AttachInv /\ [Next]_vars => AttachInv'
  <2>1. TypeOK /\ AttachInv /\ UNCHANGED vars => AttachInv'
    BY AttachFrame DEF vars, outVars, connVars
  <2> QED BY <2>1, AttachStep
<1>3. AttachInv => AttachmentTruthful
  BY DEF AttachInv, AttachmentTruthful
<1> QED BY <1>1, <1>2, <1>3, SlotInvariant, PTL DEF Spec

-----------------------------------------------------------------------------
(* The output stream. *)

\* s is the output that ends with byte n.
Run(s, n) == Len(s) <= n /\ \A i \in 1..Len(s) : s[i] = n - Len(s) + i

\* Output continued by the bytes that follow it.
LEMMA RunConcat ==
  ASSUME NEW s \in Seq(Nat), NEW t \in Seq(Nat), NEW n \in Nat,
         Run(s, n), Run(t, n + Len(t))
  PROVE  Run(s \o t, n + Len(t))
<1>1. /\ Len(s \o t) = Len(s) + Len(t) /\ Len(s) \in Nat /\ Len(t) \in Nat
      /\ \A i \in 1 .. Len(s) + Len(t) : (s \o t)[i] =
                     IF i <= Len(s) THEN s[i] ELSE t[i - Len(s)]
  BY ConcatProperties, LenProperties
<1> DEFINE r == s \o t
<1> HIDE DEF r
<1>2. \A i \in 1..Len(r) : r[i] = n + Len(t) - Len(r) + i
  <2> TAKE i \in 1..Len(r)
  <2>1. CASE i <= Len(s) BY <1>1, <2>1 DEF Run, r
  <2>2. CASE i > Len(s)
    <3>1. i - Len(s) \in 1..Len(t) BY <1>1, <2>2 DEF r
    <3>2. t[i - Len(s)] = (n + Len(t)) - Len(t) + (i - Len(s)) BY <3>1 DEF Run
    <3> QED BY <1>1, <2>2, <3>1, <3>2 DEF r
  <2> QED BY <1>1, <2>1, <2>2 DEF r
<1> QED BY <1>1, <1>2 DEF Run, r

\* The bytes of the second part are output up to the same byte.
LEMMA RunTail ==
  ASSUME NEW s \in Seq(Nat), NEW t \in Seq(Nat), NEW n \in Nat, Run(s \o t, n)
  PROVE  Run(t, n)
<1>1. /\ Len(s \o t) = Len(s) + Len(t) /\ Len(s) \in Nat /\ Len(t) \in Nat
      /\ \A i \in 1 .. Len(s) + Len(t) : (s \o t)[i] =
                     IF i <= Len(s) THEN s[i] ELSE t[i - Len(s)]
  BY ConcatProperties, LenProperties
<1>2. ASSUME NEW i \in 1..Len(t) PROVE t[i] = n - Len(t) + i
  <2>1. Len(s) + i \in 1..(Len(s) + Len(t)) /\ ~(Len(s) + i <= Len(s)) BY <1>1
  <2>2. (s \o t)[Len(s) + i] = n - (Len(s) + Len(t)) + (Len(s) + i)
    BY <1>1, <2>1 DEF Run
  <2>3. (s \o t)[Len(s) + i] = t[(Len(s) + i) - Len(s)] BY <1>1, <2>1
  <2>4. (Len(s) + i) - Len(s) = i BY <1>1
  <2> QED BY <1>1, <2>2, <2>3, <2>4
<1> QED BY <1>1, <1>2 DEF Run

\* The last bytes of a run.
LEMMA RunLastOf ==
  ASSUME NEW s \in Seq(Nat), NEW n \in Nat, Run(s, n), NEW m \in Nat
  PROVE  Run(LastOf(s, m), n)
<1>1. Len(s) \in Nat OBVIOUS
<1> DEFINE l == Least(m, Len(s))
<1>2. l \in Nat /\ l <= Len(s) BY <1>1, LeastType
<1>3. Len(LastOf(s, m)) = l BY LastOfType
<1>4. PICK a \in Int : a = Len(s) - l + 1 BY <1>1, <1>2
<1>5. a >= 1 /\ Len(s) - a + 1 = l BY <1>1, <1>2, <1>4
<1>6. \A i \in a..Len(s) : s[i] \in Nat BY <1>1, <1>5
<1>7. \A i \in 1..(Len(s) - a + 1) : SubSeq(s, a, Len(s))[i] = s[a + i - 1]
  BY <1>1, <1>6, SubSeqProperties
<1>8. LastOf(s, m) = SubSeq(s, a, Len(s)) BY <1>4 DEF LastOf
<1> HIDE DEF l
<1>9. ASSUME NEW i \in 1..l PROVE LastOf(s, m)[i] = n - l + i
  <2>1. a + i - 1 \in 1..Len(s) BY <1>1, <1>2, <1>4
  <2>2. s[a + i - 1] = n - Len(s) + (a + i - 1) BY <2>1 DEF Run
  <2>3. LastOf(s, m)[i] = s[a + i - 1] BY <1>5, <1>7, <1>8
  <2> QED BY <1>1, <1>2, <1>4, <2>2, <2>3
<1> QED BY <1>1, <1>2, <1>3, <1>9 DEF Run

\* The first bytes of a run.
LEMMA RunPrefix ==
  ASSUME NEW s \in Seq(Nat), NEW n \in Nat, Run(s, n), NEW k \in 0..Len(s)
  PROVE  /\ SubSeq(s, 1, k) \in Seq(Nat) /\ Len(SubSeq(s, 1, k)) = k
         /\ n - Len(s) + k \in Nat
         /\ Run(SubSeq(s, 1, k), n - Len(s) + k)
<1>1. Len(s) \in Nat /\ k \in Nat /\ n - Len(s) \in Nat
  BY DEF Run
<1>2. \A i \in 1..k : s[i] \in Nat BY <1>1
<1>3. /\ SubSeq(s, 1, k) \in Seq(Nat)
      /\ Len(SubSeq(s, 1, k)) = IF 1 <= k THEN k - 1 + 1 ELSE 0
      /\ \A i \in 1..(k - 1 + 1) : SubSeq(s, 1, k)[i] = s[1 + i - 1]
  BY <1>1, <1>2, SubSeqProperties
<1>4. Len(SubSeq(s, 1, k)) = k BY <1>1, <1>3
<1> DEFINE p == SubSeq(s, 1, k)
<1>5. \A i \in 1..k : p[i] = s[i] BY <1>1, <1>3
<1> HIDE DEF p
<1>6. Run(p, n - Len(s) + k)
  <2>1. Len(p) = k BY <1>4 DEF p
  <2>2. ASSUME NEW i \in 1..k PROVE p[i] = (n - Len(s) + k) - k + i
    <3>1. i \in 1..Len(s) BY <1>1
    <3>2. s[i] = n - Len(s) + i BY <3>1 DEF Run
    <3> QED BY <1>1, <1>5, <3>2
  <2> QED BY <1>1, <2>1, <2>2 DEF Run
<1> QED BY <1>1, <1>3, <1>4, <1>6 DEF p

\* A run is contiguous, with and without the exit notice at its end.
LEMMA RunContiguous ==
  ASSUME NEW s \in Seq(Nat), NEW n \in Nat, Run(s, n)
  PROVE  Contiguous(s) /\ Contiguous(Append(s, Notice))
<1>1. Len(s) \in Nat OBVIOUS
<1>2. \A i \in 1..(Len(s) - 1) : s[i] # 0 /\ s[i + 1] = s[i] + 1
  <2> TAKE i \in 1..(Len(s) - 1)
  <2>1. i \in 1..Len(s) /\ i + 1 \in 1..Len(s) BY <1>1
  <2>2. s[i] = n - Len(s) + i /\ s[i + 1] = n - Len(s) + (i + 1)
    BY <2>1 DEF Run
  <2>3. Len(s) <= n BY DEF Run
  <2> QED BY <1>1, <2>1, <2>2, <2>3
<1> DEFINE t == Append(s, 0)
<1>3. /\ Len(t) = Len(s) + 1 /\ t[Len(s) + 1] = 0
      /\ \A i \in 1..Len(s) : t[i] = s[i]
  BY AppendProperties
<1> HIDE DEF t
<1>4. ASSUME NEW i \in 1..(Len(t) - 1)
      PROVE  \/ t[i] # 0 /\ t[i + 1] = t[i] + 1
             \/ t[i + 1] = 0 /\ i + 1 = Len(t)
  <2>1. CASE i = Len(s) BY <1>1, <1>3, <2>1
  <2>2. CASE i # Len(s)
    <3>1. i \in 1..(Len(s) - 1) /\ i \in 1..Len(s) /\ i + 1 \in 1..Len(s)
      BY <1>1, <1>3, <2>2
    <3> QED BY <1>2, <1>3, <3>1
  <2> QED BY <2>1, <2>2
<1> QED BY <1>2, <1>4 DEF Contiguous, Notice, t

\* The empty sequence is the output up to any byte.
LEMMA RunEmpty == \A n \in Nat : Run(<< >>, n)
BY DEF Run

\* The chunk follows the scrollback, the slot's client has the output up to the
\* last byte forwarded, and the client to be notified has received no notice yet.
StreamInv ==
  /\ pumpPc # "forward" => chunk = << >>
  /\ Run(chunk, drained)
  /\ Run(ring, Forwarded)
  /\ \A c \in Conns : Contiguous(recv[c])
  /\ attach # NoAttach => Run(recv[attach.conn], Forwarded)
  /\ pumpPc = "notify" => /\ notifyTo \in Conns
                          /\ \E n \in Nat : Run(recv[notifyTo], n)

\* A step that moves no output and neither fills the slot nor starts a notice.
LEMMA StreamFrame ==
  ASSUME TypeOK, StreamInv, UNCHANGED <<chunk, drained, ring, recv, notifyTo>>,
         attach' \in {attach, NoAttach},
         pumpPc' = pumpPc \/ pumpPc' \notin {"forward", "notify"},
         pumpPc = "forward" => pumpPc' = "forward"
  PROVE  StreamInv'
BY DEF StreamInv, Forwarded

\* StreamInv is inductive: replay, live output, takeover and failed writes leave
\* no gap, duplicate or reordering.
LEMMA StreamStep ==
  ASSUME TypeOK, SlotInv, StreamInv, Next PROVE StreamInv'
<1> USE KeptJobAssumption
<1>t. /\ ring \in Seq(Nat) /\ chunk \in Seq(Nat) /\ drained \in Nat /\ written \in Nat
      /\ recv \in [Conns -> Seq(Nat)]
      /\ attach # NoAttach => attach.conn \in Conns
      /\ attach.conn \in Conns \cup {NoConn}
      /\ attach.conn = NoConn <=> attach = NoAttach
  BY DEF TypeOK, ConnTypeOK, OutTypeOK, PumpTypeOK, JobTypeOK, SlotInv
<1>f. Forwarded \in Nat /\ drained = Forwarded + Len(chunk) /\ Len(chunk) \in Nat
  BY <1>t DEF StreamInv, Run, Forwarded
<1>1. CASE Job
  BY <1>1, StreamFrame DEF Job, JobWrite, JobReadInput, ChildExit, BgExit, outVars, connVars,
     pumpVars
<1>2. CASE PumpWouldBlock \/ PumpStillRunning \/ PumpFinishing \/ PumpReap
  BY <1>2, StreamFrame
     DEF PumpWouldBlock, PumpStillRunning, PumpFinishing, FinalizeOrDrain, PumpReap,
         outVars, connVars
<1>3. CASE PumpRead
  <2>1. PICK n \in 1..Least(ChunkCap, written - drained) :
          chunk' = [i \in 1..n |-> drained + i] /\ drained' = drained + n
    BY <1>3 DEF PumpRead
  <2>2. n \in Nat
    OBVIOUS
  <2>3. Len(chunk') = n /\ \A i \in 1..n : chunk'[i] = drained + i
    BY <1>t, <2>1, <2>2
  <2>4. Run(chunk', drained')
    BY <1>t, <2>1, <2>2, <2>3 DEF Run
  <2>5. Forwarded' = Forwarded
    BY <1>3, <1>t, <2>1, <2>2, <2>3 DEF Forwarded, PumpRead, StreamInv
  <2>6. pumpPc' = "forward" /\ UNCHANGED <<ring, recv, attach, notifyTo>>
    BY <1>3 DEF PumpRead, outVars, connVars
  <2> HIDE DEF Run
  <2> QED BY <2>4, <2>5, <2>6 DEF StreamInv
<1>4. CASE PumpForward
  <2>1. chunk' = << >> /\ pumpPc' = "drain" /\ UNCHANGED <<drained, notifyTo>>
    BY <1>4 DEF PumpForward
  <2>2. Forwarded' = drained /\ Run(chunk', drained')
    BY <1>t, <2>1, RunEmpty DEF Forwarded
  <2>3. Run(ring \o chunk, drained)
    BY <1>t, <1>f, RunConcat DEF StreamInv
  <2>4. Run(ring', Forwarded')
    <3>1. ring \o chunk \in Seq(Nat) BY <1>t, ConcatProperties
    <3>2. ring' = LastOf(ring \o chunk, ScrollbackCap) BY <1>4 DEF PumpForward, PushRing
    <3> QED BY <1>t, <2>2, <2>3, <3>1, <3>2, RunLastOf
  <2>5. \A k \in 0..Len(chunk) :
          attach # NoAttach =>
            LET r == recv[attach.conn] \o SubSeq(chunk, 1, k)
            IN r \in Seq(Nat) /\ Run(r, Forwarded + k)
    <3> TAKE k \in 0..Len(chunk)
    <3> HAVE attach # NoAttach
    <3> DEFINE q == SubSeq(chunk, 1, k)
    <3>1. q \in Seq(Nat) /\ Len(q) = k /\ Run(q, drained - Len(chunk) + k)
      BY <1>t, RunPrefix DEF StreamInv
    <3>2. drained - Len(chunk) + k = Forwarded + Len(q)
      BY <3>1 DEF Forwarded
    <3> HIDE DEF q
    <3>3. Run(recv[attach.conn] \o q, Forwarded + Len(q))
      BY <1>t, <1>f, <3>1, <3>2, RunConcat DEF StreamInv
    <3>4. recv[attach.conn] \o q \in Seq(Nat)
      BY <1>t, <3>1, ConcatProperties
    <3> QED BY <3>1, <3>3, <3>4 DEF q
  <2>6. CASE UNCHANGED <<attach, recv>> /\ attach = NoAttach
    BY <2>1, <2>2, <2>4, <2>6 DEF StreamInv
  <2>7. CASE /\ attach # NoAttach /\ attach' = attach
             /\ recv' = [recv EXCEPT ![attach.conn] = @ \o chunk]
    <3>1. recv'[attach.conn] = recv[attach.conn] \o chunk
          /\ \A c \in Conns : c # attach.conn => recv'[c] = recv[c]
      BY <1>t, <2>7
    <3>2. Run(recv[attach.conn] \o chunk, Forwarded + Len(chunk))
      BY <1>t, <1>f, <2>7, RunConcat DEF StreamInv
    <3>3. recv[attach.conn] \o chunk \in Seq(Nat) BY <1>t, <2>7, ConcatProperties
    <3>4. Contiguous(recv'[attach.conn]) BY <1>f, <1>t, <3>1, <3>2, <3>3, RunContiguous
    <3>5. Run(recv'[attach'.conn], Forwarded') BY <1>f, <2>2, <2>7, <3>1, <3>2
    <3>6. \A c \in Conns : Contiguous(recv'[c]) BY <3>1, <3>4 DEF StreamInv
    <3> QED BY <2>1, <2>2, <2>4, <3>5, <3>6 DEF StreamInv
  <2>8. CASE /\ attach # NoAttach /\ attach' = NoAttach
             /\ \E k \in 0..(Len(chunk) - 1) :
                  recv' = [recv EXCEPT ![attach.conn] = @ \o SubSeq(chunk, 1, k)]
    <3>1. PICK k \in 0..(Len(chunk) - 1) :
            recv' = [recv EXCEPT ![attach.conn] = @ \o SubSeq(chunk, 1, k)]
      BY <2>8
    <3>2. k \in 0..Len(chunk) /\ Forwarded + k \in Nat BY <1>f
    <3> DEFINE r == recv[attach.conn] \o SubSeq(chunk, 1, k)
    <3>3. r \in Seq(Nat) /\ Run(r, Forwarded + k) BY <2>5, <2>8, <3>2
    <3>4. Contiguous(r) BY <3>2, <3>3, RunContiguous
    <3>5. recv' = [recv EXCEPT ![attach.conn] = r] BY <3>1
    <3> HIDE DEF r
    <3>6. \A c \in Conns : Contiguous(recv'[c]) BY <1>t, <3>4, <3>5 DEF StreamInv
    <3> QED BY <2>1, <2>2, <2>4, <2>8, <3>6 DEF StreamInv
  <2> QED BY <1>4, <2>6, <2>7, <2>8 DEF PumpForward, AfterFailedForward
<1>5. CASE PumpPublish
  <2>1. /\ attach' = NoAttach /\ notifyTo' = attach.conn
        /\ pumpPc' = (IF attach = NoAttach THEN "done" ELSE "notify")
        /\ pumpPc = "publish" /\ UNCHANGED <<chunk, drained, ring, recv>>
    BY <1>5 DEF PumpPublish, connVars
  <2>2. Forwarded' = Forwarded BY <2>1 DEF Forwarded
  <2> QED BY <1>t, <1>f, <2>1, <2>2 DEF StreamInv
<1>6. CASE PumpNotify
  <2>1. /\ pumpPc' = "done" /\ pumpPc = "notify"
        /\ UNCHANGED <<chunk, drained, ring, notifyTo, attach>>
        /\ \/ recv' = recv
           \/ recv' = [recv EXCEPT ![notifyTo] = Append(@, Notice)]
    BY <1>6 DEF PumpNotify, outVars
  <2>2. notifyTo \in Conns /\ attach = NoAttach
    BY <2>1 DEF StreamInv, SlotInv
  <2>3. Contiguous(Append(recv[notifyTo], Notice))
    BY <1>t, <2>1, <2>2, RunContiguous DEF StreamInv
  <2>4. \A c \in Conns : Contiguous(recv'[c])
    BY <1>t, <2>1, <2>3 DEF StreamInv
  <2>5. Forwarded' = Forwarded BY <2>1 DEF Forwarded
  <2> QED BY <2>1, <2>2, <2>4, <2>5 DEF StreamInv
<1>7. ASSUME NEW c \in Conns, Client(c) PROVE StreamInv'
  BY <1>7, StreamFrame DEF Client, Connect, ClientSend, ClientClose, outVars, pumpVars
<1>8. ASSUME NEW c \in Conns, Worker(c) PROVE StreamInv'
  <2>1. CASE AttachInstall(c)
    <3>1. /\ attach' # NoAttach /\ attach'.conn = c
          /\ UNCHANGED <<ring, chunk, drained, pumpPc, notifyTo>>
      BY <2>1 DEF AttachInstall, pumpVars, NoAttach
    <3>2. PICK r \in Replays : recv' = [recv EXCEPT ![c] = LastOf(ring, r)]
      BY <2>1 DEF AttachInstall
    <3>3. Run(LastOf(ring, r), Forwarded) /\ LastOf(ring, r) \in Seq(Nat)
      BY <1>t, <1>f, RunLastOf, LastOfType DEF StreamInv
    <3>4. Contiguous(LastOf(ring, r)) BY <1>f, <3>3, RunContiguous
    <3>5. \A d \in Conns : recv'[d] = IF d = c THEN LastOf(ring, r) ELSE recv[d]
      BY <1>t, <3>2
    <3>6. Forwarded' = Forwarded BY <3>1 DEF Forwarded
    <3>7. pumpPc # "notify" BY <2>1 DEF AttachInstall, MayInstall, SlotInv
    <3> QED BY <3>1, <3>3, <3>4, <3>5, <3>6, <3>7 DEF StreamInv
  <2>2. CASE AttachFails(c)
    <3>1. attach' = NoAttach /\ UNCHANGED <<ring, chunk, drained, pumpPc, notifyTo>>
      BY <2>2 DEF AttachFails, pumpVars
    <3>2. Forwarded' = Forwarded BY <3>1 DEF Forwarded
    <3>3. pumpPc # "notify" BY <2>2 DEF AttachFails, MayInstall, SlotInv
    <3>4. CASE recv' = recv
      BY <3>1, <3>2, <3>3, <3>4 DEF StreamInv
    <3>5. ASSUME NEW r \in Replays, NEW k \in 0..(Least(r, Len(ring)) - 1),
                 recv' = [recv EXCEPT ![c] = SubSeq(LastOf(ring, r), 1, k)]
          PROVE  StreamInv'
      <4> DEFINE l == LastOf(ring, r)
      <4>1. Run(l, Forwarded) /\ l \in Seq(Nat) /\ Len(l) = Least(r, Len(ring))
        BY <1>t, <1>f, RunLastOf, LastOfType DEF StreamInv
      <4>2. k \in 0..Len(l)
        BY <1>t, <4>1, LeastType
      <4> HIDE DEF l
      <4>3. Contiguous(SubSeq(l, 1, k))
        BY <1>f, <4>1, <4>2, RunPrefix, RunContiguous
      <4>4. \A d \in Conns : recv'[d] = IF d = c THEN SubSeq(l, 1, k) ELSE recv[d]
        BY <1>t, <3>5 DEF l
      <4> QED BY <3>1, <3>2, <3>3, <4>3, <4>4 DEF StreamInv
    <3> QED BY <2>2, <3>4, <3>5 DEF AttachFails
  <2>3. CASE OpLock(c) \/ OpDo(c) \/ AttachRefused(c) \/ InputRead(c) \/ InputLock(c)
    BY <2>3, StreamFrame DEF OpLock, OpDo, AttachRefused, InputRead, InputLock, outVars, pumpVars
  <2>4. CASE InputWrite(c) \/ InputError(c) \/ StreamEnd(c) \/ CheckExited(c)
    BY <2>4, StreamFrame DEF InputWrite, InputError, StreamEnd, CheckExited, outVars, pumpVars
  <2>5. CASE InfoState(c) \/ InfoAttached(c) \/ Detach(c)
    BY <2>5, StreamFrame DEF InfoState, InfoAttached, Detach, outVars, pumpVars
  <2> QED BY <1>8, <2>1, <2>2, <2>3, <2>4, <2>5 DEF Worker
<1> QED BY <1>1, <1>2, <1>3, <1>4, <1>5, <1>6, <1>7, <1>8 DEF Next, Pump

\* What every client receives is one contiguous run of the job's output, up to
\* the last byte forwarded while it is attached: the push into the scrollback
\* and the forward, and the replay and the installation, are each one section
\* under the output lock (push_and_forward, attach).
THEOREM StreamAlwaysContiguous == Spec => []StreamContiguous
<1>1. Init => StreamInv
  BY RunEmpty DEF Init, StreamInv, Forwarded, Contiguous
<1>2. TypeOK /\ SlotInv /\ StreamInv /\ [Next]_vars => StreamInv'
  <2>1. TypeOK /\ StreamInv /\ UNCHANGED vars => StreamInv'
    BY StreamFrame DEF vars, outVars, connVars, pumpVars
  <2> QED BY <2>1, StreamStep
<1>3. TypeOK /\ SlotInv /\ StreamInv => StreamContiguous
  <2> SUFFICES ASSUME TypeOK, SlotInv, StreamInv, NEW c \in Conns,
                      attach.conn = c, recv[c] # << >>
               PROVE  recv[c][Len(recv[c])] = Forwarded
    BY DEF StreamContiguous, StreamInv
  <2>1. attach # NoAttach BY KeptJobAssumption DEF SlotInv
  <2>2. Run(recv[c], Forwarded) BY <2>1 DEF StreamInv
  <2>3. recv[c] \in Seq(Nat) BY DEF TypeOK, ConnTypeOK
  <2>4. Len(recv[c]) \in Nat /\ Len(recv[c]) >= 1 BY <2>3, EmptySeq
  <2>5. Forwarded \in Nat
    BY DEF StreamInv, Run, Forwarded, TypeOK, PumpTypeOK
  <2>6. recv[c][Len(recv[c])] = Forwarded - Len(recv[c]) + Len(recv[c])
    BY <2>2, <2>4 DEF Run
  <2> QED BY <2>4, <2>5, <2>6
<1> QED BY <1>1, <1>2, <1>3, SlotInvariant, PTL DEF Spec

-----------------------------------------------------------------------------
(* The log. *)

\* The pair of log files is a contiguous run of output, up to the last byte
\* drained as long as the log is open and the exit line is not written.
LogInv ==
  /\ Contiguous(log.old \o log.cur)
  /\ log.open /\ runState # "exited" => Run(log.old \o log.cur, drained)

\* Concatenation is associative.
LEMMA OutputAssoc == \A s, t, u \in Seq(Nat) : s \o (t \o u) = (s \o t) \o u
<1> TAKE s, t, u \in Seq(Nat)
<1>1. (s \o t) \o u = s \o (t \o u) BY ConcatAssociative, SMTT(30)
<1> QED BY <1>1

\* Every outcome of writing the next bytes keeps LogInv: a full write, a
\* rotation, a rotation stopped at any of its steps, and a partial write.
LEMMA LogWritesInv ==
  ASSUME log \in [open : BOOLEAN, cur : Seq(Nat), old : Seq(Nat)], drained \in Nat,
         log.open, Run(log.old \o log.cur, drained), Contiguous(log.old \o log.cur),
         NEW bs \in Seq(Nat), Run(bs, drained + Len(bs)), NEW l \in LogWrites(bs)
  PROVE  /\ Contiguous(l.old \o l.cur)
         /\ l.open => Run(l.old \o l.cur, drained + Len(bs))
<1> DEFINE full == log.cur \o bs
           n == drained + Len(bs)
<1>1. log.old \in Seq(Nat) /\ log.cur \in Seq(Nat) /\ Len(bs) \in Nat /\ n \in Nat
  OBVIOUS
<1>2. full \in Seq(Nat) /\ log.old \o full \in Seq(Nat) /\ log.old \o log.cur \in Seq(Nat)
  BY <1>1, ConcatProperties
<1>3. log.old \o full = (log.old \o log.cur) \o bs
  BY <1>1, OutputAssoc, Zenon
<1>4. Run(log.old \o full, n)
  BY <1>1, <1>2, <1>3, RunConcat
<1>5. Run(full, n)
  BY <1>1, <1>2, <1>4, RunTail
<1>6. Contiguous(log.old \o full) /\ Contiguous(full)
  BY <1>1, <1>2, <1>4, <1>5, RunContiguous
<1>7. full \o << >> = full /\ << >> \o full = full
  BY <1>2, ConcatEmptySeq
<1>8. \A k \in 0..(Len(bs) - 1) : Contiguous(log.old \o (log.cur \o SubSeq(bs, 1, k)))
  <2> TAKE k \in 0..(Len(bs) - 1)
  <2> DEFINE p == SubSeq(bs, 1, k)
  <2>1. k \in 0..Len(bs) /\ drained + Len(bs) \in Nat BY <1>1
  <2>2. p \in Seq(Nat) /\ Len(p) = k /\ Run(p, drained + Len(bs) - Len(bs) + k)
    BY <2>1, RunPrefix
  <2>3. drained + Len(bs) - Len(bs) + k = drained + Len(p) /\ drained + Len(p) \in Nat
    BY <1>1, <2>2
  <2> HIDE DEF p
  <2>4. Run((log.old \o log.cur) \o p, drained + Len(p)) BY <1>2, <2>2, <2>3, RunConcat
  <2>5. (log.old \o log.cur) \o p \in Seq(Nat) BY <1>2, <2>2, ConcatProperties
  <2>6. Contiguous((log.old \o log.cur) \o p) BY <2>3, <2>4, <2>5, RunContiguous
  <2>7. log.old \o (log.cur \o p) = (log.old \o log.cur) \o p
    BY <1>1, <2>2, OutputAssoc, Zenon
  <2> QED BY <2>6, <2>7 DEF p
<1> HIDE DEF full, n
<1>10. CASE l \in Rotations(full)
  <2>1. \/ l = [open |-> TRUE, cur |-> << >>, old |-> full]
        \/ l = [open |-> FALSE, cur |-> full, old |-> log.old]
        \/ l = [open |-> FALSE, cur |-> full, old |-> << >>]
        \/ l = [open |-> FALSE, cur |-> << >>, old |-> full]
    BY <1>10 DEF Rotations
  <2>2. \/ l.old = full /\ l.cur = << >>
        \/ l.old = log.old /\ l.cur = full
        \/ l.old = << >> /\ l.cur = full
    BY <2>1
  <2>3. l.old \o l.cur = full \/ l.old \o l.cur = log.old \o full BY <1>7, <2>2, Zenon
  <2>4. Contiguous(l.old \o l.cur) BY <1>6, <2>3, Zenon
  <2>5. Run(l.old \o l.cur, n) BY <1>4, <1>5, <2>3, Zenon
  <2> QED BY <2>4, <2>5, Zenon DEF n
<1>11. CASE l = [log EXCEPT !.cur = full]
  <2>1. l.old = log.old /\ l.cur = full BY <1>11
  <2> QED BY <1>4, <1>6, <2>1, Zenon DEF n
<1>12. CASE \E k \in 0..(Len(bs) - 1) :
              l = DisableLog([log EXCEPT !.cur = log.cur \o SubSeq(bs, 1, k)])
  <2>1. PICK k \in 0..(Len(bs) - 1) :
          l = DisableLog([log EXCEPT !.cur = log.cur \o SubSeq(bs, 1, k)])
    BY <1>12
  <2>2. l.old = log.old /\ l.cur = log.cur \o SubSeq(bs, 1, k) /\ l.open = FALSE
    BY <2>1 DEF DisableLog
  <2> QED BY <1>8, <2>2
<1> QED BY <1>10, <1>11, <1>12 DEF LogWrites, full

\* LogInv is inductive.
LEMMA LogStep ==
  ASSUME TypeOK, SlotInv, LogInv, Next PROVE LogInv'
<1>t. log \in [open : BOOLEAN, cur : Seq(Nat), old : Seq(Nat)] /\ drained \in Nat
  BY DEF TypeOK, PumpTypeOK
<1>f. ASSUME UNCHANGED <<log, drained>>, runState # "exited" \/ runState' = "exited"
      PROVE  LogInv'
  BY <1>f DEF LogInv
<1>1. CASE PumpRead
  <2>1. PICK n \in 1..Least(ChunkCap, written - drained) :
          /\ drained' = drained + n
          /\ log' \in LogWrites([i \in 1..n |-> drained + i])
    BY <1>1 DEF PumpRead
  <2> DEFINE bs == [i \in 1..n |-> drained + i]
  <2>2. n \in Nat OBVIOUS
  <2>3. bs \in Seq(Nat) /\ Len(bs) = n /\ \A i \in 1..n : bs[i] = drained + i
    BY <1>t, <2>2
  <2> HIDE DEF bs
  <2>4. Run(bs, drained + Len(bs)) BY <1>t, <2>2, <2>3 DEF Run
  <2>5. log' \in LogWrites(bs) BY <2>1 DEF bs
  <2>6. runState # "exited" /\ runState' = runState BY <1>1 DEF PumpRead, SlotInv
  <2>7. CASE log.open
    <3>1. Run(log.old \o log.cur, drained) /\ Contiguous(log.old \o log.cur)
      BY <2>6, <2>7 DEF LogInv
    <3>2. /\ Contiguous(log'.old \o log'.cur)
          /\ log'.open => Run(log'.old \o log'.cur, drained + Len(bs))
      BY <1>t, <2>3, <2>4, <2>5, <2>7, <3>1, LogWritesInv
    <3> QED BY <2>1, <2>3, <2>7, <3>2 DEF LogInv
  <2>8. CASE ~log.open
    <3>1. log' = log BY <2>5, <2>8 DEF LogWrites
    <3> QED BY <2>8, <3>1 DEF LogInv
  <2> QED BY <2>7, <2>8
<1>2. CASE PumpPublish
  <2>1. runState # "exited" /\ runState' = "exited"
    BY <1>2 DEF PumpPublish, SlotInv
  <2>2. CASE log' = log BY <2>1, <2>2 DEF LogInv
  <2>3. CASE log.open /\ log' = [log EXCEPT !.cur = Append(@, Notice)]
    <3>1. log'.old = log.old /\ log'.cur = Append(log.cur, Notice) BY <1>t, <2>3
    <3>2. log.old \in Seq(Nat) /\ log.cur \in Seq(Nat) /\ Notice \in Nat
      BY <1>t DEF Notice
    <3>3. <<Notice>> \in Seq(Nat) BY <3>2
    <3>4. log.old \o log.cur \in Seq(Nat) BY <3>2, ConcatProperties
    <3>5. log.old \o (log.cur \o <<Notice>>) = (log.old \o log.cur) \o <<Notice>>
      BY <3>2, <3>3, OutputAssoc, Zenon
    <3>6. /\ Append(log.cur, Notice) = log.cur \o <<Notice>>
          /\ Append(log.old \o log.cur, Notice) = (log.old \o log.cur) \o <<Notice>>
      BY <3>2, <3>4, AppendIsConcat
    <3>7. Contiguous(Append(log.old \o log.cur, Notice))
      BY <1>t, <2>1, <2>3, <3>4, RunContiguous DEF LogInv
    <3> QED BY <2>1, <3>1, <3>5, <3>6, <3>7 DEF LogInv
  <2> QED BY <1>2, <2>2, <2>3 DEF PumpPublish
<1>3. CASE PumpForward \/ PumpWouldBlock \/ PumpStillRunning \/ PumpFinishing \/ PumpNotify
  BY <1>3, <1>f DEF PumpForward, PumpWouldBlock, PumpStillRunning, PumpFinishing, PumpNotify
<1>4. CASE PumpReap
  BY <1>4, <1>f DEF PumpReap, PumpMayWait
<1>5. CASE Job
  BY <1>5, <1>f DEF Job, JobWrite, JobReadInput, ChildExit, BgExit, pumpVars
<1>6. ASSUME NEW c \in Conns, Client(c) PROVE LogInv'
  BY <1>6, <1>f DEF Client, Connect, ClientSend, ClientClose, pumpVars
<1>7. ASSUME NEW c \in Conns, Worker(c) PROVE LogInv'
  <2>1. UNCHANGED <<log, drained, runState>>
    BY <1>7 DEF Worker, OpLock, OpDo, AttachRefused, AttachInstall, AttachFails, InputRead,
       InputLock, InputWrite, InputError, StreamEnd, Detach, CheckExited, InfoState,
       InfoAttached, pumpVars
  <2> QED BY <2>1, <1>f
<1> QED BY <1>1, <1>2, <1>3, <1>4, <1>5, <1>6, <1>7 DEF Next, Pump

\* While logging is on, the rotated and the current log together are the most
\* recent output without a gap, for any sizes and whatever log operations fail
\* (pump_job, rotate_job_log).
THEOREM LogAlwaysKept == Spec => []LogKept
<1>1. Init => LogInv
  <2> SUFFICES ASSUME Init PROVE LogInv OBVIOUS
  <2>0. PICK o \in IF LogMayFail THEN BOOLEAN ELSE {TRUE} :
          log = [open |-> o, cur |-> << >>, old |-> << >>]
    BY Zenon DEF Init
  <2>1. log.old = << >> /\ log.cur = << >> /\ drained = 0 BY <2>0 DEF Init
  <2>2. log.old \o log.cur = << >> BY <2>1
  <2>3. Contiguous(<< >>) BY DEF Contiguous
  <2> QED BY <2>1, <2>2, <2>3, RunEmpty DEF LogInv
<1>2. TypeOK /\ SlotInv /\ LogInv /\ [Next]_vars => LogInv'
  <2>1. LogInv /\ UNCHANGED vars => LogInv'
    BY DEF LogInv, vars, pumpVars
  <2> QED BY <2>1, LogStep
<1>3. TypeOK /\ LogInv => LogKept
  <2> SUFFICES ASSUME TypeOK, LogInv PROVE LogKept OBVIOUS
  <2> DEFINE all == log.old \o log.cur
  <2>1. all \in Seq(Nat) BY ConcatProperties DEF TypeOK, PumpTypeOK
  <2>2. drained \in Nat BY DEF TypeOK, PumpTypeOK
  <2> HIDE DEF all
  <2>3. ASSUME Run(all, drained), all # << >> PROVE all[Len(all)] = drained
    <3>1. Len(all) \in Nat /\ Len(all) >= 1 BY <2>1, <2>3, EmptySeq
    <3>2. all[Len(all)] = drained - Len(all) + Len(all) BY <2>3, <3>1 DEF Run
    <3> QED BY <2>2, <3>1, <3>2
  <2> QED BY <2>3 DEF LogInv, LogKept, all
<1> QED BY <1>1, <1>2, <1>3, SlotInvariant, PTL DEF Spec
=============================================================================
