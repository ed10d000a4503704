--------------------------- MODULE CaptureProofs ---------------------------
(***************************************************************************)
(* CaptureTruthful, for every limit, every size of the pipes and of the    *)
(* budgets and every way a command is captured.                            *)
(***************************************************************************)
EXTENDS Captures, SequenceTheorems, FiniteSetTheorems, TLAPS

Working == {"held", "look", "read", "dry", "ack"}
ReaderStates == Working \cup {"none", "closed", "eof", "error"}
Readers == [st : ReaderStates, saw : BOOLEAN, post : Nat, idle : BOOLEAN,
            handoff : {"none", "Unavailable", "Transferred", "Ambiguous"}]

StateOK ==
  /\ proc \in [Procs -> {"none", "live", "gone", "reaped"}]
  /\ exited \in BOOLEAN /\ (exited => proc["child"] = "reaped")
  /\ reader \in [Fds -> Readers]
  /\ unread \in [Fds -> Seq(Procs)] /\ got \in [Fds -> Seq(Procs)] /\ wrote \in [Fds -> Seq(Procs)]
  /\ worker \in [Fds -> {"none", "launched", "draining", "dead"}]
  /\ others \in Int /\ slots \in Int

\* Who has a stream: the reader until it hands the pipe over, the worker from then
\* on; only an attempt whose outcome is known leaves the capture unmarked.
HandedOver(s) ==
  LET r == reader[s] IN
  /\ r.st = "ack" => r.handoff = "none" /\ worker[s] \in {"launched", "draining"} /\ s \notin partial
  /\ r.st # "ack" /\ r.handoff \in {"none", "Unavailable"} => worker[s] = "none" /\ s \notin partial
  /\ r.handoff = "Ambiguous" => worker[s] = "dead" /\ s \in partial
  /\ r.handoff = "Transferred" => r.st = "eof" /\ worker[s] \in {"draining", "dead"} /\ s \in partial

\* The direct child is known to be gone and was read to its last chunk.
ChildRead(s) ==
  LET r == reader[s] IN
  \/ r.st = "dry" /\ r.saw /\ r.handoff = "none"
  \/ (r.st = "ack" \/ r.handoff = "Transferred") /\ r.idle

\* Until a worker discards, what was written is what was read and what is still to
\* be read; and a reader that has ended has met the end or left a worker behind.
StreamWhole(s) ==
  /\ reader[s].saw => exited
  /\ s \notin partial /\ worker[s] \in {"none", "launched"} => wrote[s] = got[s] \o unread[s]
  /\ reader[s].st = "eof" /\ s \notin partial => unread[s] = <<>> /\ ~Open
  /\ reader[s].st = "eof" /\ Open => worker[s] = "draining"
  /\ ChildRead(s) => exited /\ From("child", got[s]) = From("child", wrote[s])

StreamOK(s) == HandedOver(s) /\ StreamWhole(s)

AdmitName(s) == IF s = "out" THEN "admit_out" ELSE "admit_err"
ThreadName(s) == IF s = "out" THEN "thread_out" ELSE "thread_err"
In(name, q) == \E i \in DOMAIN q : q[i] = name

StepNames == {"stdin", "admit_out", "admit_err", "thread_out", "thread_err"}

\* Set-up steps are taken once, and a reader is admitted before its thread starts.
StepsOK(q) ==
  /\ q \in Seq(StepNames)
  /\ \A i, j \in DOMAIN q : i # j => q[i] # q[j]
  /\ \A s \in Fds, i \in DOMAIN q :
       q[i] = AdmitName(s) => \E j \in DOMAIN q : i < j /\ q[j] = ThreadName(s)

Started(s) == reader[s].st \in {"look", "read", "dry", "ack", "eof", "error"}

\* What the steps that are left say of the readers.
SetupOK ==
  /\ StepsOK(setup)
  /\ \A s \in Fds :
       /\ In(AdmitName(s), setup) => reader[s].st = "none"
       /\ In(ThreadName(s), setup) /\ ~In(AdmitName(s), setup) => reader[s].st = "held"
       /\ s \in Captured /\ ~In(ThreadName(s), setup) => Started(s)

\* The shell waits only for readers it has started, and joins them in order.
PhaseOK ==
  /\ phase = "setup" => SetupOK
  /\ phase \in {"wait", "out", "err", "stdin", "done"} => \A s \in Captured : Started(s)
  /\ phase \in {"err", "stdin", "done"} => Ended("out")
  /\ phase \in {"stdin", "done"} => Ended("err")
  /\ phase = "done" => \A s \in Captured : reader[s].st # "error"

\* One slot for every reader at work and for every worker that was handed a pipe.
HeldBy(s) == IF reader[s].st \in Working THEN 1 ELSE 0
DrainedBy(s) == IF reader[s].handoff = "Transferred" /\ worker[s] # "dead" THEN 1 ELSE 0
SlotsOK == slots = others + HeldBy("out") + HeldBy("err") + DrainedBy("out") + DrainedBy("err")

CaptureInv == StateOK /\ (\A s \in Fds : StreamOK(s)) /\ PhaseOK /\ SlotsOK

-----------------------------------------------------------------------------
(* Facts about sequences and sets.                                         *)

\* What is moved from the front of one sequence to the end of another.
LEMMA MoveFirst ==
  ASSUME NEW p \in Seq(Procs), NEW q \in Seq(Procs), q # <<>>
  PROVE  /\ Append(p, Head(q)) \in Seq(Procs) /\ Tail(q) \in Seq(Procs)
         /\ Append(p, Head(q)) \o Tail(q) = p \o q
  OBVIOUS

\* What is written at the end of what is still to be read.
LEMMA AddLast ==
  ASSUME NEW p \in Seq(Procs), NEW q \in Seq(Procs), NEW x \in Procs
  PROVE  Append(p \o q, x) = p \o Append(q, x)
  OBVIOUS

\* A chunk of another process changes nothing about where a process wrote.
LEMMA FromOther ==
  ASSUME NEW q \in Seq(Procs), NEW x \in Procs, NEW w, x # w
  PROVE  From(w, Append(q, x)) = From(w, q)
  BY DEF From

\* The two streams, counted.
LEMMA CountStreams ==
  ASSUME NEW S \in SUBSET Fds
  PROVE  Cardinality(S) = (IF "out" \in S THEN 1 ELSE 0) + (IF "err" \in S THEN 1 ELSE 0)
<1>1. CASE "out" \in S /\ "err" \in S
  <2>1. S = {"out"} \cup {"err"}
    BY <1>1 DEF Fds
  <2>2. IsFiniteSet({"out"}) /\ Cardinality({"out"}) = 1
    BY FS_Singleton
  <2>3. Cardinality({"out"} \cup {"err"}) = 2
    BY <2>2, FS_AddElement
  <2> QED
    BY <1>1, <2>1, <2>3
<1>2. CASE "out" \in S /\ "err" \notin S
  <2>1. S = {"out"}
    BY <1>2 DEF Fds
  <2> QED
    BY <1>2, <2>1, FS_Singleton
<1>3. CASE "out" \notin S /\ "err" \in S
  <2>1. S = {"err"}
    BY <1>3 DEF Fds
  <2> QED
    BY <1>3, <2>1, FS_Singleton
<1>4. CASE "out" \notin S /\ "err" \notin S
  <2>1. S = {}
    BY <1>4 DEF Fds
  <2> QED
    BY <1>4, <2>1, FS_EmptySet
<1> QED
  BY <1>1, <1>2, <1>3, <1>4

\* What is left of the set-up once its first step is taken.
LEMMA StepTaken ==
  ASSUME NEW q, StepsOK(q), q # <<>>
  PROVE  /\ StepsOK(Tail(q))
         /\ \A name : In(name, Tail(q)) <=> In(name, q) /\ name # Head(q)
         /\ In(Head(q), q)
         /\ \A s \in Fds : Head(q) = AdmitName(s) => In(ThreadName(s), q) /\ ThreadName(s) # Head(q)
<1>1. q \in Seq(StepNames) /\ Len(q) \in Nat \ {0} /\ DOMAIN q = 1..Len(q) /\ Head(q) = q[1]
  BY DEF StepsOK
<1>2. /\ Tail(q) \in Seq(StepNames) /\ DOMAIN Tail(q) = 1..(Len(q) - 1)
      /\ \A i \in 1..(Len(q) - 1) : Tail(q)[i] = q[i + 1]
  BY <1>1
<1>3. \A name : In(name, Tail(q)) <=> In(name, q) /\ name # Head(q)
  <2> TAKE name
  <2>1. ASSUME In(name, Tail(q)) PROVE In(name, q) /\ name # Head(q)
    <3>1. PICK i \in 1..(Len(q) - 1) : q[i + 1] = name
      BY <1>2, <2>1 DEF In
    <3>2. i + 1 \in DOMAIN q /\ 1 \in DOMAIN q /\ i + 1 # 1
      BY <1>1
    <3> QED
      BY <1>1, <3>1, <3>2 DEF StepsOK, In
  <2>2. ASSUME In(name, q), name # Head(q) PROVE In(name, Tail(q))
    <3>1. PICK i \in 1..Len(q) : q[i] = name
      BY <1>1, <2>2 DEF In
    <3>2. i - 1 \in 1..(Len(q) - 1) /\ (i - 1) + 1 = i
      BY <1>1, <2>2, <3>1
    <3> QED
      BY <1>2, <3>1, <3>2 DEF In
  <2> QED
    BY <2>1, <2>2
<1>4. StepsOK(Tail(q))
  <2>1. ASSUME NEW i \in DOMAIN Tail(q), NEW j \in DOMAIN Tail(q), i # j
        PROVE  Tail(q)[i] # Tail(q)[j]
    <3>1. i + 1 \in DOMAIN q /\ j + 1 \in DOMAIN q /\ i + 1 # j + 1
      BY <1>1, <1>2, <2>1
    <3> QED
      BY <1>2, <3>1 DEF StepsOK
  <2>2. ASSUME NEW s \in Fds, NEW i \in DOMAIN Tail(q), Tail(q)[i] = AdmitName(s)
        PROVE  \E j \in DOMAIN Tail(q) : i < j /\ Tail(q)[j] = ThreadName(s)
    <3>1. i + 1 \in DOMAIN q /\ q[i + 1] = AdmitName(s)
      BY <1>1, <1>2, <2>2
    <3>2. PICK j \in DOMAIN q : i + 1 < j /\ q[j] = ThreadName(s)
      BY <3>1 DEF StepsOK
    <3>3. j - 1 \in DOMAIN Tail(q) /\ i < j - 1 /\ (j - 1) + 1 = j
      BY <1>1, <1>2, <3>2
    <3> QED
      BY <1>2, <3>2, <3>3
  <2> QED
    BY <1>2, <2>1, <2>2 DEF StepsOK
<1>5. In(Head(q), q)
  BY <1>1 DEF In
<1>6. ASSUME NEW s \in Fds, Head(q) = AdmitName(s)
      PROVE  In(ThreadName(s), q) /\ ThreadName(s) # Head(q)
  <2>1. PICK j \in DOMAIN q : 1 < j /\ q[j] = ThreadName(s)
    BY <1>1, <1>6 DEF StepsOK
  <2> QED
    BY <1>6, <2>1 DEF In, AdmitName, ThreadName, Fds
<1> QED
  BY <1>3, <1>4, <1>5, <1>6

-----------------------------------------------------------------------------
(* What a step leaves alone.                                               *)

\* A stream nobody touched stays as it was while processes end and the exit of
\* the direct child becomes known.
LEMMA StreamStays ==
  ASSUME NEW s \in Fds, StreamOK(s),
         reader'[s] = reader[s], worker'[s] = worker[s], got'[s] = got[s],
         wrote'[s] = wrote[s], unread'[s] = unread[s],
         s \in partial' <=> s \in partial,
         exited => exited', Open' => Open
  PROVE  StreamOK(s)'
<1>1. HandedOver(s)'
  BY DEF StreamOK, HandedOver
<1>2. ChildRead(s)' <=> ChildRead(s)
  BY DEF ChildRead
<1>3. StreamWhole(s)'
  BY <1>2 DEF StreamOK, StreamWhole, From
<1> QED
  BY <1>1, <1>3 DEF StreamOK

\* The phases and slots, where no reader, worker or slot changed.
LEMMA ReadersStay ==
  ASSUME CaptureInv, UNCHANGED <<plan, setup, phase, reader, worker, others, slots>>
  PROVE  PhaseOK' /\ SlotsOK'
<1>1. Captured' = Captured /\ \A s : Started(s)' = Started(s) /\ Ended(s)' = Ended(s)
  BY DEF Captured, Started, Ended
<1>2. SetupOK' = SetupOK
  BY <1>1 DEF SetupOK
<1>3. PhaseOK'
  BY <1>1, <1>2 DEF CaptureInv, PhaseOK
<1> QED
  BY <1>3 DEF CaptureInv, SlotsOK, HeldBy, DrainedBy

\* A reader at work takes a step: its thread is running, so the shell has not
\* joined it and no set-up step is left for it.
LEMMA ReaderPhases ==
  ASSUME CaptureInv, NEW s \in Fds, UNCHANGED <<plan, setup, phase>>,
         reader[s].st \in {"look", "read", "dry", "ack"},
         reader'[s].st \in {"look", "read", "dry", "ack", "eof", "error"},
         \A t \in Fds \ {s} : reader'[t] = reader[t]
  PROVE  PhaseOK'
<1>1. Captured' = Captured /\ Captured \subseteq Fds
  BY DEF Captured, Fds
<1>2. \A t \in Fds : Started(t) => Started(t)'
  BY DEF Started
<1>3. \A t \in Fds : Ended(t) => t # s /\ reader'[t] = reader[t]
  BY DEF Ended
<1>4. \A t \in Fds : Ended(t) => Ended(t)'
  BY <1>3 DEF Ended
<1>5. SetupOK => SetupOK'
  <2> SUFFICES ASSUME SetupOK PROVE SetupOK'
    OBVIOUS
  <2>1. ~In(AdmitName(s), setup) /\ ~In(ThreadName(s), setup)
    BY DEF SetupOK
  <2> QED
    BY <1>1, <1>2, <2>1 DEF SetupOK
<1>6. phase = "done" => \A t \in Captured : reader'[t].st # "error"
  <2> SUFFICES ASSUME phase = "done" PROVE \A t \in Captured : reader'[t].st # "error"
    OBVIOUS
  <2>1. \A t \in Fds : Ended(t)
    BY DEF CaptureInv, PhaseOK, Fds
  <2> QED
    BY <1>1, <1>3, <2>1 DEF CaptureInv, PhaseOK
<1>7. "out" \in Fds /\ "err" \in Fds
  BY DEF Fds
<1> QED
  BY <1>1, <1>2, <1>4, <1>5, <1>6, <1>7 DEF CaptureInv, PhaseOK

\* The slots change with the reader and the worker of one stream.
LEMMA SlotsMove ==
  ASSUME CaptureInv, NEW s \in Fds,
         \A t \in Fds \ {s} : HeldBy(t)' = HeldBy(t) /\ DrainedBy(t)' = DrainedBy(t),
         others' = others, slots' \in Int,
         slots' + HeldBy(s) + DrainedBy(s) = slots + HeldBy(s)' + DrainedBy(s)'
  PROVE  SlotsOK'
<1>1. \A t \in Fds : /\ HeldBy(t) \in Int /\ DrainedBy(t) \in Int
                     /\ HeldBy(t)' \in Int /\ DrainedBy(t)' \in Int
  BY DEF HeldBy, DrainedBy
<1>2. slots = others + HeldBy("out") + HeldBy("err") + DrainedBy("out") + DrainedBy("err")
      /\ slots \in Int /\ others \in Int
  BY DEF CaptureInv, SlotsOK, StateOK
<1>3. CASE s = "out"
  <2>1. HeldBy("err")' = HeldBy("err") /\ DrainedBy("err")' = DrainedBy("err")
    BY <1>3 DEF Fds
  <2> QED
    BY <1>1, <1>2, <1>3, <2>1 DEF SlotsOK, Fds
<1>4. CASE s = "err"
  <2>1. HeldBy("out")' = HeldBy("out") /\ DrainedBy("out")' = DrainedBy("out")
    BY <1>4 DEF Fds
  <2> QED
    BY <1>1, <1>2, <1>4, <2>1 DEF SlotsOK, Fds
<1> QED
  BY <1>3, <1>4 DEF Fds

-----------------------------------------------------------------------------
(* The processes and the other commands.                                   *)

\* Nothing has been written or started at first.
LEMMA CaptureInitInv == CaptureInit => CaptureInv
<1> SUFFICES ASSUME CaptureInit PROVE CaptureInv
  OBVIOUS
<1>1. \A s \in Fds : /\ reader[s] = Idle /\ worker[s] = "none" /\ unread[s] = <<>>
                     /\ got[s] = <<>> /\ wrote[s] = <<>> /\ s \notin partial
  BY DEF CaptureInit
<1>2. Idle \in Readers /\ Idle.st = "none" /\ Idle.saw = FALSE /\ Idle.handoff = "none"
      /\ Idle.idle = FALSE
  BY DEF Idle, Readers, ReaderStates, Working
<1>3. StateOK
  <2>1. <<>> \in Seq(Procs)
    OBVIOUS
  <2>2. proc \in [Procs -> {"none", "live", "gone", "reaped"}] /\ exited = FALSE
    BY DEF CaptureInit
  <2>3. reader \in [Fds -> Readers] /\ worker \in [Fds -> {"none", "launched", "draining", "dead"}]
    BY <1>2 DEF CaptureInit
  <2>4. others \in Int /\ slots \in Int
    BY DEF CaptureInit
  <2>5. unread \in [Fds -> Seq(Procs)] /\ got \in [Fds -> Seq(Procs)] /\ wrote \in [Fds -> Seq(Procs)]
    BY <2>1 DEF CaptureInit
  <2> QED
    BY <2>2, <2>3, <2>4, <2>5 DEF StateOK
<1>4. \A s \in Fds : StreamOK(s)
  <2> TAKE s \in Fds
  <2>1. HandedOver(s)
    BY <1>1, <1>2 DEF HandedOver
  <2>2. ~ChildRead(s)
    BY <1>1, <1>2 DEF ChildRead
  <2>3. wrote[s] = got[s] \o unread[s]
    <3>1. <<>> \o <<>> = <<>>
      OBVIOUS
    <3> QED
      BY <1>1, <3>1
  <2> QED
    BY <1>1, <1>2, <2>1, <2>2, <2>3 DEF StreamOK, StreamWhole
<1>5. SetupOK
  <2>1. \A s \in Fds : reader[s].st = "none"
    BY <1>1, <1>2
  <2>2. setup = IF plan.streaming THEN <<"admit_err", "stdin", "thread_err">>
                ELSE <<"stdin", "admit_out", "admit_err", "thread_out", "thread_err">>
    BY DEF CaptureInit, SetupSteps
  <2>3. CASE plan.streaming
    <3>1. setup = <<"admit_err", "stdin", "thread_err">>
      BY <2>2, <2>3
    <3>2. /\ setup \in Seq(StepNames) /\ DOMAIN setup = 1..3
          /\ setup[1] = "admit_err" /\ setup[2] = "stdin" /\ setup[3] = "thread_err"
      <4>1. <<"admit_err", "stdin", "thread_err">> \in Seq(StepNames)
        BY DEF StepNames
      <4>2. DOMAIN <<"admit_err", "stdin", "thread_err">> = 1..3
        OBVIOUS
      <4> QED
        BY <3>1, <4>1, <4>2
    <3>3. DOMAIN setup = {1, 2, 3}
      BY <3>2
    <3> HIDE <3>1
    <3>4. StepsOK(setup)
      BY <3>2, <3>3 DEF StepsOK, AdmitName, ThreadName, Fds
    <3>5. In("thread_err", setup) /\ In("admit_err", setup) /\ ~In("thread_out", setup)
          /\ ~In("admit_out", setup)
      BY <3>2, <3>3 DEF In
    <3>6. Captured = {"err"}
      BY <2>3 DEF Captured
    <3> QED
      BY <2>1, <3>4, <3>5, <3>6 DEF SetupOK, AdmitName, ThreadName, Fds
  <2>4. CASE ~plan.streaming
    <3>1. setup = <<"stdin", "admit_out", "admit_err", "thread_out", "thread_err">>
      BY <2>2, <2>4
    <3>2. /\ setup \in Seq(StepNames) /\ DOMAIN setup = 1..5
          /\ setup[1] = "stdin" /\ setup[2] = "admit_out" /\ setup[3] = "admit_err"
          /\ setup[4] = "thread_out" /\ setup[5] = "thread_err"
      <4>1. <<"stdin", "admit_out", "admit_err", "thread_out", "thread_err">> \in Seq(StepNames)
        BY DEF StepNames
      <4>2. DOMAIN <<"stdin", "admit_out", "admit_err", "thread_out", "thread_err">> = 1..5
        OBVIOUS
      <4> QED
        BY <3>1, <4>1, <4>2
    <3>3. DOMAIN setup = {1, 2, 3, 4, 5}
      BY <3>2
    <3> HIDE <3>1
    <3>4. StepsOK(setup)
      BY <3>2, <3>3 DEF StepsOK, AdmitName, ThreadName, Fds
    <3>5. In("thread_err", setup) /\ In("admit_err", setup) /\ In("thread_out", setup)
          /\ In("admit_out", setup)
      BY <3>2, <3>3 DEF In
    <3> QED
      BY <2>1, <3>4, <3>5 DEF SetupOK, AdmitName, ThreadName, Fds
  <2> QED
    BY <2>3, <2>4
<1>6. PhaseOK
  BY <1>5 DEF PhaseOK, CaptureInit
<1>7. SlotsOK
  <2>1. \A s \in Fds : HeldBy(s) = 0 /\ DrainedBy(s) = 0
    BY <1>1, <1>2 DEF HeldBy, DrainedBy, Working
  <2>2. slots = others /\ others \in Int
    BY DEF CaptureInit
  <2> QED
    BY <2>1, <2>2 DEF SlotsOK, Fds
<1> QED
  BY <1>3, <1>4, <1>6, <1>7 DEF CaptureInv

\* A chunk goes behind what is still to be read; the direct child, once it is
\* reaped, writes no more.
LEMMA WriteKeeps ==
  ASSUME CaptureInv, NEW w \in Procs, NEW s \in Fds, Write(w, s)
  PROVE  CaptureInv'
<1>1. /\ UNCHANGED <<plan, setup, phase, exited, reader, got, partial, worker, others, slots>>
      /\ proc[w] = "live"
  BY DEF Write
<1>2. PhaseOK' /\ SlotsOK'
  BY <1>1, ReadersStay
<1>3. CASE ~HasReader(s)
  <2>1. UNCHANGED <<unread, wrote>> /\ proc' = [proc EXCEPT ![w] = "gone"]
    BY <1>3 DEF Write
  <2>2. StateOK'
    BY <1>1, <2>1 DEF CaptureInv, StateOK, Procs
  <2>3. Open' => Open
    BY <2>1 DEF Open, CaptureInv, StateOK
  <2>4. \A t \in Fds : StreamOK(t)'
    BY <1>1, <2>1, <2>3, StreamStays DEF CaptureInv
  <2> QED
    BY <1>2, <2>2, <2>4 DEF CaptureInv
<1>4. CASE HasReader(s)
  <2>1. /\ UNCHANGED proc
        /\ unread' = [unread EXCEPT ![s] = Append(@, w)]
        /\ wrote' = [wrote EXCEPT ![s] = Append(@, w)]
    BY <1>4 DEF Write
  <2>2. /\ unread'[s] = Append(unread[s], w) /\ wrote'[s] = Append(wrote[s], w)
        /\ unread[s] \in Seq(Procs) /\ got[s] \in Seq(Procs) /\ wrote[s] \in Seq(Procs)
        /\ \A t \in Fds \ {s} : unread'[t] = unread[t] /\ wrote'[t] = wrote[t]
    BY <2>1 DEF CaptureInv, StateOK
  <2>3. StateOK'
    <3>1. Append(unread[s], w) \in Seq(Procs) /\ Append(wrote[s], w) \in Seq(Procs)
      BY <2>2
    <3> QED
      BY <1>1, <2>1, <3>1 DEF CaptureInv, StateOK
  <2>4. Open /\ Open' = Open
    BY <1>1, <2>1 DEF Open
  <2>5. \A t \in Fds \ {s} : StreamOK(t)'
    BY <1>1, <2>2, <2>4, StreamStays DEF CaptureInv
  <2>6. StreamOK(s)'
    <3>1. StreamOK(s)
      BY DEF CaptureInv
    <3>2. HandedOver(s)'
      BY <1>1, <3>1 DEF StreamOK, HandedOver
    <3>3. ~(reader[s].st = "eof" /\ s \notin partial)
      BY <2>4, <3>1 DEF StreamOK, StreamWhole
    <3>4. wrote[s] = got[s] \o unread[s] => wrote'[s] = got[s] \o unread'[s]
      <4>1. Append(got[s] \o unread[s], w) = got[s] \o Append(unread[s], w)
        BY <2>2, AddLast
      <4> QED
        BY <2>2, <4>1
    <3>5. exited => From("child", wrote'[s]) = From("child", wrote[s])
      <4>1. exited => w # "child"
        BY <1>1 DEF CaptureInv, StateOK
      <4> QED
        BY <2>2, <4>1, FromOther
    <3>6. ChildRead(s)' <=> ChildRead(s)
      BY <1>1 DEF ChildRead
    <3>7. got'[s] = got[s] /\ reader'[s] = reader[s] /\ worker'[s] = worker[s]
          /\ exited' = exited /\ partial' = partial
      BY <1>1
    <3>8. StreamWhole(s)'
      BY <2>4, <3>1, <3>3, <3>4, <3>5, <3>6, <3>7 DEF StreamOK, StreamWhole
    <3> QED
      BY <3>2, <3>8 DEF StreamOK
  <2> QED
    BY <1>2, <2>3, <2>5, <2>6 DEF CaptureInv
<1> QED
  BY <1>3, <1>4

\* Processes come from a live child only, and go.
LEMMA ProcessesKeep ==
  ASSUME CaptureInv, Fork \/ (\E w \in Procs : Exit(w)) \/ InputTaken \/ WaitChild
  PROVE  CaptureInv'
<1>1. UNCHANGED <<plan, setup, reader, got, unread, wrote, partial, worker, others, slots>>
  BY DEF Fork, Exit, InputTaken, WaitChild
<1>2. /\ proc' \in [Procs -> {"none", "live", "gone", "reaped"}] /\ exited' \in BOOLEAN
      /\ exited' => proc'["child"] = "reaped"
      /\ exited => exited'
  <2>0. /\ proc \in [Procs -> {"none", "live", "gone", "reaped"}] /\ exited \in BOOLEAN
        /\ exited => proc["child"] = "reaped"
    BY DEF CaptureInv, StateOK
  <2>1. CASE Fork
    BY <2>0, <2>1 DEF Fork, Procs
  <2>2. ASSUME NEW w \in Procs, Exit(w)
        PROVE  /\ exited' = exited /\ proc' \in [Procs -> {"none", "live", "gone", "reaped"}]
               /\ exited => proc'["child"] = "reaped"
    BY <2>0, <2>2 DEF Exit, Procs
  <2>3. CASE InputTaken
    BY <2>0, <2>3 DEF InputTaken
  <2>4. CASE WaitChild
    BY <2>0, <2>4 DEF WaitChild, Procs
  <2> QED
    BY <2>0, <2>1, <2>2, <2>3, <2>4
<1>3. Open' => Open
  BY DEF CaptureInv, StateOK, Open, Procs, Fork, Exit, InputTaken, WaitChild
<1>4. StateOK'
  BY <1>1, <1>2 DEF CaptureInv, StateOK
<1>5. \A t \in Fds : StreamOK(t)'
  BY <1>1, <1>2, <1>3, StreamStays DEF CaptureInv
<1>6. SlotsOK'
  BY <1>1 DEF CaptureInv, SlotsOK, HeldBy, DrainedBy
<1>7. PhaseOK'
  <2>1. CASE phase' = phase
    BY <1>1, <2>1, ReadersStay
  <2>2. CASE phase = "wait" /\ phase' = "out"
    BY <1>1, <2>2 DEF CaptureInv, PhaseOK, Captured, Started
  <2> QED
    BY <2>1, <2>2 DEF Fork, Exit, InputTaken, WaitChild
<1> QED
  BY <1>4, <1>5, <1>6, <1>7 DEF CaptureInv

\* Other commands take and give back slots of their own.
LEMMA OthersKeep == ASSUME CaptureInv, OtherCapture PROVE CaptureInv'
<1>1. /\ UNCHANGED <<plan, setup, phase, proc, exited, unread, reader, got, partial, worker, wrote>>
      /\ others' \in Int /\ slots' = slots + others' - others
  BY DEF OtherCapture
<1>2. StateOK'
  BY <1>1 DEF CaptureInv, StateOK
<1>3. \A t \in Fds : StreamOK(t)'
  <2>1. Open' = Open
    BY <1>1 DEF Open
  <2> QED
    BY <1>1, <2>1, StreamStays DEF CaptureInv
<1>4. SlotsOK'
  <2>1. \A t \in Fds : /\ HeldBy(t)' = HeldBy(t) /\ DrainedBy(t)' = DrainedBy(t)
                       /\ HeldBy(t) \in Int /\ DrainedBy(t) \in Int
    BY <1>1 DEF HeldBy, DrainedBy
  <2> QED
    <3>1. /\ "out" \in Fds /\ "err" \in Fds /\ slots \in Int /\ others \in Int
          /\ slots = others + HeldBy("out") + HeldBy("err") + DrainedBy("out") + DrainedBy("err")
      BY DEF CaptureInv, SlotsOK, StateOK, Fds
    <3>2. slots' = others' + HeldBy("out") + HeldBy("err") + DrainedBy("out") + DrainedBy("err")
      BY <1>1, <2>1, <3>1
    <3> QED
      BY <2>1, <3>1, <3>2 DEF SlotsOK
<1>5. PhaseOK'
  BY <1>1 DEF CaptureInv, PhaseOK, SetupOK, Captured, Started, Ended
<1> QED
  BY <1>2, <1>3, <1>4, <1>5 DEF CaptureInv

-----------------------------------------------------------------------------
(* The set-up.                                                             *)

\* A reader that has not started: all its stream needs is that nothing was lost.
LEMMA UnstartedOK ==
  ASSUME CaptureInv, NEW s \in Fds,
         reader[s].st \in {"none", "held"},
         reader'[s].st \in {"none", "held", "closed", "look"},
         reader'[s].saw = reader[s].saw, reader'[s].handoff = reader[s].handoff,
         UNCHANGED <<got, unread, wrote, partial, worker>>,
         exited => exited'
  PROVE  StreamOK(s)'
<1>1. StreamOK(s)
  BY DEF CaptureInv
<1>2. reader[s].handoff # "Transferred"
  BY <1>1 DEF StreamOK, HandedOver
<1>3. HandedOver(s)'
  BY <1>1, <1>2 DEF StreamOK, HandedOver
<1>4. ~ChildRead(s)'
  BY <1>2 DEF ChildRead
<1> QED
  BY <1>1, <1>3, <1>4 DEF StreamOK, StreamWhole

\* Whatever set-up step fails, the readers that never started give up their slots.
LEMMA AbortKeeps ==
  ASSUME CaptureInv, AbortStart,
         UNCHANGED <<plan, unread, got, partial, worker, others, wrote>>
  PROVE  CaptureInv'
<1>1. /\ proc' = [proc EXCEPT !["child"] = "reaped"] /\ exited' = TRUE /\ phase' = "abort"
      /\ reader' = [s \in Fds |-> IF reader[s].st \in {"none", "held"}
                                  THEN [reader[s] EXCEPT !.st = "closed"] ELSE reader[s]]
      /\ slots' = slots - Cardinality(Unstarted)
  BY DEF AbortStart
<1>2. \A s \in Fds :
        /\ reader'[s] \in Readers
        /\ reader[s].st \in {"none", "held"} =>
             /\ reader'[s].st = "closed" /\ reader'[s].saw = reader[s].saw
             /\ reader'[s].handoff = reader[s].handoff
        /\ reader[s].st \notin {"none", "held"} => reader'[s] = reader[s]
  <2> TAKE s \in Fds
  <2>1. reader[s] \in Readers
    BY DEF CaptureInv, StateOK
  <2> QED
    BY <1>1, <2>1 DEF Readers, ReaderStates, Working
<1>3. Cardinality(Unstarted) = (IF reader["out"].st = "held" THEN 1 ELSE 0)
                             + (IF reader["err"].st = "held" THEN 1 ELSE 0)
  <2>1. Unstarted \in SUBSET Fds
    BY DEF Unstarted
  <2>2. ("out" \in Unstarted <=> reader["out"].st = "held")
        /\ ("err" \in Unstarted <=> reader["err"].st = "held")
    BY DEF Unstarted, Fds
  <2> QED
    BY <2>1, <2>2, CountStreams
<1>4. Open' => Open
  BY <1>1 DEF Open, CaptureInv, StateOK, Procs
<1>5. slots \in Int /\ slots' \in Int /\ others \in Int
  BY <1>1, <1>3 DEF CaptureInv, StateOK
<1>6. StateOK'
  <2>1. reader' \in [Fds -> Readers]
    BY <1>1, <1>2
  <2>2. proc' \in [Procs -> {"none", "live", "gone", "reaped"}] /\ proc'["child"] = "reaped"
    BY <1>1 DEF CaptureInv, StateOK, Procs
  <2> QED
    BY <1>1, <1>5, <2>1, <2>2 DEF CaptureInv, StateOK
<1>7. \A s \in Fds : StreamOK(s)'
  <2> TAKE s \in Fds
  <2>1. CASE reader[s].st \in {"none", "held"}
    BY <1>1, <1>2, <2>1, UnstartedOK
  <2>2. CASE reader[s].st \notin {"none", "held"}
    <3>1. reader'[s] = reader[s]
      BY <1>2, <2>2
    <3> QED
      BY <1>1, <1>4, <3>1, StreamStays DEF CaptureInv
  <2> QED
    BY <2>1, <2>2
<1>8. SlotsOK'
  <2>1. \A s \in Fds : /\ HeldBy(s) = HeldBy(s)' + (IF reader[s].st = "held" THEN 1 ELSE 0)
                       /\ DrainedBy(s)' = DrainedBy(s)
                       /\ HeldBy(s)' \in Int /\ DrainedBy(s) \in Int
    <3> TAKE s \in Fds
    <3>1. CASE reader[s].st \in {"none", "held"}
      BY <1>2, <3>1 DEF HeldBy, DrainedBy, Working
    <3>2. CASE reader[s].st \notin {"none", "held"}
      BY <1>2, <3>2 DEF HeldBy, DrainedBy, Working
    <3> QED
      BY <3>1, <3>2
  <2>2. "out" \in Fds /\ "err" \in Fds
    BY DEF Fds
  <2>3. slots = others + HeldBy("out") + HeldBy("err") + DrainedBy("out") + DrainedBy("err")
    BY DEF CaptureInv, SlotsOK
  <2>4. slots' = others + HeldBy("out")' + HeldBy("err")' + DrainedBy("out") + DrainedBy("err")
    BY <1>1, <1>3, <1>5, <2>1, <2>2, <2>3
  <2> QED
    BY <2>1, <2>2, <2>4 DEF SlotsOK
<1>9. PhaseOK'
  BY <1>1 DEF PhaseOK
<1> QED
  BY <1>6, <1>7, <1>8, <1>9 DEF CaptureInv

\* One set-up step succeeds: the reader of at most one stream moves on, as the
\* step that was taken says.
LEMMA StepKeeps ==
  ASSUME CaptureInv, phase = "setup", setup # <<>>, SetupDone, UNCHANGED plan,
         \A t \in Fds : Head(setup) # AdmitName(t) /\ Head(setup) # ThreadName(t)
                          => reader'[t] = reader[t],
         \A t \in Fds : Head(setup) = AdmitName(t) => reader'[t].st = "held",
         \A t \in Fds : Head(setup) = ThreadName(t) => reader'[t].st = "look"
  PROVE  PhaseOK'
<1>1. setup' = Tail(setup) /\ phase' = IF Tail(setup) = <<>> THEN "wait" ELSE "setup"
  BY DEF SetupDone
<1>2. SetupOK
  BY DEF CaptureInv, PhaseOK
<1>3. StepsOK(setup)
  BY <1>2 DEF SetupOK
<1>4. /\ StepsOK(setup')
      /\ \A name : In(name, setup') <=> In(name, setup) /\ name # Head(setup)
      /\ In(Head(setup), setup)
      /\ \A t \in Fds : Head(setup) = AdmitName(t) => In(ThreadName(t), setup)
                                                     /\ ThreadName(t) # Head(setup)
  BY <1>1, <1>3, StepTaken
<1>5. Captured' = Captured /\ Captured \subseteq Fds
  BY DEF Captured, Fds
<1>6. ASSUME NEW t \in Fds
      PROVE  /\ In(AdmitName(t), setup') => reader'[t].st = "none"
             /\ In(ThreadName(t), setup') /\ ~In(AdmitName(t), setup') => reader'[t].st = "held"
             /\ t \in Captured /\ ~In(ThreadName(t), setup') => Started(t)'
  <2>1. /\ In(AdmitName(t), setup) => reader[t].st = "none"
        /\ In(ThreadName(t), setup) /\ ~In(AdmitName(t), setup) => reader[t].st = "held"
        /\ t \in Captured /\ ~In(ThreadName(t), setup) => Started(t)
    BY <1>2 DEF SetupOK
  <2>2. AdmitName(t) # ThreadName(t)
    BY DEF AdmitName, ThreadName
  <2>3. CASE Head(setup) = AdmitName(t)
    BY <1>4, <2>2, <2>3
  <2>4. CASE Head(setup) = ThreadName(t)
    <3>1. reader'[t].st = "look" /\ ~In(ThreadName(t), setup')
      BY <1>4, <2>4
    <3>2. ~In(AdmitName(t), setup)
      <4>1. SUFFICES ASSUME In(AdmitName(t), setup) PROVE FALSE
        OBVIOUS
      <4>2. PICK i \in DOMAIN setup : setup[i] = AdmitName(t)
        BY <4>1 DEF In
      <4>3. PICK j \in DOMAIN setup : i < j /\ setup[j] = ThreadName(t)
        BY <1>3, <4>2 DEF StepsOK
      <4>4. setup \in Seq(StepNames) /\ setup[1] = ThreadName(t) /\ 1 \in DOMAIN setup
            /\ i >= 1 /\ j # 1
        BY <1>3, <2>4, <4>2, <4>3 DEF StepsOK
      <4> QED
        BY <1>3, <4>3, <4>4 DEF StepsOK
    <3> QED
      BY <1>4, <3>1, <3>2 DEF Started
  <2>5. CASE Head(setup) # AdmitName(t) /\ Head(setup) # ThreadName(t)
    <3>1. reader'[t] = reader[t]
      BY <2>5
    <3> QED
      BY <1>4, <2>1, <2>5, <3>1 DEF Started
  <2> QED
    BY <2>3, <2>4, <2>5
<1>7. SetupOK'
  BY <1>4, <1>5, <1>6 DEF SetupOK
<1>8. phase' = "wait" => \A t \in Captured : Started(t)'
  <2> SUFFICES ASSUME setup' = <<>> PROVE \A t \in Captured : Started(t)'
    BY <1>1
  <2>1. \A name : ~In(name, setup')
    BY DEF In
  <2> QED
    BY <1>5, <1>6, <2>1
<1> QED
  BY <1>1, <1>5, <1>7, <1>8 DEF PhaseOK

\* The input writer starts or the command is given up.
LEMMA StartInputKeeps == ASSUME CaptureInv, StartInput PROVE CaptureInv'
<1>1. UNCHANGED <<plan, unread, got, partial, worker, others, wrote>>
  BY DEF StartInput
<1>2. CASE AbortStart
  BY <1>1, <1>2, AbortKeeps
<1>3. CASE SetupDone /\ UNCHANGED <<proc, exited, reader, slots>>
  <2>1. phase = "setup" /\ setup # <<>> /\ Head(setup) = "stdin"
    BY DEF StartInput, SetupStep
  <2>2. PhaseOK'
    <3>1. \A t \in Fds : Head(setup) # AdmitName(t) /\ Head(setup) # ThreadName(t)
      BY <2>1 DEF AdmitName, ThreadName
    <3> QED
      BY <1>1, <1>3, <2>1, <3>1, StepKeeps
  <2>3. StateOK'
    BY <1>1, <1>3 DEF CaptureInv, StateOK
  <2>4. \A t \in Fds : StreamOK(t)'
    <3>1. Open' = Open
      BY <1>3 DEF Open
    <3> QED
      BY <1>1, <1>3, <3>1, StreamStays DEF CaptureInv
  <2>5. SlotsOK'
    BY <1>1, <1>3 DEF CaptureInv, SlotsOK, HeldBy, DrainedBy
  <2> QED
    BY <2>2, <2>3, <2>4, <2>5 DEF CaptureInv
<1> QED
  BY <1>2, <1>3 DEF StartInput

\* A reader is admitted with a slot, and its thread started, each as the set-up
\* step for its stream.
LEMMA ReaderSetUp ==
  ASSUME CaptureInv, NEW s \in Fds, NEW st \in {"held", "look"},
         phase = "setup", setup # <<>>,
         Head(setup) = IF st = "held" THEN AdmitName(s) ELSE ThreadName(s),
         reader' = [reader EXCEPT ![s].st = st],
         slots' = IF st = "held" THEN slots + 1 ELSE slots,
         SetupDone,
         UNCHANGED <<plan, proc, exited, unread, got, partial, worker, others, wrote>>
  PROVE  CaptureInv'
<1>1. /\ reader' \in [Fds -> Readers]
      /\ reader'[s].st = st /\ reader'[s].saw = reader[s].saw
      /\ reader'[s].handoff = reader[s].handoff
      /\ \A t \in Fds \ {s} : reader'[t] = reader[t]
  <2>1. reader[s] \in Readers /\ reader \in [Fds -> Readers]
    BY DEF CaptureInv, StateOK
  <2>2. [reader[s] EXCEPT !.st = st] \in Readers
    BY <2>1 DEF Readers, ReaderStates, Working
  <2>3. reader'[s] = [reader[s] EXCEPT !.st = st] /\ \A t \in Fds \ {s} : reader'[t] = reader[t]
    BY <2>1
  <2>4. reader' \in [Fds -> Readers]
    BY <2>1, <2>2
  <2> QED
    BY <2>1, <2>3, <2>4 DEF Readers
<1>2. SetupOK
  BY DEF CaptureInv, PhaseOK
<1>3. StepsOK(setup)
  BY <1>2 DEF SetupOK
<1>4. \A t \in Fds : Head(setup) \in {AdmitName(t), ThreadName(t)} => t = s
  BY DEF AdmitName, ThreadName, Fds
<1>5. AdmitName(s) # ThreadName(s)
  BY DEF AdmitName, ThreadName
<1>6. reader[s].st = IF st = "held" THEN "none" ELSE "held"
  <2>1. In(Head(setup), setup)
    BY <1>3, StepTaken
  <2>2. CASE st = "held"
    BY <1>2, <2>1, <2>2 DEF SetupOK
  <2>3. CASE st = "look"
    <3>1. ~In(AdmitName(s), setup)
      <4>1. SUFFICES ASSUME In(AdmitName(s), setup) PROVE FALSE
        OBVIOUS
      <4>2. PICK i \in DOMAIN setup : setup[i] = AdmitName(s)
        BY <4>1 DEF In
      <4>3. PICK j \in DOMAIN setup : i < j /\ setup[j] = ThreadName(s)
        BY <1>3, <4>2 DEF StepsOK
      <4>4. setup \in Seq(StepNames) /\ setup[1] = ThreadName(s) /\ 1 \in DOMAIN setup
            /\ i >= 1 /\ j # 1
        BY <1>3, <2>3, <4>2, <4>3 DEF StepsOK
      <4> QED
        BY <1>3, <4>3, <4>4 DEF StepsOK
    <3> QED
      BY <1>2, <2>1, <2>3, <3>1 DEF SetupOK
  <2> QED
    BY <2>2, <2>3
<1>7. PhaseOK'
  <2>1. /\ \A t \in Fds : Head(setup) # AdmitName(t) /\ Head(setup) # ThreadName(t)
                            => reader'[t] = reader[t]
        /\ \A t \in Fds : Head(setup) = AdmitName(t) => reader'[t].st = "held"
        /\ \A t \in Fds : Head(setup) = ThreadName(t) => reader'[t].st = "look"
    BY <1>1, <1>4, <1>5
  <2> QED
    BY <2>1, StepKeeps
<1>8. StateOK'
  BY <1>1 DEF CaptureInv, StateOK
<1>9. \A t \in Fds : StreamOK(t)'
  <2> TAKE t \in Fds
  <2>1. CASE t = s
    BY <1>1, <1>6, <2>1, UnstartedOK
  <2>2. CASE t # s
    <3>1. Open' = Open
      BY DEF Open
    <3> QED
      BY <1>1, <2>2, <3>1, StreamStays DEF CaptureInv
  <2> QED
    BY <2>1, <2>2
<1>10. SlotsOK'
  <2>1. \A t \in Fds \ {s} : HeldBy(t)' = HeldBy(t) /\ DrainedBy(t)' = DrainedBy(t)
    BY <1>1 DEF HeldBy, DrainedBy
  <2>2. DrainedBy(s)' = DrainedBy(s) /\ DrainedBy(s) \in Int
    BY <1>1 DEF DrainedBy
  <2>3. HeldBy(s)' = 1 /\ HeldBy(s) = IF st = "held" THEN 0 ELSE 1
    BY <1>1, <1>6 DEF HeldBy, Working
  <2>4. slots \in Int
    BY DEF CaptureInv, StateOK
  <2>5. /\ slots' \in Int
        /\ slots' + HeldBy(s) + DrainedBy(s) = slots + HeldBy(s)' + DrainedBy(s)'
    BY <2>2, <2>3, <2>4
  <2> QED
    BY <2>1, <2>5, SlotsMove
<1> QED
  BY <1>7, <1>8, <1>9, <1>10 DEF CaptureInv

\* A reader exists only with a slot; without one the command is given up.
LEMMA AdmitKeeps == ASSUME CaptureInv, NEW s \in Fds, Admit(s) PROVE CaptureInv'
<1>1. /\ phase = "setup" /\ setup # <<>> /\ Head(setup) = AdmitName(s)
      /\ UNCHANGED <<plan, unread, got, partial, worker, others, wrote>>
  BY DEF Admit, SetupStep, AdmitName
<1>2. CASE AbortStart
  BY <1>1, <1>2, AbortKeeps
<1>3. CASE /\ slots' = slots + 1 /\ reader' = [reader EXCEPT ![s].st = "held"]
           /\ SetupDone /\ UNCHANGED <<proc, exited>>
  BY <1>1, <1>3, ReaderSetUp
<1> QED
  BY <1>2, <1>3 DEF Admit

\* The thread starts, or the command is given up.
LEMMA StartReaderKeeps == ASSUME CaptureInv, NEW s \in Fds, StartReader(s) PROVE CaptureInv'
<1>1. /\ phase = "setup" /\ setup # <<>> /\ Head(setup) = ThreadName(s)
      /\ UNCHANGED <<plan, unread, got, partial, worker, others, wrote>>
  BY DEF StartReader, SetupStep, ThreadName
<1>2. CASE AbortStart
  BY <1>1, <1>2, AbortKeeps
<1>3. CASE /\ slots' = slots /\ reader' = [reader EXCEPT ![s].st = "look"]
           /\ SetupDone /\ UNCHANGED <<proc, exited>>
  BY <1>1, <1>3, ReaderSetUp
<1> QED
  BY <1>2, <1>3 DEF StartReader

-----------------------------------------------------------------------------
(* The readers and the workers.                                            *)

\* What a step of the reader or the worker of one stream has to show: its own
\* stream and its own slot.
LEMMA OneStream ==
  ASSUME CaptureInv, NEW s \in Fds,
         UNCHANGED <<plan, setup, phase, proc, exited, others, wrote>>,
         reader' \in [Fds -> Readers],
         \/ reader' = reader
         \/ /\ reader[s].st \in {"look", "read", "dry", "ack"}
            /\ reader'[s].st \in {"look", "read", "dry", "ack", "eof", "error"},
         unread' \in [Fds -> Seq(Procs)], got' \in [Fds -> Seq(Procs)],
         worker' \in [Fds -> {"none", "launched", "draining", "dead"}],
         \A t \in Fds \ {s} : /\ reader'[t] = reader[t] /\ worker'[t] = worker[t]
                              /\ unread'[t] = unread[t] /\ got'[t] = got[t]
                              /\ t \in partial' <=> t \in partial,
         StreamOK(s)',
         slots' \in Int,
         slots' + HeldBy(s) + DrainedBy(s) = slots + HeldBy(s)' + DrainedBy(s)'
  PROVE  CaptureInv'
<1>1. StateOK'
  BY DEF CaptureInv, StateOK
<1>2. \A t \in Fds : StreamOK(t)'
  <2> TAKE t \in Fds
  <2>1. CASE t = s
    BY <2>1
  <2>2. CASE t # s
    <3>1. Open' = Open /\ wrote'[t] = wrote[t] /\ exited' = exited /\ t \in Fds \ {s}
      BY <2>2 DEF Open
    <3> QED
      BY <3>1, StreamStays DEF CaptureInv
  <2> QED
    BY <2>1, <2>2
<1>3. PhaseOK'
  <2>1. CASE reader' = reader
    BY <2>1 DEF CaptureInv, PhaseOK, SetupOK, Captured, Started, Ended
  <2>2. CASE /\ reader[s].st \in {"look", "read", "dry", "ack"}
             /\ reader'[s].st \in {"look", "read", "dry", "ack", "eof", "error"}
    BY <2>2, ReaderPhases
  <2> QED
    BY <2>1, <2>2
<1>4. SlotsOK'
  <2>1. \A t \in Fds \ {s} : HeldBy(t)' = HeldBy(t) /\ DrainedBy(t)' = DrainedBy(t)
    BY DEF HeldBy, DrainedBy
  <2> QED
    BY <2>1, SlotsMove
<1> QED
  BY <1>1, <1>2, <1>3, <1>4 DEF CaptureInv

\* A reader looks at the flag and goes on to read, or hands the rest over.
LEMMA LookKeeps == ASSUME CaptureInv, NEW s \in Fds, Look(s) PROVE CaptureInv'
<1> DEFINE r == reader[s]
           q == reader'[s]
<1>1. /\ UNCHANGED <<plan, setup, phase, proc, exited, unread, got, partial, others, slots, wrote>>
      /\ r.st = "look" /\ r \in Readers /\ reader \in [Fds -> Readers] /\ exited \in BOOLEAN
      /\ worker \in [Fds -> {"none", "launched", "draining", "dead"}] /\ StreamOK(s)
  BY DEF Look, CaptureInv, StateOK
<1>2. /\ q \in Readers /\ q.saw = exited
      /\ \A t \in Fds \ {s} : reader'[t] = reader[t] /\ worker'[t] = worker[t]
      /\ \/ q.st = "read" /\ q.handoff = r.handoff /\ worker'[s] = worker[s]
         \/ q.st = "ack" /\ q.handoff = "none" /\ r.handoff = "none" /\ ~q.idle /\ worker'[s] = "launched"
         \/ q.st = "read" /\ q.handoff = "Unavailable" /\ r.handoff = "none" /\ worker'[s] = worker[s]
      /\ reader' \in [Fds -> Readers]
      /\ worker' \in [Fds -> {"none", "launched", "draining", "dead"}]
  <2>1. CASE reader' = [reader EXCEPT ![s].st = "read", ![s].saw = exited] /\ UNCHANGED worker
    BY <1>1, <2>1 DEF Readers, ReaderStates, Working
  <2>2. CASE /\ exited /\ r.handoff = "none" /\ LaunchWorker(s)
             /\ reader' = [[reader EXCEPT ![s].saw = exited] EXCEPT ![s].st = "ack", ![s].idle = FALSE]
    BY <1>1, <2>2 DEF Readers, ReaderStates, Working, LaunchWorker
  <2>3. CASE /\ exited /\ r.handoff = "none" /\ LaunchWorker(s)
             /\ reader' = [[reader EXCEPT ![s].saw = exited] EXCEPT ![s].st = "read",
                                                                    ![s].handoff = "Unavailable"]
    BY <1>1, <2>3 DEF Readers, ReaderStates, Working, LaunchWorker
  <2> QED
    BY <2>1, <2>2, <2>3 DEF Look
<1>3. worker[s] \in {"none", "dead"} /\ r.handoff # "Transferred"
  BY <1>1 DEF StreamOK, HandedOver, Readers
<1>4. StreamOK(s)'
  <2>1. HandedOver(s)'
    BY <1>1, <1>2, <1>3 DEF StreamOK, HandedOver
  <2>2. ~ChildRead(s)'
    BY <1>2, <1>3 DEF ChildRead
  <2>3. s \notin partial /\ worker'[s] \in {"none", "launched"} => wrote[s] = got[s] \o unread[s]
    BY <1>1, <1>2 DEF StreamOK, StreamWhole, HandedOver
  <2>4. q.saw => exited'
    BY <1>1, <1>2
  <2> QED
    BY <1>1, <1>2, <2>1, <2>2, <2>3, <2>4 DEF StreamOK, StreamWhole
<1>5. HeldBy(s)' = 1 /\ HeldBy(s) = 1 /\ DrainedBy(s)' = 0 /\ DrainedBy(s) = 0
  BY <1>1, <1>2, <1>3 DEF HeldBy, DrainedBy, Working
<1>6. slots' \in Int /\ slots' + HeldBy(s) + DrainedBy(s) = slots + HeldBy(s)' + DrainedBy(s)'
  BY <1>1, <1>5 DEF CaptureInv, StateOK
<1>7. unread' \in [Fds -> Seq(Procs)] /\ got' \in [Fds -> Seq(Procs)]
  BY <1>1 DEF CaptureInv, StateOK
<1> QED
  BY <1>1, <1>2, <1>4, <1>6, <1>7, OneStream

\* A read moves a chunk into the capture, meets the end or finds nothing yet; one
\* that finds nothing after the exit was seen has all the direct child wrote.
LEMMA ReadKeeps == ASSUME CaptureInv, NEW s \in Fds, Read(s) PROVE CaptureInv'
<1> DEFINE r == reader[s]
           q == reader'[s]
<1>1. /\ UNCHANGED <<plan, setup, phase, proc, exited, worker, partial, others, wrote>>
      /\ r.st = "read" /\ r \in Readers /\ reader \in [Fds -> Readers] /\ slots \in Int
      /\ StreamOK(s)
      /\ unread \in [Fds -> Seq(Procs)] /\ got \in [Fds -> Seq(Procs)]
  BY DEF Read, Finish, CaptureInv, StateOK
<1>2. r.handoff # "Transferred" /\ worker[s] \in {"none", "dead"}
  BY <1>1 DEF StreamOK, HandedOver, Readers
<1>3. /\ q \in Readers /\ q.saw = r.saw /\ q.handoff = r.handoff
      /\ \A t \in Fds \ {s} : reader'[t] = reader[t]
      /\ reader' \in [Fds -> Readers]
      /\ \/ /\ q.st \in {"look", "error"} /\ unread[s] # <<>>
            /\ got' = [got EXCEPT ![s] = Append(@, Head(unread[s]))]
            /\ unread' = [unread EXCEPT ![s] = Tail(@)]
         \/ q.st = "eof" /\ unread[s] = <<>> /\ ~Open /\ UNCHANGED <<got, unread>>
         \/ q.st = "dry" /\ unread[s] = <<>> /\ UNCHANGED <<got, unread>>
      /\ slots' = IF q.st \in {"eof", "error"} THEN slots - 1 ELSE slots
  <2>1. CASE /\ unread[s] # <<>> /\ Finish(s, "error")
             /\ got' = [got EXCEPT ![s] = Append(@, Head(unread[s]))]
             /\ unread' = [unread EXCEPT ![s] = Tail(@)]
    BY <1>1, <2>1 DEF Finish, Readers, ReaderStates, Working
  <2>2. CASE /\ unread[s] # <<>> /\ slots' = slots
             /\ reader' = [reader EXCEPT ![s].st = "look",
                       ![s].post = IF reader[s].saw /\ @ < PostBytes THEN @ + 1 ELSE @]
             /\ got' = [got EXCEPT ![s] = Append(@, Head(unread[s]))]
             /\ unread' = [unread EXCEPT ![s] = Tail(@)]
    <3>1. r.post \in Nat /\ r.saw \in BOOLEAN
      BY <1>1 DEF Readers
    <3>2. PICK n \in Nat : reader' = [reader EXCEPT ![s].st = "look", ![s].post = n]
      <4>1. CASE reader[s].saw /\ r.post < PostBytes
        <5>1. r.post + 1 \in Nat
          BY <3>1
        <5>2. reader' = [reader EXCEPT ![s].st = "look", ![s].post = r.post + 1]
          BY <1>1, <2>2, <4>1
        <5> QED
          BY <5>1, <5>2
      <4>2. CASE ~(reader[s].saw /\ r.post < PostBytes)
        BY <1>1, <2>2, <3>1, <4>2
      <4> QED
        BY <4>1, <4>2
    <3>3. [r EXCEPT !.st = "look", !.post = n] \in Readers
      BY <1>1 DEF Readers, ReaderStates, Working
    <3>4. q = [r EXCEPT !.st = "look", !.post = n] /\ \A t \in Fds \ {s} : reader'[t] = reader[t]
      BY <1>1, <3>2
    <3>5. reader' \in [Fds -> Readers]
      BY <1>1, <3>2, <3>3, <3>4
    <3> QED
      BY <1>1, <2>2, <3>3, <3>4, <3>5 DEF Readers
  <2>3. CASE unread[s] = <<>> /\ ~Open /\ Finish(s, "eof") /\ UNCHANGED <<got, unread>>
    BY <1>1, <2>3 DEF Finish, Readers, ReaderStates, Working
  <2>4. CASE /\ unread[s] = <<>> /\ reader' = [reader EXCEPT ![s].st = "dry"]
             /\ slots' = slots /\ UNCHANGED <<got, unread>>
    BY <1>1, <2>4 DEF Readers, ReaderStates, Working
  <2> QED
    BY <2>1, <2>2, <2>3, <2>4 DEF Read
<1>4. /\ unread' \in [Fds -> Seq(Procs)] /\ got' \in [Fds -> Seq(Procs)]
      /\ \A t \in Fds \ {s} : unread'[t] = unread[t] /\ got'[t] = got[t]
      /\ got'[s] \o unread'[s] = got[s] \o unread[s]
  <2>1. got[s] \in Seq(Procs) /\ unread[s] \in Seq(Procs)
    BY <1>1
  <2>2. CASE /\ unread[s] # <<>>
             /\ got' = [got EXCEPT ![s] = Append(@, Head(unread[s]))]
             /\ unread' = [unread EXCEPT ![s] = Tail(@)]
    <3>1. /\ Append(got[s], Head(unread[s])) \in Seq(Procs) /\ Tail(unread[s]) \in Seq(Procs)
          /\ Append(got[s], Head(unread[s])) \o Tail(unread[s]) = got[s] \o unread[s]
      BY <2>1, <2>2, MoveFirst
    <3> QED
      BY <1>1, <2>2, <3>1
  <2>3. CASE UNCHANGED <<got, unread>>
    BY <1>1, <2>3
  <2> QED
    BY <1>3, <2>2, <2>3
<1>5. StreamOK(s)'
  <2>1. HandedOver(s)'
    BY <1>1, <1>2, <1>3 DEF StreamOK, HandedOver
  <2>2. s \notin partial /\ worker[s] \in {"none", "launched"} => wrote[s] = got'[s] \o unread'[s]
    BY <1>1, <1>4 DEF StreamOK, StreamWhole
  <2>3. ChildRead(s)' => exited /\ From("child", got'[s]) = From("child", wrote[s])
    <3> SUFFICES ASSUME ChildRead(s)'
                 PROVE  exited /\ From("child", got'[s]) = From("child", wrote[s])
      OBVIOUS
    <3>1. q.st = "dry" /\ q.saw /\ q.handoff = "none"
      BY <1>2, <1>3 DEF ChildRead
    <3>2. unread[s] = <<>> /\ got'[s] = got[s] /\ r.saw /\ r.handoff = "none"
      BY <1>3, <3>1
    <3>3. wrote[s] = got[s] \o unread[s] /\ exited
      BY <1>1, <3>2 DEF StreamOK, StreamWhole, HandedOver
    <3>4. got[s] \in Seq(Procs) /\ got[s] \o <<>> = got[s]
      BY <1>1
    <3> QED
      BY <3>2, <3>3, <3>4
  <2>4. q.st = "eof" => unread'[s] = <<>> /\ ~Open'
    BY <1>1, <1>3 DEF Open
  <2>5. q.saw => exited'
    BY <1>1, <1>3 DEF StreamOK, StreamWhole
  <2> QED
    BY <1>1, <2>1, <2>2, <2>3, <2>4, <2>5 DEF StreamOK, StreamWhole
<1>6. /\ HeldBy(s) = 1 /\ HeldBy(s)' = IF q.st \in {"eof", "error"} THEN 0 ELSE 1
      /\ DrainedBy(s)' = 0 /\ DrainedBy(s) = 0
  BY <1>1, <1>2, <1>3 DEF HeldBy, DrainedBy, Working
<1>7. slots' \in Int /\ slots' + HeldBy(s) + DrainedBy(s) = slots + HeldBy(s)' + DrainedBy(s)'
  BY <1>1, <1>3, <1>6
<1>8. worker' \in [Fds -> {"none", "launched", "draining", "dead"}]
  BY <1>1 DEF CaptureInv, StateOK
<1> HIDE DEF r, q
<1>9. reader[s].st = "read" /\ reader'[s].st \in {"look", "error", "eof", "dry"}
  BY <1>1, <1>3 DEF r, q
<1> QED
  BY <1>1, <1>3, <1>4, <1>5, <1>7, <1>8, <1>9, OneStream

\* A reader that found nothing hands the pipe over if it knew of the exit before it
\* read, and looks again otherwise.
LEMMA DryKeeps == ASSUME CaptureInv, NEW s \in Fds, Dry(s) PROVE CaptureInv'
<1> DEFINE r == reader[s]
           q == reader'[s]
<1>1. /\ UNCHANGED <<plan, setup, phase, proc, exited, unread, got, partial, others, slots, wrote>>
      /\ r.st = "dry" /\ r \in Readers /\ reader \in [Fds -> Readers]
      /\ worker \in [Fds -> {"none", "launched", "draining", "dead"}] /\ StreamOK(s)
  BY DEF Dry, CaptureInv, StateOK
<1>2. /\ q \in Readers /\ q.saw = r.saw
      /\ \A t \in Fds \ {s} : reader'[t] = reader[t] /\ worker'[t] = worker[t]
      /\ \/ q.st \in {"look", "read"} /\ q.handoff = r.handoff /\ worker'[s] = worker[s]
         \/ /\ q.st = "ack" /\ q.handoff = "none" /\ r.handoff = "none" /\ r.saw
            /\ worker'[s] = "launched"
         \/ q.st = "read" /\ q.handoff = "Unavailable" /\ r.handoff = "none" /\ worker'[s] = worker[s]
      /\ reader' \in [Fds -> Readers]
      /\ worker' \in [Fds -> {"none", "launched", "draining", "dead"}]
  <2>1. CASE reader' = [reader EXCEPT ![s].st = "look"] /\ UNCHANGED worker
    BY <1>1, <2>1 DEF Readers, ReaderStates, Working
  <2>2. CASE reader' = [reader EXCEPT ![s].st = "read"] /\ LaunchWorker(s)
    BY <1>1, <2>2 DEF Readers, ReaderStates, Working, LaunchWorker
  <2>3. CASE /\ r.handoff = "none" /\ r.saw /\ LaunchWorker(s)
             /\ reader' = [reader EXCEPT ![s].st = "ack", ![s].idle = TRUE]
    BY <1>1, <2>3 DEF Readers, ReaderStates, Working, LaunchWorker
  <2>4. CASE /\ r.handoff = "none" /\ LaunchWorker(s)
             /\ reader' = [reader EXCEPT ![s].st = "read", ![s].handoff = "Unavailable"]
    BY <1>1, <2>4 DEF Readers, ReaderStates, Working, LaunchWorker
  <2> QED
    BY <2>1, <2>2, <2>3, <2>4 DEF Dry, Detach, Sampled
<1>3. worker[s] \in {"none", "dead"} /\ r.handoff # "Transferred"
  BY <1>1 DEF StreamOK, HandedOver, Readers
<1>4. StreamOK(s)'
  <2>1. HandedOver(s)'
    BY <1>1, <1>2, <1>3 DEF StreamOK, HandedOver
  <2>2. ChildRead(s)' => ChildRead(s)
    BY <1>1, <1>2, <1>3 DEF ChildRead
  <2>3. s \notin partial /\ worker'[s] \in {"none", "launched"} => wrote[s] = got[s] \o unread[s]
    BY <1>1, <1>2 DEF StreamOK, StreamWhole, HandedOver
  <2>4. q.saw => exited'
    BY <1>1, <1>2 DEF StreamOK, StreamWhole
  <2>5. ChildRead(s) => exited /\ From("child", got[s]) = From("child", wrote[s])
    BY <1>1 DEF StreamOK, StreamWhole
  <2>6. q.st # "eof"
    BY <1>2
  <2> QED
    BY <1>1, <2>1, <2>2, <2>3, <2>4, <2>5, <2>6 DEF StreamOK, StreamWhole
<1>5. HeldBy(s)' = 1 /\ HeldBy(s) = 1 /\ DrainedBy(s)' = 0 /\ DrainedBy(s) = 0
  BY <1>1, <1>2, <1>3 DEF HeldBy, DrainedBy, Working
<1>6. slots' \in Int /\ slots' + HeldBy(s) + DrainedBy(s) = slots + HeldBy(s)' + DrainedBy(s)'
  BY <1>1, <1>5 DEF CaptureInv, StateOK
<1>7. unread' \in [Fds -> Seq(Procs)] /\ got' \in [Fds -> Seq(Procs)]
  BY <1>1 DEF CaptureInv, StateOK
<1> QED
  BY <1>1, <1>2, <1>4, <1>6, <1>7, OneStream

\* The hand-over is acknowledged, and the slot goes to the worker; or it is not,
\* and the reader goes on with a capture that is marked.
LEMMA AckKeeps ==
  ASSUME CaptureInv, NEW s \in Fds, Transfer(s) \/ Ambiguous(s)
  PROVE  CaptureInv'
<1> DEFINE r == reader[s]
           q == reader'[s]
<1>1. /\ UNCHANGED <<plan, setup, phase, proc, exited, unread, got, others, slots, wrote>>
      /\ r.st = "ack" /\ r \in Readers /\ reader \in [Fds -> Readers]
      /\ worker \in [Fds -> {"none", "launched", "draining", "dead"}] /\ StreamOK(s)
      /\ partial' = partial \cup {s}
  BY DEF Transfer, Ambiguous, CaptureInv, StateOK
<1>2. /\ q \in Readers /\ q.saw = r.saw /\ q.idle = r.idle
      /\ \A t \in Fds \ {s} : reader'[t] = reader[t] /\ worker'[t] = worker[t]
      /\ \/ /\ q.st = "eof" /\ q.handoff = "Transferred"
            /\ worker[s] = "draining" /\ worker'[s] = "draining"
         \/ q.st = "read" /\ q.handoff = "Ambiguous" /\ worker'[s] = "dead"
      /\ reader' \in [Fds -> Readers]
      /\ worker' \in [Fds -> {"none", "launched", "draining", "dead"}]
  <2>1. CASE Transfer(s)
    BY <1>1, <2>1 DEF Transfer, Readers, ReaderStates, Working
  <2>2. CASE Ambiguous(s)
    BY <1>1, <2>2 DEF Ambiguous, Readers, ReaderStates, Working
  <2> QED
    BY <2>1, <2>2
<1>3. r.handoff = "none"
  BY <1>1 DEF StreamOK, HandedOver
<1>4. StreamOK(s)'
  <2>1. HandedOver(s)'
    BY <1>1, <1>2 DEF HandedOver
  <2>2. ChildRead(s)' => ChildRead(s)
    BY <1>1, <1>2 DEF ChildRead
  <2>3. ChildRead(s) => exited /\ From("child", got[s]) = From("child", wrote[s])
    BY <1>1 DEF StreamOK, StreamWhole
  <2>4. q.saw => exited'
    BY <1>1, <1>2 DEF StreamOK, StreamWhole
  <2>5. s \in partial' /\ (q.st = "eof" => worker'[s] = "draining")
    BY <1>1, <1>2
  <2> QED
    BY <1>1, <2>1, <2>2, <2>3, <2>4, <2>5 DEF StreamOK, StreamWhole
<1>5. HeldBy(s)' + DrainedBy(s)' = 1 /\ HeldBy(s) = 1 /\ DrainedBy(s) = 0
      /\ HeldBy(s)' \in Int /\ DrainedBy(s)' \in Int
  BY <1>1, <1>2, <1>3 DEF HeldBy, DrainedBy, Working
<1>6. slots' \in Int /\ slots' + HeldBy(s) + DrainedBy(s) = slots + HeldBy(s)' + DrainedBy(s)'
  BY <1>1, <1>5 DEF CaptureInv, StateOK
<1>7. unread' \in [Fds -> Seq(Procs)] /\ got' \in [Fds -> Seq(Procs)]
  BY <1>1 DEF CaptureInv, StateOK
<1> QED
  BY <1>1, <1>2, <1>4, <1>6, <1>7, OneStream

\* A worker starts, discards what comes after the hand-over, and ends with the last
\* writer.
LEMMA WorkerKeeps ==
  ASSUME CaptureInv, NEW s \in Fds, WorkerReady(s) \/ WorkerDiscards(s) \/ ReapWorker(s)
  PROVE  CaptureInv'
<1> DEFINE r == reader[s]
<1>1. /\ UNCHANGED <<plan, setup, phase, proc, exited, reader, got, partial, others, wrote>>
      /\ r \in Readers /\ reader \in [Fds -> Readers] /\ slots \in Int
      /\ unread \in [Fds -> Seq(Procs)] /\ got \in [Fds -> Seq(Procs)]
      /\ worker \in [Fds -> {"none", "launched", "draining", "dead"}] /\ StreamOK(s)
  BY DEF WorkerReady, WorkerDiscards, ReapWorker, CaptureInv, StateOK
<1>2. /\ \A t \in Fds \ {s} : unread'[t] = unread[t] /\ worker'[t] = worker[t]
      /\ worker' \in [Fds -> {"none", "launched", "draining", "dead"}]
      /\ \/ worker[s] = "launched" /\ worker'[s] = "draining" /\ slots' = slots
         \/ worker[s] = "draining" /\ worker'[s] = "draining" /\ slots' = slots
         \/ /\ worker[s] = "draining" /\ worker'[s] = "dead" /\ r.handoff = "Transferred"
            /\ ~Open /\ slots' = slots - 1
  <2>1. CASE WorkerReady(s)
    BY <1>1, <2>1 DEF WorkerReady
  <2>2. CASE WorkerDiscards(s)
    BY <1>1, <2>2 DEF WorkerDiscards
  <2>3. CASE ReapWorker(s)
    BY <1>1, <2>3 DEF ReapWorker
  <2> QED
    BY <2>1, <2>2, <2>3
<1>3. unread' \in [Fds -> Seq(Procs)] /\ got' \in [Fds -> Seq(Procs)]
  <2>1. CASE WorkerDiscards(s)
    <3>1. Tail(unread[s]) \in Seq(Procs)
      BY <1>1, <2>1 DEF WorkerDiscards
    <3> QED
      BY <1>1, <2>1, <3>1 DEF WorkerDiscards
  <2>2. CASE UNCHANGED unread
    BY <1>1, <2>2
  <2> QED
    BY <2>1, <2>2 DEF WorkerReady, WorkerDiscards, ReapWorker
<1>4. \/ r.st = "ack" /\ s \notin partial /\ r.handoff = "none"
      \/ r.handoff = "Transferred" /\ r.st = "eof" /\ s \in partial /\ worker[s] = "draining"
  BY <1>1, <1>2 DEF StreamOK, HandedOver, Readers
<1>5. StreamOK(s)'
  <2>1. HandedOver(s)'
    BY <1>1, <1>2, <1>4 DEF StreamOK, HandedOver
  <2>2. ChildRead(s)' => ChildRead(s)
    BY <1>1 DEF ChildRead
  <2>3. ChildRead(s) => exited /\ From("child", got[s]) = From("child", wrote[s])
    BY <1>1 DEF StreamOK, StreamWhole
  <2>4. Open' = Open
    BY <1>1 DEF Open
  <2>5. (r.st = "eof" => s \in partial) /\ (r.st = "eof" /\ Open => worker'[s] = "draining")
    BY <1>1, <1>2, <1>4
  <2>6. worker'[s] \notin {"none", "launched"} /\ (r.saw => exited)
    BY <1>1, <1>2 DEF StreamOK, StreamWhole
  <2> QED
    BY <1>1, <2>1, <2>2, <2>3, <2>4, <2>5, <2>6 DEF StreamOK, StreamWhole
<1>6. HeldBy(s)' = HeldBy(s) /\ HeldBy(s) \in Int
      /\ DrainedBy(s) \in Int /\ DrainedBy(s)' \in Int
      /\ slots' - slots = DrainedBy(s)' - DrainedBy(s)
  BY <1>1, <1>2, <1>4 DEF HeldBy, DrainedBy
<1>7. slots' \in Int /\ slots' + HeldBy(s) + DrainedBy(s) = slots + HeldBy(s)' + DrainedBy(s)'
  BY <1>1, <1>2, <1>6, SMTT(30)
<1> QED
  BY <1>1, <1>2, <1>3, <1>5, <1>7, OneStream

-----------------------------------------------------------------------------
(* The shell joins.                                                        *)

\* A thread is joined once it has ended, and the outcome is good only if both
\* streams were captured.
LEMMA JoinKeeps == ASSUME CaptureInv, Join \/ AbortJoin PROVE CaptureInv'
<1>1. UNCHANGED <<plan, setup, proc, exited, unread, reader, got, partial, worker, others, slots, wrote>>
  BY DEF Join, AbortJoin
<1>2. StateOK' /\ SlotsOK'
  BY <1>1 DEF CaptureInv, StateOK, SlotsOK, HeldBy, DrainedBy
<1>3. \A t \in Fds : StreamOK(t)'
  <2>1. Open' = Open
    BY <1>1 DEF Open
  <2> QED
    BY <1>1, <2>1, StreamStays DEF CaptureInv
<1>4. Captured' = Captured /\ \A t : Started(t)' = Started(t) /\ Ended(t)' = Ended(t)
  BY <1>1 DEF Captured, Started, Ended
<1>5. PhaseOK'
  <2>1. CASE phase = "out" /\ Ended("out") /\ phase' = "err"
    BY <1>1, <1>4, <2>1 DEF CaptureInv, PhaseOK
  <2>2. CASE phase = "err" /\ Ended("err") /\ phase' = "stdin"
    BY <1>1, <1>4, <2>2 DEF CaptureInv, PhaseOK
  <2>3. CASE phase = "stdin" /\ phase' = "done" /\ \A t \in Captured : reader[t].st # "error"
    BY <1>1, <1>4, <2>3 DEF CaptureInv, PhaseOK
  <2>4. CASE phase' = "failed"
    BY <2>4 DEF PhaseOK
  <2> QED
    BY <2>1, <2>2, <2>3, <2>4 DEF Join, AbortJoin
<1> QED
  BY <1>2, <1>3, <1>5 DEF CaptureInv

\* Every step keeps the invariant.
LEMMA CaptureNextInv == CaptureInv /\ [CaptureNext]_captureVars => CaptureInv'
<1> SUFFICES ASSUME CaptureInv, [CaptureNext]_captureVars PROVE CaptureInv'
  OBVIOUS
<1>1. CASE UNCHANGED captureVars
  <2>1. UNCHANGED <<plan, setup, phase, proc, exited, unread, reader, got, partial, worker,
                    others, slots, wrote>>
    BY <1>1 DEF captureVars
  <2>2. PhaseOK' /\ SlotsOK'
    BY <2>1, ReadersStay
  <2>3. StateOK'
    BY <2>1 DEF CaptureInv, StateOK
  <2>4. Open' = Open
    BY <2>1 DEF Open
  <2>5. \A t \in Fds : StreamOK(t)'
    BY <2>1, <2>4, StreamStays DEF CaptureInv
  <2> QED
    BY <2>2, <2>3, <2>5 DEF CaptureInv
<1>2. ASSUME NEW w \in Procs, NEW s \in Fds, Write(w, s) PROVE CaptureInv'
  BY <1>2, WriteKeeps
<1>3. CASE Fork \/ (\E w \in Procs : Exit(w)) \/ InputTaken \/ WaitChild
  BY <1>3, ProcessesKeep
<1>4. CASE OtherCapture
  BY <1>4, OthersKeep
<1>5. CASE StartInput
  BY <1>5, StartInputKeeps
<1>6. ASSUME NEW s \in Fds, Admit(s) \/ StartReader(s) PROVE CaptureInv'
  BY <1>6, AdmitKeeps, StartReaderKeeps
<1>7. CASE Join \/ AbortJoin
  BY <1>7, JoinKeeps
<1>8. ASSUME NEW s \in Fds, Look(s) \/ Read(s) \/ Dry(s) PROVE CaptureInv'
  BY <1>8, LookKeeps, ReadKeeps, DryKeeps
<1>9. ASSUME NEW s \in Fds, Transfer(s) \/ Ambiguous(s) PROVE CaptureInv'
  BY <1>9, AckKeeps
<1>10. ASSUME NEW s \in Fds, WorkerReady(s) \/ WorkerDiscards(s) \/ ReapWorker(s) PROVE CaptureInv'
  BY <1>10, WorkerKeeps
<1> QED
  BY <1>1, <1>2, <1>3, <1>4, <1>5, <1>6, <1>7, <1>8, <1>9, <1>10 DEF CaptureNext, ShellSteps

\* What the invariant says of a capture whose threads are joined.
LEMMA CaptureInvTruthful == CaptureInv => CommandTruthful /\ LiveWriterHasReader
<1> SUFFICES ASSUME CaptureInv PROVE CommandTruthful /\ LiveWriterHasReader
  OBVIOUS
<1>1. ASSUME phase = "done", NEW s \in Captured
      PROVE  reader[s].st = "eof" /\ s \in Fds /\ StreamOK(s)
  <2>1. s \in Fds /\ Ended(s) /\ Started(s) /\ reader[s].st # "error"
    BY <1>1 DEF CaptureInv, PhaseOK, Captured, Fds
  <2> QED
    BY <2>1 DEF Ended, Started, CaptureInv
<1>2. CommandTruthful
  <2> SUFFICES ASSUME phase = "done", NEW s \in Captured
               PROVE  /\ s \notin partial => got[s] = wrote[s] /\ ~Open
                      /\ SpoolStatus(s) = "Complete" => stored[s] = Len(wrote[s])
                      /\ reader[s].handoff = "Transferred" /\ reader[s].idle
                           => From("child", got[s]) = From("child", wrote[s])
    BY DEF CommandTruthful
  <2>1. s \notin partial => got[s] = wrote[s] /\ ~Open
    <3> SUFFICES ASSUME s \notin partial PROVE got[s] = wrote[s] /\ ~Open
      OBVIOUS
    <3>1. unread[s] = <<>> /\ ~Open
      BY <1>1 DEF StreamOK, StreamWhole
    <3>2. worker[s] = "none"
      <4>1. reader[s] \in Readers
        BY <1>1 DEF CaptureInv, StateOK
      <4> QED
        BY <1>1, <4>1 DEF StreamOK, HandedOver, Readers
    <3>3. wrote[s] = got[s] \o unread[s]
      BY <1>1, <3>2 DEF StreamOK, StreamWhole
    <3>4. got[s] \in Seq(Procs) /\ got[s] \o <<>> = got[s]
      BY <1>1 DEF CaptureInv, StateOK
    <3> QED
      BY <3>1, <3>3, <3>4
  <2>2. SpoolStatus(s) = "Complete" => stored[s] = Len(wrote[s])
    BY <2>1 DEF SpoolStatus
  <2>3. reader[s].handoff = "Transferred" /\ reader[s].idle
          => From("child", got[s]) = From("child", wrote[s])
    BY <1>1 DEF StreamOK, StreamWhole, ChildRead
  <2> QED
    BY <2>1, <2>2, <2>3
<1>3. phase = "done" /\ proc["heir"] = "live" => \A s \in Captured : HasReader(s)
  <2>1. proc["heir"] = "live" => Open
    BY DEF Open, Procs
  <2> QED
    BY <1>1, <2>1 DEF StreamOK, StreamWhole, HasReader
<1>4. slots = others
       + Cardinality({s \in Fds : reader[s].st \in {"held", "look", "read", "dry", "ack"}})
       + Cardinality({s \in Fds : reader[s].handoff = "Transferred" /\ worker[s] # "dead"})
  <2> DEFINE H == {s \in Fds : reader[s].st \in {"held", "look", "read", "dry", "ack"}}
             D == {s \in Fds : reader[s].handoff = "Transferred" /\ worker[s] # "dead"}
  <2>1. Cardinality(H) = HeldBy("out") + HeldBy("err")
    <3>1. H \in SUBSET Fds /\ ("out" \in H <=> reader["out"].st \in Working)
          /\ ("err" \in H <=> reader["err"].st \in Working)
      BY DEF Fds, Working
    <3> HIDE DEF H
    <3> QED
      BY <3>1, CountStreams DEF HeldBy
  <2>2. Cardinality(D) = DrainedBy("out") + DrainedBy("err")
    <3>1. D \in SUBSET Fds
          /\ ("out" \in D <=> reader["out"].handoff = "Transferred" /\ worker["out"] # "dead")
          /\ ("err" \in D <=> reader["err"].handoff = "Transferred" /\ worker["err"] # "dead")
      BY DEF Fds
    <3> HIDE DEF D
    <3> QED
      BY <3>1, CountStreams DEF DrainedBy
  <2>3. /\ HeldBy("out") \in Int /\ HeldBy("err") \in Int
        /\ DrainedBy("out") \in Int /\ DrainedBy("err") \in Int /\ others \in Int
    BY DEF HeldBy, DrainedBy, CaptureInv, StateOK
  <2>4. slots = others + HeldBy("out") + HeldBy("err") + DrainedBy("out") + DrainedBy("err")
    BY DEF CaptureInv, SlotsOK
  <2> HIDE DEF H, D
  <2>5. slots = others + Cardinality(H) + Cardinality(D)
    BY <2>1, <2>2, <2>3, <2>4
  <2> QED
    BY <2>5 DEF H, D
<1> QED
  BY <1>2, <1>3, <1>4 DEF LiveWriterHasReader

-----------------------------------------------------------------------------
(* git, run by the agent commands.                                         *)

GitReaders == [pc : {"none", "load", "read", "done"}, saw : BOOLEAN, final : BOOLEAN, post : Nat,
               late : BOOLEAN, res : {"none", "complete", "incomplete", "error"}]

GitStateOK ==
  /\ alive \subseteq GitWriters /\ holds \in [GitStreams -> SUBSET GitWriters]
  /\ written \in [GitStreams -> Nat] /\ output \in [GitStreams -> Nat]
  /\ gitReader \in [GitStreams -> GitReaders] /\ gitExited \in BOOLEAN

\* As long as git runs it has both pipes, so a pipe nobody has is never opened
\* again; and a reader that ended with the stream has all of it.
GitStreamOK(s) ==
  /\ "git" \in alive => "git" \in holds[s]
  /\ output[s] <= GitLimit
  /\ gitReader[s].res = "complete" =>
       gitReader[s].pc = "done" /\ output[s] = written[s] /\ holds[s] = {}

\* What the caller has done before it joins the readers, and before it answers;
\* a reader ends with an error only after it has told the others to stop.
CallerOK ==
  /\ child # "runs" => "git" \notin alive
  /\ caller = "startOut" => gitReader["out"].pc = "none"
  /\ caller \in {"startOut", "startErr"} => gitReader["err"].pc = "none"
  /\ caller \in {"joinOut", "joinErr", "done"} =>
       child = "gone" \/ (child = "reaped" /\ alive \subseteq {"escaped"})
  /\ \A s \in GitStreams : gitReader[s].res = "error" => abort
  /\ caller \in {"startOut", "startErr", "watch", "kill"} => gitFailed = "none"
  /\ caller = "joinOut" /\ gitFailed = "start" => abort
  /\ caller = "joinErr" => gitReader["out"].pc = "done"
  /\ caller = "done" => /\ result \in {"ok", "error"}
                        /\ \A s \in GitStreams : gitReader[s].pc \in {"none", "done"} \/ abort
  /\ result = "ok" => /\ caller = "done" /\ child = "reaped"
                      /\ \A s \in GitStreams : gitReader[s].res = "complete"

GitInv == GitStateOK /\ (\A s \in GitStreams : GitStreamOK(s)) /\ CallerOK

\* git has just been started.
LEMMA GitInitInv == GitInit => GitInv
<1> SUFFICES ASSUME GitInit PROVE GitInv
  OBVIOUS
<1> DEFINE idle == [pc |-> "none", saw |-> FALSE, final |-> FALSE, post |-> 0, late |-> FALSE, res |-> "none"]
<1>1. idle \in GitReaders /\ idle.res = "none"
  BY DEF GitReaders
<1>2. gitReader = [s \in GitStreams |-> idle]
  BY DEF GitInit, ReaderAt
<1> HIDE DEF idle
<1>3. GitStateOK
  BY <1>1, <1>2 DEF GitInit, ReaderAt, GitStateOK, GitWriters
<1>4. \A s \in GitStreams : GitStreamOK(s)
  BY <1>1, <1>2, GitAssumption DEF GitInit, ReaderAt, GitStreamOK
<1>5. CallerOK
  <2>1. "out" \in GitStreams /\ "err" \in GitStreams /\ idle.pc = "none"
    BY DEF GitStreams, idle
  <2> QED
    BY <1>1, <1>2, <2>1 DEF GitInit, ReaderAt, CallerOK
<1> QED
  BY <1>3, <1>4, <1>5 DEF GitInv

\* Writers are started by git only, write to pipes they have, and end.
LEMMA GitProcessesKeep ==
  ASSUME GitInv,
         \/ \E w \in {"helper", "escaped"} : Starts(w)
         \/ \E w \in GitWriters, s \in GitStreams : Writes(w, s)
         \/ \E c \in {0, 1} : GitExits(c)
         \/ TakenElsewhere
  PROVE  GitInv'
<1>1. UNCHANGED <<output, gitReader, gitExited, abort, gitFailed, caller, result>>
  BY DEF Starts, Writes, GitExits, Remove, TakenElsewhere
<1>2. ASSUME NEW w \in {"helper", "escaped"}, Starts(w) PROVE GitInv'
  <2>1. PICK kept \in SUBSET GitStreams :
          /\ "git" \in alive /\ alive' = alive \cup {w} /\ UNCHANGED <<written, child>>
          /\ holds' = [s \in GitStreams |-> IF s \in kept THEN holds[s] \cup {w} ELSE holds[s]]
    BY <1>2 DEF Starts
  <2>2. GitStateOK'
    BY <1>1, <2>1 DEF GitInv, GitStateOK, GitWriters
  <2>3. \A s \in GitStreams : holds[s] # {} /\ ("git" \in holds'[s])
    BY <2>1 DEF GitInv, GitStreamOK
  <2>4. \A s \in GitStreams : GitStreamOK(s)'
    BY <1>1, <2>1, <2>3 DEF GitInv, GitStreamOK
  <2>5. CallerOK'
    <3>1. child = "runs" /\ caller \notin {"joinOut", "joinErr", "done"}
      BY <2>1 DEF GitInv, CallerOK
    <3> QED
      BY <1>1, <2>1, <3>1 DEF GitInv, CallerOK
  <2> QED
    BY <2>2, <2>4, <2>5 DEF GitInv
<1>3. ASSUME NEW w \in GitWriters, NEW s \in GitStreams, Writes(w, s) PROVE GitInv'
  <2>1. /\ w \in holds[s] /\ written' = [written EXCEPT ![s] = @ + 1]
        /\ UNCHANGED <<alive, holds, child>>
    BY <1>3 DEF Writes
  <2>2. GitStateOK'
    BY <1>1, <2>1 DEF GitInv, GitStateOK
  <2>3. \A t \in GitStreams : GitStreamOK(t)'
    <3>1. gitReader[s].res # "complete" /\ \A t \in GitStreams \ {s} : written'[t] = written[t]
      BY <2>1 DEF GitInv, GitStreamOK, GitStateOK
    <3> QED
      BY <1>1, <2>1, <3>1 DEF GitInv, GitStreamOK
  <2>4. CallerOK'
    BY <1>1, <2>1 DEF GitInv, CallerOK
  <2> QED
    BY <2>2, <2>3, <2>4 DEF GitInv
<1>4. ASSUME NEW c \in {0, 1}, GitExits(c) PROVE GitInv'
  <2>1. /\ child = "runs" /\ alive' = alive \ {"git"} /\ UNCHANGED written
        /\ holds' = [s \in GitStreams |-> holds[s] \ {"git"}]
    BY <1>4 DEF GitExits, Remove
  <2>2. GitStateOK'
    BY <1>1, <2>1 DEF GitInv, GitStateOK
  <2>3. \A s \in GitStreams : GitStreamOK(s)'
    BY <1>1, <2>1 DEF GitInv, GitStreamOK
  <2>4. CallerOK'
    BY <1>1, <2>1 DEF GitInv, CallerOK
  <2> QED
    BY <2>2, <2>3, <2>4 DEF GitInv
<1>5. CASE TakenElsewhere
  <2>1. child = "zombie" /\ child' = "gone" /\ UNCHANGED <<alive, holds, written>>
    BY <1>5 DEF TakenElsewhere
  <2>2. GitStateOK' /\ \A s \in GitStreams : GitStreamOK(s)'
    BY <1>1, <2>1 DEF GitInv, GitStateOK, GitStreamOK
  <2>3. CallerOK'
    BY <1>1, <2>1 DEF GitInv, CallerOK
  <2> QED
    BY <2>2, <2>3 DEF GitInv
<1> QED
  BY <1>2, <1>3, <1>4, <1>5

\* A reader says "complete" only at the end of its stream, and collects no more
\* than the limit.
LEMMA GitReaderKeeps ==
  ASSUME GitInv, NEW s \in GitStreams, GitReaderSteps(s) \/ ReaderFails(s) \/ TimePasses(s)
  PROVE  GitInv'
<1> DEFINE r == gitReader[s]
           q == gitReader'[s]
<1>1. /\ UNCHANGED <<alive, holds, written, child, gitExited, gitFailed, caller, result>>
      /\ r \in GitReaders /\ gitReader \in [GitStreams -> GitReaders] /\ gitExited \in BOOLEAN
      /\ written[s] \in Nat /\ output[s] \in Nat /\ output \in [GitStreams -> Nat]
  BY DEF GitReaderSteps, ReaderLoads, ReaderReads, ReaderEof, ReaderWaits, ReaderFails,
     TimePasses, GitInv, GitStateOK
<1>2. /\ gitReader' \in [GitStreams -> GitReaders]
      /\ \A t \in GitStreams \ {s} : gitReader'[t] = gitReader[t] /\ output'[t] = output[t]
      /\ output' \in [GitStreams -> Nat] /\ (output[s] <= GitLimit => output'[s] <= GitLimit)
      /\ \/ r.pc = "done" /\ q.pc = "done" /\ q.res = r.res /\ output'[s] = output[s]
         \/ r.pc # "done" /\ q.res # "complete"
         \/ r.pc # "done" /\ q.res = r.res
         \/ r.pc # "done" /\ q.pc = "done" /\ output'[s] = written[s] /\ holds[s] = {}
      /\ r.pc = "none" => q.pc = "none"
      /\ q.res = "error" => r.res = "error" \/ abort'
      /\ abort => abort'
  <2>1. CASE ReaderLoads(s)
    <3>1. CASE Ends(s, "incomplete") /\ UNCHANGED <<output, abort>>
      BY <1>1, <2>1, <3>1 DEF ReaderLoads, Ends, ReaderAt, GitReaders
    <3>2. CASE /\ gitReader' = [gitReader EXCEPT ![s].pc = "read", ![s].saw = gitExited]
               /\ UNCHANGED <<output, abort>>
      <4>1. gitReader' = [gitReader EXCEPT ![s] = [r EXCEPT !.pc = "read", !.saw = gitExited]]
        BY <1>1, <3>2 DEF GitReaders
      <4>2. [r EXCEPT !.pc = "read", !.saw = gitExited] \in GitReaders
        BY <1>1 DEF GitReaders
      <4>3. /\ gitReader' \in [GitStreams -> GitReaders] /\ q.res = r.res /\ r.pc = "load"
            /\ \A t \in GitStreams \ {s} : gitReader'[t] = gitReader[t]
        BY <1>1, <2>1, <4>1, <4>2 DEF ReaderLoads, GitReaders
      <4> QED
        BY <1>1, <3>2, <4>3
    <3> QED
      BY <2>1, <3>1, <3>2 DEF ReaderLoads
  <2>2. CASE ReaderReads(s)
    <3> DEFINE n == IF Pending(s) < Chunk THEN Pending(s) ELSE Chunk
    <3>1. Pending(s) \in Int /\ n \in Int /\ r.pc = "read" /\ n > 0
      BY <1>1, <2>2, GitAssumption DEF ReaderReads, Pending
    <3>2. CASE n <= GitLimit - output[s]
      <4> HIDE DEF n
      <4>1. /\ output' = [output EXCEPT ![s] = @ + n]
            /\ \E m \in {n, 0} :
                 gitReader' = [gitReader EXCEPT ![s].pc = "load", ![s].final = FALSE, ![s].post = @ + m]
        <5>1. CASE r.saw
          BY <1>1, <2>2, <3>2, <5>1 DEF ReaderReads, n
        <5>2. CASE ~r.saw
          <6>1. r.post \in Nat /\ r.post = r.post + 0
            BY <1>1 DEF GitReaders
          <6> QED
            BY <1>1, <2>2, <3>2, <5>2, <6>1 DEF ReaderReads, n
        <5> QED
          BY <5>1, <5>2
      <4>2. output[s] + n \in Nat /\ output[s] + n <= GitLimit
        BY <1>1, <3>1, <3>2, GitAssumption
      <4>3. PICK m \in {n, 0} :
              gitReader' = [gitReader EXCEPT ![s].pc = "load", ![s].final = FALSE, ![s].post = @ + m]
        BY <4>1
      <4>4. r.post + m \in Nat
        BY <1>1, <3>1 DEF GitReaders
      <4>5. gitReader' = [gitReader EXCEPT ![s] = [r EXCEPT !.pc = "load", !.final = FALSE,
                                                            !.post = r.post + m]]
        BY <1>1, <4>3 DEF GitReaders
      <4>6. [r EXCEPT !.pc = "load", !.final = FALSE, !.post = r.post + m] \in GitReaders
        BY <1>1, <4>4 DEF GitReaders
      <4>7. /\ gitReader' \in [GitStreams -> GitReaders] /\ q.res = r.res
            /\ \A t \in GitStreams \ {s} : gitReader'[t] = gitReader[t]
        BY <1>1, <4>5, <4>6 DEF GitReaders
      <4>8. /\ output' \in [GitStreams -> Nat] /\ output'[s] <= GitLimit
            /\ \A t \in GitStreams \ {s} : output'[t] = output[t]
        BY <1>1, <4>1, <4>2
      <4>9. UNCHANGED abort
        BY <2>2, <3>2 DEF ReaderReads, n
      <4> QED
        BY <3>1, <4>7, <4>8, <4>9
    <3>3. CASE ~(n <= GitLimit - output[s])
      <4>1. Ends(s, "error") /\ UNCHANGED output /\ abort'
        BY <2>2, <3>3 DEF ReaderReads
      <4> QED
        BY <1>1, <3>1, <4>1 DEF Ends, ReaderAt, GitReaders
    <3> QED
      BY <3>2, <3>3
  <2>3. CASE ReaderEof(s)
    <3>1. output[s] = written[s]
      BY <1>1, <2>3 DEF ReaderEof, Pending
    <3> QED
      BY <1>1, <2>3, <3>1 DEF ReaderEof, Ends, ReaderAt, GitReaders
  <2>4. CASE ReaderWaits(s)
    <3>1. CASE Ends(s, "incomplete") /\ UNCHANGED output
      BY <1>1, <2>4, <3>1 DEF ReaderWaits, Ends, ReaderAt, GitReaders
    <3>2. CASE /\ gitReader' = [gitReader EXCEPT ![s].pc = "load", ![s].final = r.saw /\ r.late]
               /\ UNCHANGED output
      <4>1. (r.saw /\ r.late) \in BOOLEAN
        BY <1>1 DEF GitReaders
      <4> QED
        BY <1>1, <2>4, <3>2, <4>1 DEF ReaderWaits, GitReaders
    <3> QED
      BY <2>4, <3>1, <3>2 DEF ReaderWaits
  <2>5. CASE TimePasses(s)
    BY <1>1, <2>5 DEF TimePasses, GitReaders
  <2>6. CASE ReaderFails(s)
    BY <1>1, <2>6 DEF ReaderFails, Ends, ReaderAt, GitReaders, GitInv, GitStreamOK
  <2> QED
    BY <2>1, <2>2, <2>3, <2>4, <2>5, <2>6 DEF GitReaderSteps
<1>3. GitStateOK'
  BY <1>1, <1>2 DEF GitInv, GitStateOK
<1>4. \A t \in GitStreams : GitStreamOK(t)'
  <2> TAKE t \in GitStreams
  <2>1. CASE t # s
    BY <1>1, <1>2, <2>1 DEF GitInv, GitStreamOK
  <2>2. CASE t = s
    <3>1. GitStreamOK(s)
      BY DEF GitInv
    <3> QED
      BY <1>1, <1>2, <2>2, <3>1 DEF GitStreamOK
  <2> QED
    BY <2>1, <2>2
<1>5. CallerOK'
  <2>1. GitStreamOK(s)
    BY DEF GitInv
  <2>2. r.pc = "done" => q.pc = "done" /\ (r.res = "complete" => q.res = "complete")
    BY <1>2, <2>1 DEF GitStreamOK
  <2>3. \A t \in GitStreams :
          /\ gitReader[t].pc = "done" => gitReader'[t].pc = "done"
          /\ gitReader[t].pc = "done" /\ gitReader[t].res = "complete" => gitReader'[t].res = "complete"
          /\ gitReader[t].pc = "none" => gitReader'[t].pc = "none"
          /\ gitReader'[t].res = "error" => gitReader[t].res = "error" \/ abort'
    BY <1>2, <2>2
  <2>4. \A t \in GitStreams : gitReader[t].res = "complete" => gitReader[t].pc = "done"
    BY DEF GitInv, GitStreamOK
  <2>5. "out" \in GitStreams /\ "err" \in GitStreams
    BY DEF GitStreams
  <2>6. CallerOK
    BY DEF GitInv
  <2> HIDE DEF GitInv
  <2> QED
    BY <1>1, <1>2, <2>3, <2>4, <2>5, <2>6 DEF CallerOK
<1> QED
  BY <1>3, <1>4, <1>5 DEF GitInv

\* The caller kills the group and reaps the child before it joins, unless the
\* child is gone; it returns unjoined a reader that was told to stop.
LEMMA GitCallerKeeps == ASSUME GitInv, CallerSteps PROVE GitInv'
<1>0. "out" \in GitStreams /\ "err" \in GitStreams /\ \A s \in GitStreams : s \in {"out", "err"}
  BY DEF GitStreams
<1>1. ASSUME KillGroup, UNCHANGED <<written, output, gitExited, gitReader>>
      PROVE  /\ GitStateOK' /\ (\A s \in GitStreams : GitStreamOK(s)')
             /\ child' \in {"reaped", "gone"} /\ alive' \subseteq {"escaped"}
  <2>1. /\ alive' = alive \ {"git", "helper"} /\ child' \in {"reaped", "gone"}
        /\ holds' = [s \in GitStreams |-> holds[s] \ {"git", "helper"}]
    BY <1>1 DEF KillGroup, Remove
  <2>2. GitStateOK' /\ alive' \subseteq {"escaped"}
    BY <1>1, <2>1 DEF GitInv, GitStateOK, GitWriters
  <2>3. \A s \in GitStreams : GitStreamOK(s)'
    BY <1>1, <2>1 DEF GitInv, GitStreamOK
  <2> QED
    BY <2>1, <2>2, <2>3
<1>2. CASE CallerAborts \/ CallerTimesOut \/ CallerKills \/ ErrNotStarted
  <2>1. /\ KillGroup /\ UNCHANGED <<written, output, gitExited, gitReader, result>>
        /\ caller' = "joinOut" /\ caller # "done" /\ (abort => abort')
        /\ ErrNotStarted \/ gitFailed' # "start" \/ (CallerKills /\ UNCHANGED gitFailed)
    BY <1>2 DEF CallerAborts, CallerTimesOut, CallerKills, ErrNotStarted
  <2>2. gitFailed' = "start" => abort'
    BY <1>2, <2>1 DEF ErrNotStarted, GitInv, CallerOK, CallerKills
  <2>3. CallerOK'
    BY <1>1, <2>1, <2>2 DEF GitInv, CallerOK
  <2> QED
    BY <1>1, <2>1, <2>3 DEF GitInv
<1>3. CASE OutNotStarted
  <2>1. /\ KillGroup /\ UNCHANGED <<written, output, gitExited, gitReader, abort>>
        /\ caller = "startOut" /\ caller' = "done" /\ result' = "error"
    BY <1>3 DEF OutNotStarted
  <2>2. \A s \in GitStreams : gitReader[s].pc = "none"
    BY <1>0, <2>1 DEF GitInv, CallerOK
  <2>3. CallerOK'
    BY <1>1, <2>1, <2>2 DEF GitInv, CallerOK
  <2> QED
    BY <1>1, <2>1, <2>3 DEF GitInv
<1>4. CASE CallerWaitFails
  <2>1. /\ UNCHANGED <<written, output, gitExited, gitReader, result>> /\ abort'
        /\ caller = "watch" /\ caller' = "joinOut" /\ gitFailed' = "wait"
    BY <1>4 DEF CallerWaitFails
  <2>2. CASE child = "gone"
    <3>1. UNCHANGED <<alive, holds, child>>
      BY <1>4, <2>2 DEF CallerWaitFails
    <3>2. GitStateOK' /\ \A s \in GitStreams : GitStreamOK(s)'
      BY <2>1, <3>1 DEF GitInv, GitStateOK, GitStreamOK
    <3>3. CallerOK'
      BY <2>1, <2>2, <3>1 DEF GitInv, CallerOK
    <3> QED
      BY <3>2, <3>3 DEF GitInv
  <2>3. CASE child # "gone"
    <3>1. KillGroup
      BY <1>4, <2>3 DEF CallerWaitFails
    <3>2. CallerOK'
      BY <1>1, <2>1, <3>1 DEF GitInv, CallerOK
    <3> QED
      BY <1>1, <2>1, <3>1, <3>2 DEF GitInv
  <2> QED
    BY <2>2, <2>3
<1>5. CASE CallerSeesExit
  <2>1. UNCHANGED <<alive, holds, written, output, child, gitReader, abort, gitFailed, result>>
        /\ gitExited' = TRUE /\ caller = "watch" /\ caller' = "kill"
    BY <1>5 DEF CallerSeesExit
  <2>2. GitStateOK' /\ \A s \in GitStreams : GitStreamOK(s)'
    BY <2>1 DEF GitInv, GitStateOK, GitStreamOK
  <2> QED
    BY <2>1, <2>2 DEF GitInv, CallerOK
<1>6. CASE CallerStarts
  <2>1. PICK s \in GitStreams :
          /\ gitReader' = [gitReader EXCEPT ![s].pc = "load"] /\ gitReader[s].pc = "none"
          /\ \/ caller = "startOut" /\ caller' = "startErr" /\ s = "out"
             \/ caller = "startErr" /\ caller' = "watch" /\ s = "err"
          /\ UNCHANGED <<alive, holds, written, output, child, abort, gitExited, gitFailed, result>>
    BY <1>0, <1>6 DEF CallerStarts, GitInv, CallerOK
  <2>2. /\ gitReader \in [GitStreams -> GitReaders] /\ gitReader' \in [GitStreams -> GitReaders]
        /\ gitReader'[s].res = gitReader[s].res
        /\ \A t \in GitStreams \ {s} : gitReader'[t] = gitReader[t]
    BY <2>1 DEF GitInv, GitStateOK, GitReaders
  <2>3. GitStateOK'
    BY <2>1, <2>2 DEF GitInv, GitStateOK
  <2>4. \A t \in GitStreams : GitStreamOK(t)'
    BY <2>1, <2>2 DEF GitInv, GitStreamOK
  <2>5. CallerOK'
    BY <1>0, <2>1, <2>2 DEF GitInv, CallerOK
  <2> QED
    BY <2>3, <2>4, <2>5 DEF GitInv
<1>7. CASE CallerJoinsOut \/ CallerJoinsErr
  <2>1. UNCHANGED <<alive, holds, written, output, child, gitReader, gitExited, abort, gitFailed>>
    BY <1>7 DEF CallerJoinsOut, CallerJoinsErr
  <2>2. GitStateOK' /\ \A s \in GitStreams : GitStreamOK(s)'
    BY <2>1 DEF GitInv, GitStateOK, GitStreamOK
  <2>3. CASE CallerJoinsOut
    <3>1. /\ caller = "joinOut" /\ gitReader["out"].pc = "done"
          /\ \/ caller' = "done" /\ result' = "error" /\ abort
             \/ caller' = "joinErr" /\ UNCHANGED result
      BY <1>0, <2>3 DEF CallerJoinsOut, GitInv, CallerOK
    <3> QED
      BY <2>1, <2>2, <3>1 DEF GitInv, CallerOK
  <2>4. CASE CallerJoinsErr
    <3>1. /\ caller = "joinErr" /\ caller' = "done" /\ result' \in {"ok", "error"}
          /\ \A s \in GitStreams : gitReader[s].pc = "done"
          /\ result' = "ok" => child = "reaped" /\ \A s \in GitStreams : gitReader[s].res = "complete"
      BY <1>0, <2>4 DEF CallerJoinsErr, Outcome, GitInv, CallerOK
    <3> QED
      BY <2>1, <2>2, <3>1 DEF GitInv, CallerOK
  <2> QED
    BY <1>7, <2>3, <2>4
<1> QED
  BY <1>2, <1>3, <1>4, <1>5, <1>6, <1>7 DEF CallerSteps

\* Every step keeps the invariant.
LEMMA GitNextInv == GitInv /\ [GitNext]_gitVars => GitInv'
<1> SUFFICES ASSUME GitInv, [GitNext]_gitVars PROVE GitInv'
  OBVIOUS
<1>1. CASE UNCHANGED gitVars
  BY <1>1 DEF gitVars, GitInv, GitStateOK, GitStreamOK, CallerOK
<1>2. CASE \/ \E w \in {"helper", "escaped"} : Starts(w)
           \/ \E w \in GitWriters, s \in GitStreams : Writes(w, s)
           \/ \E c \in {0, 1} : GitExits(c)
           \/ TakenElsewhere
  BY <1>2, GitProcessesKeep
<1>3. ASSUME NEW s \in GitStreams, GitReaderSteps(s) \/ ReaderFails(s) \/ TimePasses(s)
      PROVE  GitInv'
  BY <1>3, GitReaderKeeps
<1>4. CASE CallerSteps
  BY <1>4, GitCallerKeeps
<1> QED
  BY <1>1, <1>2, <1>3, <1>4 DEF GitNext

\* What the invariant says of an answer.
LEMMA GitInvTruthful == GitInv => GitTruthful
  BY DEF GitInv, GitStateOK, GitStreamOK, CallerOK, GitTruthful

-----------------------------------------------------------------------------
\* A capture that calls itself complete is: every chunk either process wrote is in
\* it, in order, and nobody is left who could write more; one that was cut off when
\* the pipe ran dry has all the direct child wrote; nobody who outlives a command
\* loses its reader; no slot is lost or counted twice, whichever step of the set-up
\* fails (executor.rs, run_external).  And what snapshot is told succeeded is all
\* git wrote, with nothing of its group left behind (agent.rs,
\* capture_command_with_limits).
THEOREM CapturesAlwaysTruthful == CapturesSpec => []CaptureTruthful
<1>1. CaptureInv /\ GitInv => CaptureTruthful
  BY CaptureInvTruthful, GitInvTruthful DEF CaptureTruthful
<1>2. CaptureSpec => []CaptureInv
  BY CaptureInitInv, CaptureNextInv, PTL DEF CaptureSpec
<1>3. GitSpec => []GitInv
  BY GitInitInv, GitNextInv, PTL DEF GitSpec
<1> QED
  BY <1>1, <1>2, <1>3, PTL DEF CapturesSpec
=============================================================================
