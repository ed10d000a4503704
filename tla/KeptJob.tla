------------------------------ MODULE KeptJob ------------------------------
(***************************************************************************)
(* One kept job inside the broker daemon (agshd): the PTY pump thread, the *)
(* connection workers that signal, resize, inspect or attach to the job,   *)
(* and the mutexes between them (crates/agsh-broker/src/daemon.rs).        *)
(*                                                                         *)
(* Threads and what they share                                             *)
(*   - the pump drains the PTY into the log, the scrollback ring and the   *)
(*     attached client, reaps the child and publishes its exit;            *)
(*   - one worker per accepted connection serves one request; an attach    *)
(*     worker then becomes the input pump of its client;                   *)
(*   - KeptJob.state (runState) is held across every operation on the      *)
(*     child's pid or on the PTY controller; stateLock is its holder;      *)
(*   - KeptJob.output (ring, attach, attachGen) is always taken for one    *)
(*     uninterrupted section, so each such section is one action.          *)
(*                                                                         *)
(* Output bytes are the numbers 1, 2, 3, ... in the order the job writes   *)
(* them, so that a gap, a reordering or a duplicate is visible in what a   *)
(* client or the log holds.  The job's processes, the kernel's PTY and the *)
(* clients are external; everything else is the daemon's code.             *)
(***************************************************************************)
EXTENDS Integers, Sequences

CONSTANTS
  Conns,          \* connections accepted during the behaviour
  NoConn,         \* not a connection
  MaxWritten,     \* bound: output bytes the job's processes write
  MaxInput,       \* bound: input bytes one client sends
  PtyCap,         \* kernel PTY output buffer
  PtyInCap,       \* kernel PTY input buffer
  ChunkCap,       \* bytes one controller.read returns (8192)
  ScrollbackCap,  \* SCROLLBACK_CAP
  LogRotate,      \* LOG_ROTATE_BYTES
  MaxGen,         \* u64::MAX, the last attach generation
  Replays,        \* replay sizes attach requests ask for
  LogMayFail      \* whether the file system refuses log operations

ASSUME KeptJobAssumption ==
  /\ NoConn \notin Conns
  /\ MaxWritten \in Nat /\ MaxInput \in Nat
  /\ PtyCap \in Nat \ {0} /\ PtyInCap \in Nat \ {0}
  /\ ChunkCap \in Nat \ {0} /\ ScrollbackCap \in Nat \ {0}
  /\ LogRotate \in Nat \ {0} /\ MaxGen \in Nat
  /\ Replays \subseteq Nat
  /\ LogMayFail \in BOOLEAN

VARIABLES
  child,      \* the direct child: "alive", "zombie", "reaped"
  bg,         \* a background process of the job still holds the PTY
  written,    \* bytes the job's processes have written to the PTY
  exitMark,   \* bytes written when the direct child exited
  drained,    \* bytes the pump has read from the controller
  ptyIn,      \* input bytes in the PTY that the job has not read
  runState,   \* KeptJob.state
  stateLock,  \* the connection worker inside with_running_state, or NoConn
  ring,       \* Output.ring
  attach,     \* Output.attach: [conn, gen], NoAttach when empty
  attachGen,  \* Output.attach_gen
  pumpPc,     \* where the pump thread is
  chunk,      \* the pump's read buffer
  sawData,    \* the pump's saw_data
  notifyTo,   \* the stream the pump took when it published the exit
  log,        \* [open, cur, old]: the pump's handle, k<id>.log, k<id>.log.old
  sock,       \* per connection: "none", "open", "shut" (by us), "closed" (by the client)
  connPc,     \* where each connection worker is
  kind,       \* the request each connection carries
  token,      \* attach token the client was given in the handshake, 0 before
  recv,       \* what the client has received after the handshake
  inq,        \* client input bytes queued in the socket
  sent,       \* client input bytes sent so far
  pend,       \* input bytes the worker still has to write to the controller
  obs         \* per connection: what KeptJob::info has read so far

jobVars  == <<child, bg, written, exitMark, ptyIn>>
pumpVars == <<drained, pumpPc, chunk, sawData, notifyTo, log>>
outVars  == <<ring, attach, attachGen>>
connVars == <<sock, connPc, kind, token, recv, inq, sent, pend, obs>>
vars == <<jobVars, pumpVars, outVars, connVars, runState, stateLock>>

NoAttach == [conn |-> NoConn, gen |-> 0]
NotRead == "unread"
Notice == 0      \* the "[keep: job exited ...]" line of a stream or of the log

Kinds == {"attach", "signal", "resize", "info"}

Least(a, b) == IF a < b THEN a ELSE b
LastOf(s, n) == SubSeq(s, Len(s) - Least(n, Len(s)) + 1, Len(s))

JobTypeOK ==
  /\ child \in {"alive", "zombie", "reaped"}
  /\ bg \in BOOLEAN
  /\ written \in Nat /\ exitMark \in Nat
  /\ ptyIn \in 0..PtyInCap

StateTypeOK ==
  /\ runState \in {"running", "finishing", "exited"}
  /\ stateLock \in Conns \cup {NoConn}

OutTypeOK ==
  /\ ring \in Seq(Nat) /\ Len(ring) <= ScrollbackCap
  /\ attach \in [conn : Conns \cup {NoConn}, gen : Nat]
  /\ attachGen \in 0..MaxGen

PumpTypeOK ==
  /\ drained \in Nat
  /\ pumpPc \in {"drain", "forward", "reap", "publish", "notify", "done"}
  /\ chunk \in Seq(Nat)
  /\ sawData \in BOOLEAN
  /\ notifyTo \in Conns \cup {NoConn}
  /\ log \in [open : BOOLEAN, cur : Seq(Nat), old : Seq(Nat)]

ConnTypeOK ==
  /\ sock \in [Conns -> {"none", "open", "shut", "closed"}]
  /\ connPc \in [Conns -> {"idle", "oplock", "op", "install", "pump", "inlock",
                           "inwrite", "detach", "check", "info", "done"}]
  /\ kind \in [Conns -> Kinds \cup {"none"}]
  /\ token \in [Conns -> Nat]
  /\ recv \in [Conns -> Seq(Nat)]
  /\ inq \in [Conns -> Nat] /\ sent \in [Conns -> Nat] /\ pend \in [Conns -> Nat]
  /\ obs \in [Conns -> [state : {"running", "finishing", "exited", NotRead},
                        attached : BOOLEAN]]

\* Every variable has its type; the scrollback keeps to SCROLLBACK_CAP and the
\* kernel's input buffer to its size, whatever is pushed (Output, KeptJob).
TypeOK == JobTypeOK /\ StateTypeOK /\ OutTypeOK /\ PumpTypeOK /\ ConnTypeOK

(***************************************************************************)
(* Broker::spawn has just published the job and started its pump; the log  *)
(* is None when open_private_append failed.                                *)
(***************************************************************************)
Init ==
  /\ child = "alive" /\ bg \in BOOLEAN
  /\ written = 0 /\ exitMark = 0 /\ drained = 0 /\ ptyIn = 0
  /\ runState = "running" /\ stateLock = NoConn
  /\ ring = << >> /\ attach = NoAttach /\ attachGen = 0
  /\ pumpPc = "drain" /\ chunk = << >> /\ sawData = FALSE /\ notifyTo = NoConn
  /\ log \in {[open |-> o, cur |-> << >>, old |-> << >>] :
                 o \in IF LogMayFail THEN BOOLEAN ELSE {TRUE}}
  /\ sock = [c \in Conns |-> "none"]
  /\ connPc = [c \in Conns |-> "idle"]
  /\ kind = [c \in Conns |-> "none"]
  /\ token = [c \in Conns |-> 0]
  /\ recv = [c \in Conns |-> << >>]
  /\ inq = [c \in Conns |-> 0]
  /\ sent = [c \in Conns |-> 0]
  /\ pend = [c \in Conns |-> 0]
  /\ obs = [c \in Conns |-> [state |-> NotRead, attached |-> FALSE]]

(***************************************************************************)
(* The job's processes (external).  A background process that outlives the *)
(* direct child keeps the PTY open and may keep writing.                   *)
(***************************************************************************)
JobWrite ==
  /\ child = "alive" \/ bg
  /\ written < MaxWritten
  /\ written - drained < PtyCap
  /\ written' = written + 1
  /\ UNCHANGED <<child, bg, exitMark, ptyIn, pumpVars, outVars, connVars,
                 runState, stateLock>>

JobReadInput ==
  /\ child = "alive" \/ bg
  /\ ptyIn > 0
  /\ ptyIn' = ptyIn - 1
  /\ UNCHANGED <<child, bg, written, exitMark, pumpVars, outVars, connVars,
                 runState, stateLock>>

ChildExit ==
  /\ child = "alive"
  /\ child' = "zombie"
  /\ exitMark' = written
  /\ UNCHANGED <<bg, written, ptyIn, pumpVars, outVars, connVars, runState,
                 stateLock>>

BgExit ==
  /\ bg
  /\ bg' = FALSE
  /\ UNCHANGED <<child, written, exitMark, ptyIn, pumpVars, outVars, connVars,
                 runState, stateLock>>

(***************************************************************************)
(* The pump thread: pump_job.                                              *)
(***************************************************************************)

\* A log whose write failed is disabled (log = None) for the rest of the job.
KeepLogMutant(l) == l
DisableLog(l) == [l EXCEPT !.open = FALSE]

\* The file pair after rotate_job_log and the reopen: all done, or stopped at
\* the unlink of .log.old, at the rename, or at the reopen (log stays None).
Rotations(full) ==
  {[open |-> TRUE, cur |-> << >>, old |-> full]}
  \cup (IF LogMayFail
        THEN {[open |-> FALSE, cur |-> full, old |-> log.old],
              [open |-> FALSE, cur |-> full, old |-> << >>],
              [open |-> FALSE, cur |-> << >>, old |-> full]}
        ELSE {})

\* The log after write_all of bs: a failed write may leave a prefix behind.
LogWrites(bs) ==
  IF ~log.open THEN {log}
  ELSE (IF Len(log.cur \o bs) > LogRotate
        THEN Rotations(log.cur \o bs)
        ELSE {[log EXCEPT !.cur = log.cur \o bs]})
       \cup (IF LogMayFail
             THEN {DisableLog([log EXCEPT !.cur = log.cur \o SubSeq(bs, 1, k)]) :
                     k \in 0..(Len(bs) - 1)}
             ELSE {})

PumpRead ==
  /\ pumpPc = "drain"
  /\ written > drained
  /\ \E n \in 1..Least(ChunkCap, written - drained) :
       LET bs == [i \in 1..n |-> drained + i] IN
         /\ chunk' = bs
         /\ drained' = drained + n
         /\ log' \in LogWrites(bs)
  /\ sawData' = TRUE
  /\ pumpPc' = "forward"
  /\ UNCHANGED <<notifyTo, jobVars, outVars, connVars, runState, stateLock>>

\* The scrollback after pushing the chunk: the oldest bytes make room.
PushRing == LastOf(ring \o chunk, ScrollbackCap)

\* A client whose write failed is taken out of the slot and hung up.
IgnoreFailureMutant == [attach |-> attach, sock |-> sock]
AfterFailedForward ==
  [attach |-> NoAttach, sock |-> [sock EXCEPT ![attach.conn] = "shut"]]

\* Output::push_and_forward: a write that fails (the client is gone, or did
\* not read for ATTACH_WRITE_TIMEOUT) may have delivered a prefix.
PumpForward ==
  /\ pumpPc = "forward"
  /\ ring' = PushRing
  /\ \/ /\ attach = NoAttach
        /\ UNCHANGED <<attach, recv, sock>>
     \/ /\ attach # NoAttach
        /\ sock[attach.conn] = "open"
        /\ recv' = [recv EXCEPT ![attach.conn] = @ \o chunk]
        /\ UNCHANGED <<attach, sock>>
     \/ /\ attach # NoAttach
        /\ \E k \in 0..(Len(chunk) - 1) :
             /\ k > 0 => sock[attach.conn] = "open"
             /\ recv' = [recv EXCEPT ![attach.conn] = @ \o SubSeq(chunk, 1, k)]
        /\ sock' = AfterFailedForward.sock
        /\ attach' = AfterFailedForward.attach
  /\ chunk' = << >>
  /\ pumpPc' = "drain"
  /\ UNCHANGED <<drained, sawData, notifyTo, log, attachGen, connPc, kind, token,
                 inq, sent, pend, obs, jobVars, runState, stateLock>>

PumpWouldBlock ==
  /\ pumpPc = "drain"
  /\ written = drained
  /\ pumpPc' = "reap"
  /\ UNCHANGED <<drained, chunk, sawData, notifyTo, log, jobVars, outVars,
                 connVars, runState, stateLock>>

\* The pump takes the state lock before it looks at the child.
PumpMayWaitMutant == runState = "running"
PumpMayWait == runState = "running" /\ stateLock = NoConn

\* Nothing to reap yet: sleep when idle and drain again.
PumpStillRunning ==
  /\ pumpPc = "reap"
  /\ PumpMayWait
  /\ child = "alive"
  /\ pumpPc' = "drain"
  /\ sawData' = FALSE
  /\ UNCHANGED <<drained, chunk, notifyTo, log, jobVars, outVars, connVars,
                 runState, stateLock>>

\* try_wait reaps the child inside the state lock; finalize only when the
\* drain just done read nothing.
PumpReap ==
  /\ pumpPc = "reap"
  /\ PumpMayWait
  /\ child = "zombie"
  /\ child' = "reaped"
  /\ runState' = "finishing"
  /\ pumpPc' = IF sawData THEN "drain" ELSE "publish"
  /\ sawData' = FALSE
  /\ UNCHANGED <<bg, written, exitMark, ptyIn, drained, chunk, notifyTo, log,
                 outVars, connVars, stateLock>>

\* After the reap every iteration that read something drains once more.
FinalizeMutant == "drain"
FinalizeOrDrain == IF sawData THEN "drain" ELSE "publish"

\* exit_code is already known: drain again, or finalize after an empty drain.
PumpFinishing ==
  /\ pumpPc = "reap"
  /\ runState = "finishing"
  /\ pumpPc' = FinalizeOrDrain
  /\ sawData' = FALSE
  /\ UNCHANGED <<drained, chunk, notifyTo, log, jobVars, outVars, connVars,
                 runState, stateLock>>

\* The exit line of the log (best effort), then publish_exit_and_take_attachment.
PumpPublish ==
  /\ pumpPc = "publish"
  /\ stateLock = NoConn
  /\ log' \in IF log.open
              THEN {[log EXCEPT !.cur = Append(@, Notice)]}
                   \cup (IF LogMayFail THEN {log} ELSE {})
              ELSE {log}
  /\ runState' = "exited"
  /\ attach' = NoAttach
  /\ notifyTo' = attach.conn
  /\ pumpPc' = IF attach = NoAttach THEN "done" ELSE "notify"
  /\ UNCHANGED <<drained, chunk, sawData, ring, attachGen, jobVars, connVars,
                 stateLock>>

\* shutdown(Both) on the stream taken from the slot.
HangUpNotified == [sock EXCEPT ![notifyTo] = "shut"]

\* Tell the client (best effort) and hang up its stream.
PumpNotify ==
  /\ pumpPc = "notify"
  /\ recv' \in {recv} \cup
       (IF sock[notifyTo] = "open"
        THEN {[recv EXCEPT ![notifyTo] = Append(@, Notice)]} ELSE {})
  /\ sock' = HangUpNotified
  /\ pumpPc' = "done"
  /\ UNCHANGED <<drained, chunk, sawData, notifyTo, log, connPc, kind, token, inq,
                 sent, pend, obs, jobVars, outVars, runState, stateLock>>

(***************************************************************************)
(* The clients (external).                                                 *)
(***************************************************************************)
Connect(c, k) ==
  /\ connPc[c] = "idle"
  /\ kind' = [kind EXCEPT ![c] = k]
  /\ connPc' = [connPc EXCEPT ![c] = IF k = "info" THEN "info" ELSE "oplock"]
  /\ sock' = [sock EXCEPT ![c] = "open"]
  /\ UNCHANGED <<token, recv, inq, sent, pend, obs, jobVars, pumpVars, outVars,
                 runState, stateLock>>

ClientSend(c) ==
  /\ sock[c] = "open" /\ token[c] # 0
  /\ sent[c] < MaxInput
  /\ sent' = [sent EXCEPT ![c] = @ + 1]
  /\ inq' = [inq EXCEPT ![c] = @ + 1]
  /\ UNCHANGED <<sock, connPc, kind, token, recv, pend, obs, jobVars, pumpVars,
                 outVars, runState, stateLock>>

ClientClose(c) ==
  /\ sock[c] = "open"
  /\ sock' = [sock EXCEPT ![c] = "closed"]
  /\ UNCHANGED <<connPc, kind, token, recv, inq, sent, pend, obs, jobVars,
                 pumpVars, outVars, runState, stateLock>>

(***************************************************************************)
(* Connection workers.                                                     *)
(***************************************************************************)

\* The worker returns: every descriptor it still holds is closed.
Return(c) ==
  /\ connPc' = [connPc EXCEPT ![c] = "done"]
  /\ sock' = [sock EXCEPT ![c] = IF @ = "open" THEN "shut" ELSE @]

\* with_running_state of signal and set_winsize: refused unless running.
OpLock(c) ==
  /\ connPc[c] = "oplock"
  /\ stateLock = NoConn
  /\ IF runState = "running"
     THEN /\ stateLock' = c
          /\ connPc' = [connPc EXCEPT ![c] = "op"]
          /\ UNCHANGED sock
     ELSE /\ Return(c)
          /\ UNCHANGED stateLock
  /\ UNCHANGED <<kind, token, recv, inq, sent, pend, obs, jobVars, pumpVars,
                 outVars, runState>>

\* The ioctl and the kill, with the lock still held.  An attach whose resize
\* succeeded goes on to install; anything else, an error included, replies.
OpDo(c) ==
  /\ connPc[c] = "op"
  /\ stateLock' = NoConn
  /\ \/ /\ kind[c] = "attach"
        /\ connPc' = [connPc EXCEPT ![c] = "install"]
        /\ UNCHANGED sock
     \/ Return(c)
  /\ UNCHANGED <<kind, token, recv, inq, sent, pend, obs, jobVars, pumpVars,
                 outVars, runState>>

\* with_running_output runs the installation only for a running job.
MayInstallMutant == attachGen < MaxGen
MayInstall == runState = "running" /\ attachGen < MaxGen

\* Refused: the job is no longer running, or the generations are used up.
AttachRefused(c) ==
  /\ connPc[c] = "install"
  /\ stateLock = NoConn
  /\ ~MayInstall
  /\ Return(c)
  /\ UNCHANGED <<kind, token, recv, inq, sent, pend, obs, jobVars, pumpVars,
                 outVars, runState, stateLock>>

\* The previous client, hung up by a takeover.
HangUpOld == IF attach = NoAttach THEN sock
             ELSE [sock EXCEPT ![attach.conn] = "shut"]

\* Handshake, takeover, replay and installation, one section under both locks.
AttachInstall(c) ==
  /\ connPc[c] = "install"
  /\ stateLock = NoConn
  /\ MayInstall
  /\ sock[c] = "open"
  /\ sock' = HangUpOld
  /\ token' = [token EXCEPT ![c] = attachGen + 1]
  /\ \E r \in Replays : recv' = [recv EXCEPT ![c] = LastOf(ring, r)]
  /\ attachGen' = attachGen + 1
  /\ attach' = [conn |-> c, gen |-> attachGen + 1]
  /\ connPc' = [connPc EXCEPT ![c] = "pump"]
  /\ UNCHANGED <<ring, kind, inq, sent, pend, obs, jobVars, pumpVars, runState,
                 stateLock>>

\* The same section left by `?`: the handshake could not be written, or it was
\* and the replay stopped short.  The slot is empty, attach_gen is as before.
AttachFails(c) ==
  /\ connPc[c] = "install"
  /\ stateLock = NoConn
  /\ MayInstall
  /\ \/ UNCHANGED <<token, recv>>
     \/ /\ sock[c] = "open"
        /\ token' = [token EXCEPT ![c] = attachGen + 1]
        /\ \E r \in Replays : \E k \in 0..(Least(r, Len(ring)) - 1) :
             recv' = [recv EXCEPT ![c] = SubSeq(LastOf(ring, r), 1, k)]
  /\ attach' = NoAttach
  /\ sock' = [HangUpOld EXCEPT ![c] = IF @ = "open" THEN "shut" ELSE @]
  /\ connPc' = [connPc EXCEPT ![c] = "done"]
  /\ UNCHANGED <<ring, attachGen, kind, inq, sent, pend, obs, jobVars, pumpVars,
                 runState, stateLock>>

\* reader.read returns queued input, also after the stream was shut down.
InputRead(c) ==
  /\ connPc[c] = "pump"
  /\ inq[c] > 0
  /\ pend' = [pend EXCEPT ![c] = inq[c]]
  /\ inq' = [inq EXCEPT ![c] = 0]
  /\ connPc' = [connPc EXCEPT ![c] = "inlock"]
  /\ UNCHANGED <<sock, kind, token, recv, sent, obs, jobVars, pumpVars, outVars,
                 runState, stateLock>>

\* write_to_controller takes the state lock; once the child is reaped the
\* bytes are dropped (BrokenPipe) and the worker keeps reading.
InputLock(c) ==
  /\ connPc[c] = "inlock"
  /\ stateLock = NoConn
  /\ IF runState = "running"
     THEN /\ stateLock' = c
          /\ connPc' = [connPc EXCEPT ![c] = "inwrite"]
          /\ UNCHANGED pend
     ELSE /\ connPc' = [connPc EXCEPT ![c] = "pump"]
          /\ pend' = [pend EXCEPT ![c] = 0]
          /\ UNCHANGED stateLock
  /\ UNCHANGED <<sock, kind, token, recv, inq, sent, obs, jobVars, pumpVars,
                 outVars, runState>>

\* write_all_with_deadline: one byte goes in when the PTY has room.
InputWrite(c) ==
  /\ connPc[c] = "inwrite"
  /\ pend[c] > 0 /\ ptyIn < PtyInCap
  /\ ptyIn' = ptyIn + 1
  /\ pend' = [pend EXCEPT ![c] = @ - 1]
  /\ IF pend[c] = 1
     THEN stateLock' = NoConn /\ connPc' = [connPc EXCEPT ![c] = "pump"]
     ELSE UNCHANGED <<stateLock, connPc>>
  /\ UNCHANGED <<child, bg, written, exitMark, sock, kind, token, recv, inq, sent,
                 obs, pumpVars, outVars, runState>>

\* The deadline ends a write that is still incomplete.
DeadlinePassed(c) == pend[c] > 0

\* ATTACH_INPUT_WRITE_TIMEOUT passed, or the PTY was hung up: detach.
InputError(c) ==
  /\ connPc[c] = "inwrite"
  /\ DeadlinePassed(c)
  /\ stateLock' = NoConn
  /\ pend' = [pend EXCEPT ![c] = 0]
  /\ connPc' = [connPc EXCEPT ![c] = "detach"]
  /\ UNCHANGED <<sock, kind, token, recv, inq, sent, obs, jobVars, pumpVars,
                 outVars, runState>>

StreamEnd(c) ==
  /\ connPc[c] = "pump"
  /\ sock[c] # "open" /\ inq[c] = 0
  /\ connPc' = [connPc EXCEPT ![c] = "detach"]
  /\ UNCHANGED <<sock, kind, token, recv, inq, sent, pend, obs, jobVars, pumpVars,
                 outVars, runState, stateLock>>

\* The generation in the slot is our own.
OwnsSlotMutant(c) == attach # NoAttach
OwnsSlot(c) == attach # NoAttach /\ attach.gen = token[c]

\* Clear the slot only if we are still the current client.
Detach(c) ==
  /\ connPc[c] = "detach"
  /\ attach' = IF OwnsSlot(c) THEN NoAttach ELSE attach
  /\ connPc' = [connPc EXCEPT ![c] = "check"]
  /\ UNCHANGED <<ring, attachGen, sock, kind, token, recv, inq, sent, pend, obs,
                 jobVars, pumpVars, runState, stateLock>>

\* Read the state once more (to discard a pending exit status) and return.
CheckExited(c) ==
  /\ connPc[c] = "check"
  /\ stateLock = NoConn
  /\ Return(c)
  /\ UNCHANGED <<kind, token, recv, inq, sent, pend, obs, jobVars, pumpVars,
                 outVars, runState, stateLock>>

\* KeptJob::info reads the state, releases it, and then reads the slot.
InfoState(c) ==
  /\ connPc[c] = "info"
  /\ obs[c].state = NotRead
  /\ stateLock = NoConn
  /\ obs' = [obs EXCEPT ![c].state = runState]
  /\ UNCHANGED <<sock, connPc, kind, token, recv, inq, sent, pend, jobVars,
                 pumpVars, outVars, runState, stateLock>>

InfoAttached(c) ==
  /\ connPc[c] = "info"
  /\ obs[c].state # NotRead
  /\ obs' = [obs EXCEPT ![c].attached = (attach # NoAttach)]
  /\ Return(c)
  /\ UNCHANGED <<kind, token, recv, inq, sent, pend, jobVars, pumpVars, outVars,
                 runState, stateLock>>

-----------------------------------------------------------------------------
Job == JobWrite \/ JobReadInput \/ ChildExit \/ BgExit

Pump == \/ PumpRead \/ PumpForward \/ PumpWouldBlock \/ PumpStillRunning
        \/ PumpReap \/ PumpFinishing \/ PumpPublish \/ PumpNotify

Client(c) == (\E k \in Kinds : Connect(c, k)) \/ ClientSend(c) \/ ClientClose(c)

Worker(c) == \/ OpLock(c) \/ OpDo(c)
             \/ AttachRefused(c) \/ AttachInstall(c) \/ AttachFails(c)
             \/ InputRead(c) \/ InputLock(c) \/ InputWrite(c) \/ InputError(c)
             \/ StreamEnd(c) \/ Detach(c) \/ CheckExited(c)
             \/ InfoState(c) \/ InfoAttached(c)

Next == Job \/ Pump \/ \E c \in Conns : Client(c) \/ Worker(c)

Spec == Init /\ [][Next]_vars

(***************************************************************************)
(* Fairness.  The daemon's threads are always eventually scheduled; the    *)
(* job's processes and the clients owe nothing.  Weak fairness suffices    *)
(* for the lock too: no connection takes it more than 2 + MaxInput times.  *)
(***************************************************************************)
Fairness == WF_vars(Pump) /\ \A c \in Conns : WF_vars(Worker(c))

-----------------------------------------------------------------------------
\* Successive output bytes, with the exit notice nowhere but at the end.
Contiguous(s) ==
  \A i \in 1..(Len(s) - 1) : \/ s[i] # Notice /\ s[i + 1] = s[i] + 1
                             \/ s[i + 1] = Notice /\ i + 1 = Len(s)

\* Bytes that have been through push_and_forward.
Forwarded == drained - Len(chunk)

\* Replay and live output never reorder, duplicate or skip bytes: what a client
\* has received is one contiguous run of the job's output, and while it holds
\* the slot that run reaches the last byte forwarded (the promise of the
\* single output lock, daemon.rs "struct Output").
StreamContiguous ==
  \A c \in Conns :
    /\ Contiguous(recv[c])
    /\ attach.conn = c /\ recv[c] # << >> => recv[c][Len(recv[c])] = Forwarded

\* No signal, resize or input write can be in flight once the pump has reaped
\* the child: the pid it targets still belongs to the job ("with_running_state").
PidOpsTargetUnreapedChild ==
  (\E c \in Conns : connPc[c] \in {"op", "inwrite"}) => child # "reaped"

\* A connection whose input is being pumped and whose stream is open is the one
\* the job's output goes to: no stale worker, failed write or takeover leaves a
\* client connected but cut off from the output (the generation check at detach).
\* And a status answer, assembled from two separate reads, is one the client
\* accepts: it never calls a finished job attached (client.rs, validate_job_info).
AttachmentTruthful ==
  \A c \in Conns :
    /\ connPc[c] \in {"pump", "inlock", "inwrite"} /\ sock[c] = "open"
       /\ runState # "exited" => attach.conn = c
    /\ obs[c].attached => obs[c].state # "exited"

\* While logging is on, the rotated and the current log together are the most
\* recent output with no byte missing, whatever writes and rotations failed.
LogKept ==
  LET all == log.old \o log.cur IN
    /\ Contiguous(all)
    /\ log.open /\ all # << >> /\ runState # "exited" => all[Len(all)] = drained

\* The daemon's job keeps the promises of JobContract: forward-only phases, one
\* holder, last attach wins, no attach after the reap, exit empties the slot.
Contract == INSTANCE JobContract
              WITH phase <- runState, holder <- attach.conn, epoch <- attachGen
ImplementsContract == Contract!Spec

\* "Child gone and the PTY is drained: finalize" (daemon.rs pump_job): when the
\* exit is published every byte the child wrote before it exited was pumped.
FinalOutputDrained == runState = "exited" => drained >= exitMark

\* The pump always gets on: the exit of the child is published, also while
\* clients keep the state lock busy with input the job does not read (pump_job,
\* the write deadline), unless a process that outlives the child never stops
\* writing: every read sets saw_data, and the pump drains once more ("Data still
\* flowing after exit").  Output waiting in the PTY is pumped or the job is
\* over: a blocked input write and a slow client cannot block each other for ever.
\* After the exit every attached client is hung up and its worker returns.
PumpProgress ==
  /\ (child = "zombie" ~> runState = "exited") \/ []<><<JobWrite>>_vars
  /\ written > drained ~> written = drained \/ runState = "exited"
  /\ \A c \in Conns :
       runState = "exited" /\ token[c] # 0 ~> connPc[c] = "done" /\ sock[c] # "open"
=============================================================================
