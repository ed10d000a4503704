------------------------------ MODULE Capture ------------------------------
(***************************************************************************)
(* The capture of one external command (agsh-exec/src/executor.rs,         *)
(* run_external): the shell spawns the child, starts a writer thread for   *)
(* its input and one reader thread per captured stream, waits for the      *)
(* direct child and joins the threads.  A descendant the child leaves      *)
(* behind may keep the streams open for ever, so a reader that sees the    *)
(* direct child gone hands its pipe to a drain worker, a helper process    *)
(* that discards what comes later; readers and workers are counted against *)
(* one process-wide limit.                                                 *)
(*                                                                         *)
(* A chunk of output is the process that wrote it, "child" or "heir".      *)
(***************************************************************************)
EXTENDS Naturals, Sequences, FiniteSets

CONSTANTS
  Limit,       \* MAX_CAPTURE_DRAIN_WORKERS
  PipeCap,     \* chunks a pipe holds
  PostBytes,   \* POST_CHILD_CAPTURE_DRAIN_BYTES, in chunks
  MemLimit,    \* MAX_IN_MEMORY_CAPTURE_BYTES, in chunks
  Budget,      \* raw storage bytes of one command (TraceCaptureBudget)
  MaxWrites,   \* bound: chunks each process writes to each stream
  Plans        \* ways a command is captured, see plan

Fds == {"out", "err"}
Procs == {"child", "heir"}

VARIABLES
  plan,     \* [bounded, streaming, helper, writes]: how this command
            \* is captured and which streams it writes
  setup,    \* set-up steps still to take
  phase,    \* what run_external is doing
  proc,     \* the direct child and its heir: "none", "live", "gone", "reaped"
  input,    \* the data of the input writer thread: "none", "unread", "taken"
  exited,   \* direct_child_exited
  unread,   \* unread chunks of each stream
  reader,   \* each reader: [st, saw, post, handoff, idle]
  got,      \* chunks each reader has returned to the capture
  stored,   \* chunks of each stream in its trace spool
  budget,   \* remaining bytes of the command's capture budget
  partial,  \* streams marked incomplete
  worker,   \* each drain worker: "none", "launched", "draining", "dead"
  others,   \* slots held by captures of other commands
  slots,    \* ACTIVE_CAPTURE_DRAIN_WORKERS
  wrote     \* ghost: chunks written to each stream

captureVars == <<plan, setup, phase, proc, input, exited, unread, reader, got, stored,
          budget, partial, worker, others, slots, wrote>>

Idle == [st |-> "none", saw |-> FALSE, post |-> 0, handoff |-> "none", idle |-> FALSE]

\* Streams this command captures: a streaming stage's output goes to the next
\* stage, not to a reader.
Captured == IF plan.streaming THEN {"err"} ELSE Fds

\* The order of the fallible set-up steps after the child has been spawned.
SetupSteps(streaming) ==
  IF streaming THEN <<"admit_err", "stdin", "thread_err">>
  ELSE <<"stdin", "admit_out", "admit_err", "thread_out", "thread_err">>

\* A stream ends when every process that inherited it is gone.
Open == \E w \in Procs : proc[w] = "live"

CaptureTypeOK ==
  /\ phase \in {"setup", "wait", "abort", "out", "err", "stdin", "done", "failed"}
  /\ proc \in [Procs -> {"none", "live", "gone", "reaped"}]
  /\ input \in {"none", "unread", "taken"} /\ exited \in BOOLEAN
  /\ unread \in [Fds -> Seq(Procs)] /\ got \in [Fds -> Seq(Procs)]
  /\ stored \in [Fds -> Nat] /\ budget \in 0..Budget
  /\ partial \subseteq Fds
  /\ worker \in [Fds -> {"none", "launched", "draining", "dead"}]
  /\ others \in 0..Limit /\ slots \in 0..Limit

CaptureInit ==
  /\ plan \in Plans
  /\ setup = SetupSteps(plan.streaming)
  /\ phase = "setup"
  /\ proc = [w \in Procs |-> IF w = "child" THEN "live" ELSE "none"]
  /\ input = "none"
  /\ exited = FALSE
  /\ unread = [s \in Fds |-> <<>>]
  /\ reader = [s \in Fds |-> Idle]
  /\ got = [s \in Fds |-> <<>>]
  /\ stored = [s \in Fds |-> 0]
  /\ budget = Budget
  /\ partial = {}
  /\ worker = [s \in Fds |-> "none"]
  /\ others \in 0..Limit
  /\ slots = others
  /\ wrote = [s \in Fds |-> <<>>]

-----------------------------------------------------------------------------
(* The processes.                                                          *)

\* A writer whose pipe has no reading end left is killed by SIGPIPE; the
\* shell's own reader and the worker each hold one.
HasReader(s) == reader[s].st \in {"none", "held", "look", "read", "dry", "ack"}
                \/ worker[s] \in {"launched", "draining"}

\* Where in a stream the chunks of one process are.
From(w, q) == {i \in DOMAIN q : q[i] = w}

Write(w, s) ==
  /\ proc[w] = "live" /\ s \in Captured \cap plan.writes
  /\ Cardinality(From(w, wrote[s])) < MaxWrites
  /\ IF HasReader(s)
     THEN /\ Len(unread[s]) < PipeCap
          /\ unread' = [unread EXCEPT ![s] = Append(@, w)]
          /\ wrote' = [wrote EXCEPT ![s] = Append(@, w)]
          /\ UNCHANGED proc
     ELSE /\ proc' = [proc EXCEPT ![w] = "gone"]
          /\ UNCHANGED <<unread, wrote>>
  /\ UNCHANGED <<plan, setup, phase, input, exited, reader, got, stored, budget,
                 partial, worker, others, slots>>

Fork ==
  /\ proc["child"] = "live" /\ proc["heir"] = "none"
  /\ proc' = [proc EXCEPT !["heir"] = "live"]
  /\ UNCHANGED <<plan, setup, phase, input, exited, unread, reader, got, stored,
                 budget, partial, worker, others, slots, wrote>>

Exit(w) ==
  /\ proc[w] = "live"
  /\ proc' = [proc EXCEPT ![w] = "gone"]
  /\ UNCHANGED <<plan, setup, phase, input, exited, unread, reader, got, stored,
                 budget, partial, worker, others, slots, wrote>>

\* The input writer: a chunk is taken by a live process, and an unread one is
\* dropped with EPIPE once nobody can read it.
InputTaken ==
  /\ input = "unread"
  /\ input' = "taken"
  /\ UNCHANGED <<plan, setup, phase, proc, exited, unread, reader, got, stored,
                 budget, partial, worker, others, slots, wrote>>

\* Captures of other commands in the same shell take and release slots; after
\* the set-up this command no longer looks at them.
OtherCapture ==
  /\ phase = "setup"
  /\ \E n \in 0..Limit :
       /\ n \in {others + 1, others - 1}
       /\ slots + n - others <= Limit
       /\ others' = n
       /\ slots' = slots + n - others
  /\ UNCHANGED <<plan, setup, phase, proc, input, exited, unread, reader, got,
                 stored, budget, partial, worker, wrote>>

-----------------------------------------------------------------------------
(* Set-up, run by the shell after the spawn.                               *)

\* Slots of readers that were created but whose thread never started.
Unstarted == {s \in Fds : reader[s].st = "held"}

\* abort_external_capture_start: the child is killed and reaped, readers that
\* never started are dropped with their slot, started ones are joined.
AbortStart ==
  /\ proc' = [proc EXCEPT !["child"] = "reaped"]
  /\ exited' = TRUE
  /\ phase' = "abort"
  /\ reader' = [s \in Fds |->
       IF reader[s].st \in {"none", "held"} THEN [reader[s] EXCEPT !.st = "closed"] ELSE reader[s]]
  /\ slots' = slots - Cardinality(Unstarted)

SetupStep(name) == phase = "setup" /\ setup # <<>> /\ Head(setup) = name

SetupDone ==
  /\ setup' = Tail(setup)
  /\ phase' = IF Tail(setup) = <<>> THEN "wait" ELSE "setup"

\* The input writer thread, when the command has redirected or piped input.
StartInput ==
  /\ SetupStep("stdin")
  /\ \/ /\ input' \in {"none", "unread"}
        /\ SetupDone
        /\ UNCHANGED <<proc, exited, reader, slots>>
     \/ /\ AbortStart
        /\ UNCHANGED <<setup, input>>
  /\ UNCHANGED <<plan, unread, got, stored, budget, partial, worker, others, wrote>>

\* new_with_admission: a reader exists only with a slot of its own.
Admit(s) ==
  /\ SetupStep(IF s = "out" THEN "admit_out" ELSE "admit_err")
  /\ IF slots < Limit
     THEN /\ slots' = slots + 1
          /\ reader' = [reader EXCEPT ![s].st = "held"]
          /\ SetupDone
          /\ UNCHANGED <<proc, exited>>
     ELSE /\ AbortStart
          /\ UNCHANGED setup
  /\ UNCHANGED <<plan, input, unread, got, stored, budget, partial, worker, others, wrote>>

\* The reader's thread; when it cannot start its reader is dropped.
StartReader(s) ==
  /\ SetupStep(IF s = "out" THEN "thread_out" ELSE "thread_err")
  /\ \/ /\ reader' = [reader EXCEPT ![s].st = "look"]
        /\ SetupDone
        /\ UNCHANGED <<proc, exited, slots>>
     \/ /\ AbortStart
        /\ UNCHANGED setup
  /\ UNCHANGED <<plan, input, unread, got, stored, budget, partial, worker, others, wrote>>

-----------------------------------------------------------------------------
(* A reader thread (DirectChildCaptureReader::read under                   *)
(* read_capture_stream_for_observation).                                   *)

Finish(s, st) ==
  /\ reader' = [reader EXCEPT ![s].st = st]
  /\ slots' = slots - 1

\* The hand-over as if a dry pipe were only looked at again.
DetachMutant(s, idle) == reader' = [reader EXCEPT ![s].st = "look"]

\* detach_remaining_writers: the first attempt is remembered.  Without a
\* helper there is nobody to hand the pipe to.
Detach(s, idle) ==
  IF reader[s].handoff # "none" THEN reader' = [reader EXCEPT ![s].st = "read"]
  ELSE \/ /\ plan.helper
          /\ reader' = [reader EXCEPT ![s].st = "ack", ![s].idle = idle]
       \/ reader' = [reader EXCEPT ![s].st = "read", ![s].handoff = "Unavailable"]

LaunchWorker(s) ==
  worker' = [worker EXCEPT ![s] = IF reader'[s].st = "ack" THEN "launched" ELSE @]

\* The flag is sampled before the pipe is read; past the byte or the time
\* budget the rest is handed over.
Look(s) ==
  /\ reader[s].st = "look"
  /\ \/ /\ reader' = [reader EXCEPT ![s].st = "read", ![s].saw = exited]
        /\ exited => reader[s].post < PostBytes \/ reader[s].handoff # "none"
        /\ UNCHANGED worker
     \/ /\ exited /\ reader[s].handoff = "none"
        /\ \E saw \in {exited} :
             LET looked == [reader EXCEPT ![s].saw = saw] IN
             \/ /\ plan.helper
                /\ reader' = [looked EXCEPT ![s].st = "ack", ![s].idle = FALSE]
             \/ reader' = [looked EXCEPT ![s].st = "read", ![s].handoff = "Unavailable"]
        /\ LaunchWorker(s)
  /\ UNCHANGED <<plan, setup, phase, proc, input, exited, unread, got, stored,
                 budget, partial, others, slots, wrote>>

\* One read of the pipe: a chunk (teed to the spool while the budget lasts),
\* end of file, or nothing for now.
Read(s) ==
  /\ reader[s].st = "read"
  /\ IF unread[s] # <<>>
     THEN LET kept == IF plan.bounded /\ budget > 0 THEN 1 ELSE 0 IN
          /\ got' = [got EXCEPT ![s] = Append(@, Head(unread[s]))]
          /\ unread' = [unread EXCEPT ![s] = Tail(@)]
          /\ stored' = [stored EXCEPT ![s] = @ + kept]
          /\ budget' = budget - kept
          /\ IF ~plan.bounded /\ Len(got[s]) >= MemLimit
             THEN Finish(s, "error")
             ELSE /\ reader' = [reader EXCEPT ![s].st = "look",
                       ![s].post = IF reader[s].saw /\ @ < PostBytes THEN @ + 1 ELSE @]
                  /\ UNCHANGED slots
          /\ UNCHANGED worker
     ELSE /\ IF ~Open THEN Finish(s, "eof") /\ UNCHANGED worker
             ELSE reader' = [reader EXCEPT ![s].st = "dry"] /\ UNCHANGED <<slots, worker>>
          /\ UNCHANGED <<got, unread, stored, budget>>
  /\ UNCHANGED <<plan, setup, phase, proc, input, exited, partial, others, wrote>>

\* The flag as if it were sampled only after the pipe turned out to be empty.
SampledMutant(s) == exited

\* What the reader knows of the child when its read found nothing.
Sampled(s) == reader[s].saw

\* Nothing to read for now: with the child known to be gone the pipe is handed
\* over, else the reader sleeps and looks again.
Dry(s) ==
  /\ reader[s].st = "dry"
  /\ IF Sampled(s)
     THEN Detach(s, TRUE) /\ LaunchWorker(s)
     ELSE reader' = [reader EXCEPT ![s].st = "look"] /\ UNCHANGED worker
  /\ UNCHANGED <<plan, setup, phase, proc, input, exited, unread, got, stored,
                 budget, partial, others, slots, wrote>>

\* The acknowledgement arrives: the slot moves to the worker, which the reaper
\* thread now owns, and the capture ends as incomplete.
Transfer(s) ==
  /\ reader[s].st = "ack" /\ worker[s] = "draining"
  /\ reader' = [reader EXCEPT ![s].st = "eof", ![s].handoff = "Transferred"]
  /\ partial' = partial \cup {s}
  /\ UNCHANGED <<plan, setup, phase, proc, input, exited, unread, got, stored,
                 budget, worker, others, slots, wrote>>

\* No acknowledgement in time, a wrong one, or the worker died: its group is
\* killed, the capture is marked and the reader drains on to the real end.
Ambiguous(s) ==
  /\ reader[s].st = "ack"
  /\ worker' = [worker EXCEPT ![s] = "dead"]
  /\ reader' = [reader EXCEPT ![s].st = "read", ![s].handoff = "Ambiguous"]
  /\ partial' = partial \cup {s}
  /\ UNCHANGED <<plan, setup, phase, proc, input, exited, unread, got, stored,
                 budget, others, slots, wrote>>

\* run_capture_drain, in the helper: acknowledge, then discard to the end.
WorkerReady(s) ==
  /\ worker[s] = "launched"
  /\ worker' = [worker EXCEPT ![s] = "draining"]
  /\ UNCHANGED <<plan, setup, phase, proc, input, exited, unread, reader, got,
                 stored, budget, partial, others, slots, wrote>>

WorkerDiscards(s) ==
  /\ worker[s] = "draining" /\ unread[s] # <<>>
  /\ unread' = [unread EXCEPT ![s] = Tail(@)]
  /\ UNCHANGED <<plan, setup, phase, proc, input, exited, reader, got, stored,
                 budget, partial, worker, others, slots, wrote>>

\* capture_drain_reaper: a transferred worker that has ended gives its slot back.
ReapWorker(s) ==
  /\ worker[s] = "draining" /\ reader[s].handoff = "Transferred"
  /\ unread[s] = <<>> /\ ~Open
  /\ worker' = [worker EXCEPT ![s] = "dead"]
  /\ slots' = slots - 1
  /\ UNCHANGED <<plan, setup, phase, proc, input, exited, unread, reader, got,
                 stored, budget, partial, others, wrote>>

-----------------------------------------------------------------------------
(* The shell waits and joins.                                              *)

\* wait_child_interruptibly; an interrupt kills the child before it is reaped.
WaitChild ==
  /\ phase = "wait" /\ proc["child"] = "gone"
  /\ proc' = [proc EXCEPT !["child"] = "reaped"]
  /\ exited' = TRUE
  /\ phase' = "out"
  /\ UNCHANGED <<plan, setup, input, unread, reader, got, stored, budget, partial,
                 worker, others, slots, wrote>>

Ended(s) == reader[s].st \in {"none", "closed", "eof", "error"}

\* The threads are joined in this order; the result is an error if any stream
\* could not be captured.
Join ==
  /\ \/ phase = "out" /\ Ended("out") /\ phase' = "err"
     \/ phase = "err" /\ Ended("err") /\ phase' = "stdin"
     \/ /\ phase = "stdin" /\ (input # "unread" \/ ~Open)
        /\ phase' = IF \E s \in Captured : reader[s].st = "error" THEN "failed" ELSE "done"
  /\ UNCHANGED <<plan, setup, proc, input, exited, unread, reader, got, stored,
                 budget, partial, worker, others, slots, wrote>>

\* The joins of the abort: whatever was started, then the error is returned.
AbortJoin ==
  /\ phase = "abort"
  /\ \A s \in Fds : Ended(s)
  /\ input # "unread" \/ ~Open
  /\ phase' = "failed"
  /\ UNCHANGED <<plan, setup, proc, input, exited, unread, reader, got, stored,
                 budget, partial, worker, others, slots, wrote>>

ReaderSteps(s) == Look(s) \/ Read(s) \/ Dry(s) \/ Transfer(s)
ShellSteps == StartInput \/ (\E s \in Fds : Admit(s) \/ StartReader(s))
              \/ WaitChild \/ Join \/ AbortJoin

CaptureNext ==
  \/ \E w \in Procs : Exit(w) \/ \E s \in Fds : Write(w, s)
  \/ Fork \/ InputTaken \/ OtherCapture
  \/ ShellSteps
  \/ \E s \in Fds : Look(s) \/ Read(s) \/ Dry(s) \/ Transfer(s) \/ Ambiguous(s)
                        \/ WorkerReady(s) \/ WorkerDiscards(s) \/ ReapWorker(s)

\* The shell's threads, the helper and its reaper keep running; nothing is
\* assumed of the child, its heir or other commands.
CaptureFairness ==
  /\ WF_captureVars(ShellSteps)
  /\ \A s \in Fds : WF_captureVars(ReaderSteps(s)) /\ WF_captureVars(WorkerReady(s))

CaptureSpec == CaptureInit /\ [][CaptureNext]_captureVars /\ CaptureFairness

-----------------------------------------------------------------------------
(* What must hold.                                                         *)

\* The status published for a stream's trace (TraceSpoolWriter::finish).
SpoolStatus(s) ==
  IF s \notin partial /\ Len(got[s]) = stored[s] THEN "Complete" ELSE "Truncated"

\* A capture that calls itself complete holds every byte written to the stream
\* and nobody can write more; one cut off because the pipe ran dry still holds
\* all the direct child wrote, whatever its heir did in between (executor.rs
\* samples direct_child_exited before each read for this).
CommandTruthful ==
  phase = "done" => \A s \in Captured :
    /\ s \notin partial => got[s] = wrote[s] /\ ~Open
    /\ SpoolStatus(s) = "Complete" => stored[s] = Len(wrote[s])
    /\ reader[s].handoff = "Transferred" /\ reader[s].idle
         => From("child", got[s]) = From("child", wrote[s])

\* A process that outlives its command never loses its pipe to SIGPIPE once the
\* command was captured: a reader or an acknowledged worker holds every stream
\* until the last writer is gone.  Slots are exactly the readers and workers
\* alive, whichever set-up step failed.
LiveWriterHasReader ==
  /\ phase = "done" /\ proc["heir"] = "live" => \A s \in Captured : HasReader(s)
  /\ slots = others
       + Cardinality({s \in Fds : reader[s].st \in {"held", "look", "read", "dry", "ack"}})
       + Cardinality({s \in Fds : reader[s].handoff = "Transferred" /\ worker[s] # "dead"})

ChildGone == proc["child"] \in {"gone", "reaped"}
Over ==
  \/ phase \in {"done", "failed"}
  \/ \E s \in Fds : reader[s].handoff \in {"Unavailable", "Ambiguous"}
  \/ Open /\ input = "unread"

\* Once the direct child is gone the command ends, even if an heir keeps its
\* output open for ever, unless the pipe could not be handed over or the heir
\* also keeps unread input (run_external joins the input writer last).
CommandEnds == ChildGone ~> Over

=============================================================================
