---------------------------- MODULE MCProcesses ----------------------------
(***************************************************************************)
(* One TLC instance for the components of a shell that handle processes:   *)
(* the capture of one command, a pipeline, the job table and the capture   *)
(* of git.  A behaviour is a behaviour of one of them; the variables of    *)
(* the others keep a fixed value.                                          *)
(***************************************************************************)
EXTENDS Jobs, Pipeline, Captures, TLC

VARIABLES
  which        \* the component this behaviour is about

allVars == <<which, captureVars, pipelineVars, jobVars, gitVars>>

P(b, s, h, w) == [bounded |-> b, streaming |-> s, helper |-> h, writes |-> w]
MCPlans == {P(TRUE, FALSE, TRUE, {"out"}), P(FALSE, TRUE, TRUE, {"err"}),
            P(FALSE, TRUE, FALSE, {"err"})}

C(k) == [kind |-> k, odd |-> FALSE]
Odd(k) == [kind |-> k, odd |-> TRUE]
MCPipelines == [1..2 -> {C("ext"), C("shell"), C("read")}]
               \cup [1..3 -> {C("ext"), C("shell")}]
               \cup {<<Odd("ext"), C("shell")>>, <<C("ext"), Odd("shell"), C("ext")>>}

\* A command whose capture has not begun.
NoCapture ==
  /\ plan = P(FALSE, FALSE, FALSE, {}) /\ setup = <<>> /\ phase = "setup" /\ input = "none"
  /\ proc = [w \in Procs |-> "none"] /\ exited = FALSE /\ reader = [s \in Fds |-> Idle]
  /\ unread = [s \in Fds |-> <<>>] /\ got = unread /\ wrote = unread
  /\ stored = [s \in Fds |-> 0] /\ budget = 0 /\ partial = {} /\ others = 0 /\ slots = 0
  /\ worker = [s \in Fds |-> "none"]

\* An empty pipeline that has returned.
NoPipeline ==
  /\ cmds = <<>> /\ pipefail = FALSE /\ negated = FALSE /\ live = FALSE /\ st = <<>> /\ code = <<>>
  /\ failed = {} /\ full = {} /\ rd = <<>> /\ wr = <<>> /\ hand = <<>> /\ flag = {} /\ status = -1
  /\ pipestatus = <<-1>> /\ pc = "returned" /\ todo = <<>> /\ pipe = <<>>

Init ==
  \/ which = "capture" /\ CaptureInit /\ NoPipeline /\ JobsInit /\ GitInit
  \/ which = "pipeline" /\ PipelineInit /\ NoCapture /\ JobsInit /\ GitInit
  \/ which = "jobs" /\ JobsInit /\ NoCapture /\ NoPipeline /\ GitInit
  \/ which = "git" /\ GitInit /\ NoCapture /\ NoPipeline /\ JobsInit

CaptureKeeps == UNCHANGED <<which, pipelineVars, jobVars, gitVars>>
PipelineKeeps == UNCHANGED <<which, captureVars, jobVars, gitVars>>
JobKeeps == UNCHANGED <<which, captureVars, pipelineVars, gitVars>>
GitKeeps == UNCHANGED <<which, captureVars, pipelineVars, jobVars>>

Next ==
  \/ which = "capture" /\ CaptureNext /\ CaptureKeeps
  \/ which = "pipeline" /\ PipelineNext /\ PipelineKeeps
  \/ which = "jobs" /\ JobsNext /\ JobKeeps
  \/ which = "git" /\ GitNext /\ GitKeeps

\* The fairness of each component, as its module states it.
Fairness ==
  /\ WF_allVars(which = "capture" /\ ShellSteps /\ CaptureKeeps)
  /\ \A s \in {"out", "err"} :
       /\ WF_allVars(which = "capture" /\ ReaderSteps(s) /\ CaptureKeeps)
       /\ WF_allVars(which = "capture" /\ WorkerReady(s) /\ CaptureKeeps)
       /\ WF_allVars(which = "git" /\ GitReaderSteps(s) /\ GitKeeps)
       /\ WF_allVars(which = "git" /\ TimePasses(s) /\ GitKeeps)
  /\ WF_allVars(which = "pipeline" /\ ShellStep /\ PipelineKeeps)
  /\ \A k \in 1..3 :
       WF_allVars(which = "pipeline" /\ k \in Stages /\ StageStep(k) /\ PipelineKeeps)
  /\ WF_allVars(which = "git" /\ CallerSteps /\ GitKeeps)

Spec == Init /\ [][Next]_allVars /\ Fairness

-----------------------------------------------------------------------------
\* Once the direct child is gone the captured command ends (executor.rs,
\* run_external), and the caller of git returns whatever git and the processes
\* that left its group do (agent.rs, capture_command_with_limits).
CaptureEnds ==
  ((which = "capture" /\ ChildGone) \/ which = "git")
     ~> ((which = "capture" => Over) /\ (which = "git" => GitReturns))

=============================================================================
