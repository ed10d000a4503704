------------------------------ MODULE Pipeline ------------------------------
(***************************************************************************)
(* A pipeline of agsh (agsh-exec/src/executor.rs, run_pipeline): which of  *)
(* the six ways of running it is chosen, in which order its stages start,  *)
(* who holds which end of which pipe, what happens when a stage cannot be  *)
(* started, and in which order the stages are waited for.                  *)
(*                                                                         *)
(* A stage is an external program ("ext": a child process), a command the  *)
(* shell runs itself ("shell": a thread, or the shell's own thread when it *)
(* is last), or a quoted `read` ("read"), which only the expanded command  *)
(* line shows to be a builtin.  A stage produces or passes on abstract     *)
(* items.  Capture.tla models the reader of one captured stream.           *)
(***************************************************************************)
EXTENDS Integers, Sequences, FiniteSets

CONSTANTS
  Pipelines,   \* the pipelines considered: sequences of [kind, odd]
  Codes,       \* exit codes of a stage
  Items,       \* bound: items the first stage produces
  Room         \* items a pipe holds

Shell == 0   \* the shell itself, as a holder of pipe ends

VARIABLES
  cmds,      \* the stages
  pipefail, negated,
  live,      \* output goes to a destination an enclosing command chose, so no
             \* stage is captured
  todo,      \* stages still to start, in order
  st,        \* each stage: "none", "run", "ended", "waited"
  code,      \* exit code of each stage
  failed,    \* shell stages whose thread returned an error
  full,      \* shell stages whose standard error did not fit into what is captured
  rd, wr,    \* for each pipe k -> k+1: who holds its reading and writing end
  pipe,      \* items in each pipe
  hand,      \* items each stage still has to write
  flag,      \* shell stages told to stop (interrupt)
  pc,        \* what run_pipeline is doing
  status,    \* the pipeline's exit code; -1 for an error
  pipestatus \* the PIPESTATUS array; <<-1>> is what an earlier command left

pipelineVars == <<cmds, pipefail, negated, live, todo, st, code, failed, full, rd, wr, pipe, hand,
                  flag, pc, status, pipestatus>>

N == Len(cmds)
Stages == 1..N
Ext(k) == cmds[k].kind = "ext"

-----------------------------------------------------------------------------
(* Which way of running is chosen (the six resolve_* functions in order).  *)

\* command_invocation_accepts_streaming_stdin: looks at unexpanded words, so a
\* quoted builtin does not count.
AcceptsStreaming(p, k) == p[k].kind = "shell"

ShellIndices(p) == {k \in DOMAIN p : AcceptsStreaming(p, k)}

Contiguous(S) == \A a, b \in S : \A k \in a..b : k \in S

\* An external command with redirections the streaming runners support.
Streams(p, k) == p[k].kind = "ext" /\ ~p[k].odd

\* resolve_streaming_mixed_shell_stage_pipeline.
ResolvesMixed(p) ==
  LET S == ShellIndices(p) IN
  /\ S # {} /\ Len(p) \notin S
  /\ 1 \in S \/ ~Contiguous(S)
  /\ \A k \in DOMAIN p : IF k \in S THEN ~p[k].odd ELSE Streams(p, k)

\* resolve_streaming_external_shell_stage_pipeline.
ResolvesShellStages(p) ==
  LET S == ShellIndices(p) IN
  /\ Len(p) >= 3 /\ S # {} /\ 1 \notin S /\ Len(p) \notin S
  /\ Contiguous(S)
  /\ \A k \in DOMAIN p : IF k \in S THEN ~p[k].odd ELSE Streams(p, k)

\* resolve_streaming_external_prefix_to_final_shell_command.
ResolvesFinalShell(p) ==
  /\ AcceptsStreaming(p, Len(p))
  /\ \A k \in 1..(Len(p) - 1) : Streams(p, k)

\* resolve_streaming_external_prefix_to_final_read.
ResolvesFinalRead(p) ==
  /\ p[Len(p)].kind = "read" /\ ~p[Len(p)].odd
  /\ \A k \in 1..(Len(p) - 1) : Streams(p, k)

\* resolve_streaming_external_pipeline.
ResolvesExternal(p) == \A k \in DOMAIN p : Streams(p, k)

\* run_pipeline: the first that applies; else one stage after the other.
RouteOf(p) ==
  IF ResolvesMixed(p) THEN "mixed"
  ELSE IF ResolvesShellStages(p) THEN "stages"
  ELSE IF ResolvesFinalShell(p) THEN "final"
  ELSE IF ResolvesFinalRead(p) THEN "read"
  ELSE IF ResolvesExternal(p) THEN "external"
  ELSE "buffered"

\* Without capture, shell stages between external ones run as mixed stages.
RunnerOf(p, uncaptured) ==
  IF uncaptured /\ RouteOf(p) = "stages" THEN "mixed" ELSE RouteOf(p)

Route == RunnerOf(cmds, live)

\* Stages that are children or threads of their own.
Spawned(p) ==
  CASE RouteOf(p) \in {"final", "read"} -> 1..(Len(p) - 1)
    [] RouteOf(p) = "buffered" -> {}
    [] OTHER -> DOMAIN p

\* Shell stages in the middle are started last, after both external ends.
StartOrder(p, runner) ==
  LET all == [k \in 1..Len(p) |-> k]
  IN IF runner # "stages" THEN SelectSeq(all, LAMBDA k : k \in Spawned(p))
     ELSE SelectSeq(all, LAMBDA k : k \notin ShellIndices(p))
          \o SelectSeq(all, LAMBDA k : k \in ShellIndices(p))

-----------------------------------------------------------------------------
PipelineInit ==
  /\ cmds \in Pipelines
  /\ pipefail \in BOOLEAN /\ negated = FALSE
  /\ live \in BOOLEAN
  /\ todo = StartOrder(cmds, RunnerOf(cmds, live))
  /\ st = [k \in Stages |-> "none"]
  /\ code = [k \in Stages |-> 0]
  /\ failed = {} /\ full = {}
  /\ rd = [k \in 1..(N - 1) |-> {}]
  /\ wr = [k \in 1..(N - 1) |-> {}]
  /\ pipe = [k \in 1..(N - 1) |-> 0]
  /\ hand = [k \in Stages |-> IF k = 1 THEN Items ELSE 0]
  /\ flag = {}
  /\ pc = IF Route = "buffered" THEN "buffered" ELSE "start"
  /\ status = -1
  /\ pipestatus = <<-1>>

InPipe(k) == k - 1      \* the pipe a stage reads
OutPipe(k) == k         \* the pipe a stage writes

\* A holder lets go of every end it has.
Closed(ends, h) == [k \in DOMAIN ends |-> ends[k] \ {h}]

-----------------------------------------------------------------------------
(* The stages.                                                             *)

Running(k) == st[k] = "run"

\* Nobody reads what a stage writes: an external program dies of SIGPIPE, a
\* shell stage stops quietly (emit_streaming_stdout).
Reads(k) == k = N \/ rd[OutPipe(k)] # {}

EndStage(k, c, err) ==
  /\ st' = [st EXCEPT ![k] = "ended"]
  /\ code' = [code EXCEPT ![k] = c]
  /\ failed' = IF err THEN failed \cup {k} ELSE failed
  /\ rd' = Closed(rd, k) /\ wr' = Closed(wr, k)

\* A stage writes an item, or finds its reader gone.
WriteItem(k) ==
  /\ Running(k) /\ hand[k] > 0
  /\ IF ~Reads(k)
     THEN /\ EndStage(k, IF Ext(k) THEN 141 ELSE 0, FALSE)
          /\ UNCHANGED <<pipe, hand>>
     ELSE /\ IF k = N THEN TRUE ELSE pipe[OutPipe(k)] < Room
          /\ pipe' = IF k = N THEN pipe ELSE [pipe EXCEPT ![OutPipe(k)] = @ + 1]
          /\ hand' = [hand EXCEPT ![k] = @ - 1]
          /\ UNCHANGED <<st, code, failed, rd, wr>>
  /\ UNCHANGED <<cmds, pipefail, negated, live, todo, full, flag, pc, status, pipestatus>>

\* A stage reads an item from the stage before it.
ReadItem(k) ==
  /\ Running(k) /\ hand[k] = 0 /\ k > 1 /\ k \in rd[InPipe(k)]
  /\ pipe[InPipe(k)] > 0
  /\ pipe' = [pipe EXCEPT ![InPipe(k)] = @ - 1]
  /\ hand' = [hand EXCEPT ![k] = 1]
  /\ UNCHANGED <<cmds, pipefail, negated, live, todo, st, code, failed, full, rd, wr, flag,
                 pc, status, pipestatus>>

\* A read of an empty pipe that somebody can still write to.
AwaitsInput(k) ==
  IF k = 1 THEN FALSE
  ELSE k \in rd[InPipe(k)] /\ wr[InPipe(k)] # {} /\ pipe[InPipe(k)] = 0

\* A stage ends by itself when it is not blocked; a shell stage may end in an
\* error (a nested capture without a slot, a failing expansion).
Quit(k) ==
  /\ Running(k) /\ hand[k] = 0
  /\ ~AwaitsInput(k)
  /\ \E c \in Codes, err \in BOOLEAN :
       /\ err => ~Ext(k)
       /\ EndStage(k, IF err THEN 1 ELSE c, err)
  /\ UNCHANGED <<cmds, pipefail, negated, live, todo, full, pipe, hand, flag, pc, status, pipestatus>>

-----------------------------------------------------------------------------
(* Starting.                                                               *)

\* The shell as if it kept its copy of the writing end after the spawn.
WireMutant(k) ==
  /\ rd' = [i \in DOMAIN rd |->
       IF i = InPipe(k) THEN (rd[i] \ {Shell}) \cup {k}
       ELSE IF i = OutPipe(k) /\ k + 1 \in Spawned(cmds) \cup {N} /\ rd[i] = {}
            THEN {Shell} ELSE rd[i]]
  /\ wr' = [i \in DOMAIN wr |->
       IF i = OutPipe(k) THEN wr[i] \cup {k, Shell} ELSE wr[i]]

\* The ends a starting stage takes over, and what the shell keeps for the next.
Wire(k) ==
  /\ rd' = [i \in DOMAIN rd |->
       IF i = InPipe(k) THEN (rd[i] \ {Shell}) \cup {k}
       ELSE IF i = OutPipe(k) /\ k + 1 \in Spawned(cmds) \cup {N} /\ rd[i] = {}
            THEN {Shell} ELSE rd[i]]
  /\ wr' = [i \in DOMAIN wr |->
       IF i = OutPipe(k) THEN (wr[i] \ {Shell}) \cup {k} ELSE wr[i]]

\* With shell stages in the middle, their output pipes exist before any of
\* them, or the suffix, is started.
MakeShellPipes ==
  /\ pc = "start" /\ Route = "stages"
  /\ todo # <<>> /\ \A k \in ShellIndices(cmds) : wr[OutPipe(k)] = {}
  /\ \A k \in Stages : k < Head(todo) /\ k \notin ShellIndices(cmds) => st[k] # "none"
  /\ \E k \in ShellIndices(cmds) : k < Head(todo)
  /\ rd' = [i \in DOMAIN rd |-> IF i \in ShellIndices(cmds) THEN {Shell} ELSE rd[i]]
  /\ wr' = [i \in DOMAIN wr |-> IF i \in ShellIndices(cmds) THEN {Shell} ELSE wr[i]]
  /\ UNCHANGED <<cmds, pipefail, negated, live, todo, st, code, failed, full, pipe, hand,
                 flag, pc, status, pipestatus>>

PipesReady(k) ==
  Route = "stages" /\ (\E j \in ShellIndices(cmds) : j < k) =>
    \A j \in ShellIndices(cmds) : wr[OutPipe(j)] # {}

\* The next stage takes its pipe ends and runs.
Begin(among) ==
  /\ pc = "start" /\ todo # <<>> /\ PipesReady(Head(todo))
  /\ Head(todo) \in among
  /\ Wire(Head(todo))
  /\ st' = [st EXCEPT ![Head(todo)] = "run"]
  /\ todo' = Tail(todo)
  /\ UNCHANGED <<cmds, pipefail, negated, live, code, failed, full, pipe, hand, flag,
                 pc, status, pipestatus>>

\* A program in front of the first shell stage.
InPrefix(k) == Ext(k) /\ \A j \in 1..k : Ext(j)
Externals == {k \in Stages : Ext(k)}

StartExternalStage == Route = "external" /\ ~live /\ Begin(Externals)
StartLiveExternalStage == Route = "external" /\ live /\ Begin(Externals)
StartMixedStage == Route = "mixed" /\ ~live /\ Begin(Stages)
StartLiveMixedStage == Route = "mixed" /\ live /\ Begin(Stages)
StartPrefixStage == Route = "stages" /\ Begin({k \in Stages : InPrefix(k)})
StartSuffixStage == Route = "stages" /\ Begin({k \in Externals : ~InPrefix(k)})
StartShellStage == Route = "stages" /\ Begin(Stages \ Externals)
StartFinalPrefixStage == Route = "final" /\ ~live /\ Begin(Externals)
StartReadPrefixStage == Route = "read" /\ ~live /\ Begin(Externals)
StartLivePrefixStage == Route \in {"final", "read"} /\ live /\ Begin(Externals)

StartStage ==
  \/ StartExternalStage \/ StartLiveExternalStage \/ StartMixedStage
  \/ StartLiveMixedStage \/ StartPrefixStage \/ StartSuffixStage \/ StartShellStage
  \/ StartFinalPrefixStage \/ StartReadPrefixStage \/ StartLivePrefixStage

\* A stage that cannot be spawned, or that is spawned but whose output cannot
\* be captured.  Its own ends are dropped with it.
StartFails ==
  /\ pc = "start" /\ todo # <<>> /\ PipesReady(Head(todo))
  /\ LET k == Head(todo)
         dropped == [i \in DOMAIN rd |->
             IF i \in {InPipe(k), OutPipe(k)} THEN rd[i] \ {Shell} ELSE rd[i]]
     IN \/ /\ rd' = dropped
           /\ wr' = [i \in DOMAIN wr |->
                IF i = OutPipe(k) THEN wr[i] \ {Shell} ELSE wr[i]]
           /\ UNCHANGED st
        \/ /\ Ext(k) /\ ~live /\ Wire(k)
           /\ st' = [st EXCEPT ![k] = "run"]
  /\ pc' = "cleanup"
  /\ UNCHANGED <<cmds, pipefail, negated, live, todo, code, failed, full, pipe, hand, flag,
                 status, pipestatus>>

\* The pipe for a stage's output cannot be created: the shell cleans up while it
\* still holds the reading end meant for that stage.  Captured external stages
\* get theirs from the spawn.
PipeFails ==
  /\ pc = "start" /\ todo # <<>>
  /\ IF live THEN Head(todo) # N
     ELSE ~PipesReady(Head(todo)) \/ (Route = "mixed" /\ ~Ext(Head(todo)))
  /\ pc' = "cleanup"
  /\ UNCHANGED <<cmds, pipefail, negated, live, todo, st, code, failed, full, rd, wr, pipe,
                 hand, flag, status, pipestatus>>

-----------------------------------------------------------------------------
(* Cleaning up (terminate_children, terminate_running_streaming_stages).   *)

Live == {k \in Stages : st[k] = "run" \/ st[k] = "ended"}

\* Only the threads are told; the children are left to themselves.
KillStagesMutant ==
  /\ pc = "cleanup"
  /\ flag' = {k \in Live : ~Ext(k)}
  /\ pc' = "joining"
  /\ UNCHANGED <<cmds, pipefail, negated, live, todo, st, code, failed, full, rd, wr, pipe,
                 hand, status, pipestatus>>

\* Shell stages are told to stop, external ones are killed and reaped; stages
\* not yet started give up the ends the shell made for them.
KillStages ==
  /\ pc = "cleanup"
  /\ LET kids == {k \in Live : Ext(k)} IN
       /\ st' = [k \in Stages |-> IF k \in kids THEN "waited" ELSE st[k]]
       /\ code' = [k \in Stages |-> IF k \in kids /\ Running(k) THEN 137 ELSE code[k]]
       /\ flag' = {k \in Live : ~Ext(k)}
       /\ rd' = [i \in DOMAIN rd |-> (rd[i] \ kids)
                   \ (IF Route = "stages" THEN {Shell} ELSE {})]
       /\ wr' = [i \in DOMAIN wr |-> (wr[i] \ kids)
                   \ (IF Route = "stages" THEN {Shell} ELSE {})]
  /\ pc' = "joining"
  /\ UNCHANGED <<cmds, pipefail, negated, live, todo, failed, full, pipe, hand, status, pipestatus>>

\* The threads are joined, their flags restored, and the error is returned,
\* which drops whatever the shell still holds.
CleanedUp ==
  /\ pc = "joining"
  /\ \A k \in Live : ~Ext(k) => st[k] = "ended"
  /\ st' = [k \in Stages |-> IF k \in Live /\ ~Ext(k) THEN "waited" ELSE st[k]]
  /\ flag' = {}
  /\ rd' = Closed(rd, Shell) /\ wr' = Closed(wr, Shell)
  /\ pc' = "returned"
  /\ UNCHANGED <<cmds, pipefail, negated, live, todo, code, failed, full, pipe, hand,
                 status, pipestatus>>

-----------------------------------------------------------------------------
(* Waiting.                                                                *)

\* Every stage is started; what is last in the shell runs in the shell itself.
AllStarted ==
  /\ pc = "start" /\ todo = <<>>
  /\ pc' = IF Route \in {"final", "read"} THEN "last" ELSE "wait"
  /\ IF Route \in {"final", "read"}
     THEN rd' = [rd EXCEPT ![N - 1] = {N}] /\ st' = [st EXCEPT ![N] = "run"]
     ELSE rd' = Closed(rd, Shell) /\ UNCHANGED st
  /\ UNCHANGED <<cmds, pipefail, negated, live, todo, code, failed, full, wr, pipe, hand,
                 flag, status, pipestatus>>

\* The last stage has ended and dropped its input; now the prefix is waited for.
LastDone ==
  /\ pc = "last" /\ st[N] = "ended"
  /\ pc' = "wait"
  /\ st' = [st EXCEPT ![N] = "waited"]
  /\ UNCHANGED <<cmds, pipefail, negated, live, todo, code, failed, full, rd, wr, pipe, hand,
                 flag, status, pipestatus>>

\* The order in which stages are waited for: left to right, except that shell
\* stages between external ones are joined first.
WaitsBefore(j, k) ==
  IF Route = "stages" /\ (j \in ShellIndices(cmds) <=> k \notin ShellIndices(cmds))
  THEN j \in ShellIndices(cmds) ELSE j < k

Unwaited == {k \in Stages : st[k] # "waited"}

\* The next stage has ended and is waited for or joined.
CollectStage(onError) ==
  /\ pc = "wait"
  /\ \E k \in Unwaited :
       /\ \A j \in Unwaited \ {k} : WaitsBefore(k, j)
       /\ st[k] = "ended"
       /\ st' = [st EXCEPT ![k] = "waited"]
       /\ pc' = IF k \in failed THEN onError ELSE "wait"
  /\ UNCHANGED <<cmds, pipefail, negated, live, todo, code, failed, full, rd, wr, pipe,
                 hand, flag, status, pipestatus>>

\* append_stderr at MAX_AGGREGATE_CAPTURE_BYTES: what the next stage, a shell one,
\* has said does not fit, and the loop is left with the error.
StderrFull ==
  /\ pc = "wait" /\ ~live
  /\ \E k \in Unwaited :
       /\ \A j \in Unwaited \ {k} : WaitsBefore(k, j)
       /\ st[k] = "ended" /\ ~Ext(k) /\ k \notin failed
       /\ st' = [st EXCEPT ![k] = "waited"]
       /\ full' = {k}
  /\ pc' = "returned"
  /\ UNCHANGED <<cmds, pipefail, negated, live, todo, code, failed, rd, wr, pipe,
                 hand, flag, status, pipestatus>>

\* Shell stages between external ones: an error is returned at once (`??`).  With
\* stages of both kinds the error of a thread waits for the others, the limit on
\* what is captured does not.
WaitShellStages == Route = "stages" /\ CollectStage("returned")
WaitMixed == Route = "mixed" /\ (CollectStage("wait") \/ StderrFull)
WaitExternal == Route = "external" /\ CollectStage("wait")
WaitPrefix == Route \in {"final", "read"} /\ CollectStage("wait")
WaitStage == WaitShellStages \/ WaitMixed \/ WaitExternal \/ WaitPrefix

\* pipeline_exit_code, apply_pipeline_negation.
PipelineExitCode(codes) ==
  LET bad == {k \in DOMAIN codes : codes[k] # 0}
      raw == IF ~pipefail THEN codes[Len(codes)]
             ELSE IF bad = {} THEN 0 ELSE codes[CHOOSE k \in bad : \A j \in bad : j <= k]
  IN IF ~negated THEN raw ELSE IF raw = 0 THEN 1 ELSE 0

\* Only these runners call record_pipestatus.
Records == Route \in {"external", "buffered"}

Return ==
  /\ pc = "wait" /\ Unwaited = {}
  /\ pc' = "returned"
  /\ pipestatus' = IF failed = {} /\ Records THEN code ELSE pipestatus
  /\ \/ failed = {} /\ status' = PipelineExitCode(code)
     \/ UNCHANGED status   \* a thread's error, or a reader's, or the limit
  /\ UNCHANGED <<cmds, pipefail, negated, live, todo, st, code, failed, full, rd, wr, pipe,
                 hand, flag>>

\* One stage after the other, each with the whole output of the one before as
\* its input; an error ends the pipeline.
BufferedStage ==
  /\ pc = "buffered"
  /\ LET k == CHOOSE j \in Stages : st[j] = "none" /\ \A i \in 1..(j - 1) : st[i] # "none"
     IN \/ /\ \E c \in Codes :
                /\ code' = [code EXCEPT ![k] = c]
                /\ IF k < N THEN UNCHANGED <<pc, status, pipestatus>>
                   ELSE /\ pc' = "returned"
                        /\ status' = PipelineExitCode([code EXCEPT ![k] = c])
                        /\ pipestatus' = [code EXCEPT ![k] = c]
           /\ st' = [st EXCEPT ![k] = "waited"]
           /\ UNCHANGED failed
        \/ /\ pc' = "returned"
           /\ failed' = {k}
           /\ st' = [st EXCEPT ![k] = "waited"]
           /\ UNCHANGED <<code, status, pipestatus>>
  /\ UNCHANGED <<cmds, pipefail, negated, live, todo, full, rd, wr, pipe, hand, flag>>

StageStep(k) == WriteItem(k) \/ ReadItem(k) \/ Quit(k)
ShellStep == \/ MakeShellPipes \/ StartStage \/ KillStages \/ CleanedUp
             \/ AllStarted \/ LastDone \/ WaitStage \/ Return \/ BufferedStage

PipelineNext ==
  \/ \E k \in Stages : WriteItem(k) \/ ReadItem(k) \/ Quit(k)
  \/ StartFails \/ PipeFails
  \/ ShellStep

\* The shell and every stage that can go on do; a stage reads its input to the
\* end or quits.
PipelineFairness ==
  /\ WF_pipelineVars(ShellStep)
  /\ \A k \in 1..4 : WF_pipelineVars(k \in Stages /\ StageStep(k))

PipelineSpec == PipelineInit /\ [][PipelineNext]_pipelineVars /\ PipelineFairness

-----------------------------------------------------------------------------
(* What must hold.                                                         *)

Loose == {k \in Stages : st[k] \in {"run", "ended"}}

\* The stages whose error is returned before the ones after them are waited for:
\* a failing shell stage between external ones, and a shell stage of a mixed
\* pipeline whose standard error does not fit.
ReturnedEarly ==
  {k \in Stages : k \in full \/ (Route = "stages" /\ k \in failed /\ st[k] = "waited")}

\* When run_pipeline returns, with a status or with an error, every stage it
\* started has been waited for, whichever stage failed to start, except those
\* that come after one of the two early returns in the order of waiting
\* (executor.rs, run_streaming_external_shell_stage_pipeline, and append_stderr
\* in run_streaming_mixed_shell_stage_pipeline); what comes before them is never
\* left.  And where the statuses are recorded, PIPESTATUS is this pipeline's.
StagesReaped ==
  pc = "returned" =>
    /\ \A k \in Loose : \E j \in ReturnedEarly : WaitsBefore(j, k)
    /\ status # -1 /\ Records => pipestatus = code

Returned ==
  \/ pc = "returned"
  \/ /\ pc = "joining"
     /\ \E k \in Stages : ~Ext(k) /\ k < N /\ rd[OutPipe(k)] = {Shell}

\* A pipeline always returns: no stage waits for ever for an end of input or a
\* reader that the shell itself withholds, except in the clean-up after a
\* pipe() failure, which joins a shell stage while it still holds the reading
\* end of that stage's output.
PipelineReturns == <>Returned
=============================================================================
