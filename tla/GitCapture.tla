----------------------------- MODULE GitCapture -----------------------------
(***************************************************************************)
(* How the agent commands (snapshot, status) run git: a child in a process *)
(* group of its own, one thread per output pipe, and a caller that watches *)
(* the child.  A helper of git's dies with the group; a process that left  *)
(* the group may keep a pipe open, and write to it, for as long as it      *)
(* likes.  A stream is a number of bytes.                                  *)
(***************************************************************************)
EXTENDS Integers, FiniteSets

CONSTANTS
  GitLimit,    \* MAX_GIT_CAPTURE_BYTES
  PostExit,    \* GIT_CAPTURE_POST_EXIT_BYTES
  Chunk,       \* bytes one read takes
  MaxWritten   \* bound: bytes written to the two streams

ASSUME GitAssumption == GitLimit \in Nat /\ Chunk \in Nat

GitStreams == {"out", "err"}
GitWriters == {"git", "helper", "escaped"}

VARIABLES
  alive,      \* the writers that run
  holds,      \* stream -> writers with its pipe open
  written,    \* stream -> bytes written
  output,     \* stream -> bytes collected
  child,      \* the direct child: "runs", "zombie", "reaped", or "gone": reaped by somebody else
  gitStatus,  \* its exit status
  abort,      \* shared flag: stop collecting
  gitExited,  \* shared flag: the direct child has exited
  gitReader,  \* stream -> [pc, saw, final, post, late, res]; pc is "none" before it is started
  caller,     \* "startOut", "startErr", "watch", "kill", "joinOut", "joinErr" or "done"
  gitFailed,  \* why the caller gives up, "none" otherwise
  result      \* "none", "ok" or "error": what snapshot is told

gitVars == <<alive, holds, written, output, child, gitStatus, abort, gitExited, gitReader, caller, gitFailed, result>>

Pending(s) == written[s] - output[s]
\* A thread that has ended has no local variables left.
ReaderAt(p, r) == [pc |-> p, saw |-> FALSE, final |-> FALSE, post |-> 0, late |-> FALSE, res |-> r]

GitInit ==
  /\ alive = {"git"} /\ holds = [s \in GitStreams |-> {"git"}]
  /\ written = [s \in GitStreams |-> 0] /\ output = [s \in GitStreams |-> 0]
  /\ child = "runs" /\ gitStatus = 0 /\ abort = FALSE /\ gitExited = FALSE
  /\ gitReader = [s \in GitStreams |-> ReaderAt("none", "none")]
  /\ caller = "startOut" /\ gitFailed = "none" /\ result = "none"

-----------------------------------------------------------------------------
(* The processes *)

Starts(w) ==
  /\ "git" \in alive /\ w \notin alive /\ \A s \in GitStreams : w \notin holds[s]
  /\ \E kept \in SUBSET GitStreams :
       /\ kept # {}
       /\ alive' = alive \cup {w}
       /\ holds' = [s \in GitStreams |-> IF s \in kept THEN holds[s] \cup {w} ELSE holds[s]]
  /\ UNCHANGED <<written, output, child, gitStatus, abort, gitExited, gitReader, caller, gitFailed, result>>

Writes(w, s) ==
  /\ w \in alive /\ w \in holds[s] /\ written["out"] + written["err"] < MaxWritten
  /\ written' = [written EXCEPT ![s] = @ + 1]
  /\ UNCHANGED <<alive, holds, output, child, gitStatus, abort, gitExited, gitReader, caller, gitFailed, result>>

\* What is left when these processes are gone.
Remove(gone) ==
  /\ alive' = alive \ gone
  /\ holds' = [s \in GitStreams |-> holds[s] \ gone]

GitExits(code) ==
  /\ child = "runs"
  /\ child' = "zombie" /\ gitStatus' = code
  /\ Remove({"git"})
  /\ UNCHANGED <<written, output, abort, gitExited, gitReader, caller, gitFailed, result>>

\* Somebody else waits for git's process first: an ignored SIGCHLD, or a reaper
\* of the program the shell is a library of.
TakenElsewhere ==
  /\ child = "zombie"
  /\ child' = "gone"
  /\ UNCHANGED <<alive, holds, written, output, gitStatus, abort, gitExited, gitReader, caller, gitFailed, result>>

-----------------------------------------------------------------------------
(* capture_pipe: one turn of the loop loads the flags, then reads *)

Ends(s, r) == gitReader' = [gitReader EXCEPT ![s] = ReaderAt("done", r)]

ReaderLoads(s) ==
  LET r == gitReader[s]
  IN /\ r.pc = "load"
     /\ IF abort \/ (gitExited /\ r.post >= PostExit) THEN Ends(s, "incomplete")
        ELSE gitReader' = [gitReader EXCEPT ![s].pc = "read", ![s].saw = gitExited]
     /\ UNCHANGED <<alive, holds, written, output, child, gitStatus, abort, gitExited, caller, gitFailed, result>>

ReaderReads(s) ==
  LET r == gitReader[s]
      n == IF Pending(s) < Chunk THEN Pending(s) ELSE Chunk
  IN /\ r.pc = "read" /\ n > 0
     /\ IF n <= GitLimit - output[s]
        THEN /\ output' = [output EXCEPT ![s] = @ + n]
             /\ gitReader' = [gitReader EXCEPT ![s].pc = "load", ![s].final = FALSE,
                                         ![s].post = IF r.saw THEN @ + n ELSE @]
             /\ UNCHANGED abort
        ELSE abort' = TRUE /\ Ends(s, "error") /\ UNCHANGED output
     /\ UNCHANGED <<alive, holds, written, child, gitStatus, gitExited, caller, gitFailed, result>>

ReaderEof(s) ==
  /\ gitReader[s].pc = "read" /\ Pending(s) = 0 /\ holds[s] = {}
  /\ Ends(s, "complete")
  /\ UNCHANGED <<alive, holds, written, output, child, gitStatus, abort, gitExited, caller, gitFailed, result>>

\* The read fails with an error that is neither WouldBlock nor Interrupted.
ReaderFails(s) ==
  /\ gitReader[s].pc = "read"
  /\ abort' = TRUE
  /\ Ends(s, "error")
  /\ UNCHANGED <<alive, holds, written, output, child, gitStatus, gitExited, caller, gitFailed, result>>

\* Nothing to read: after the exit and a tenth of a second one more read decides.
ReaderWaits(s) ==
  LET r == gitReader[s]
  IN /\ r.pc = "read" /\ Pending(s) = 0 /\ holds[s] # {}
     /\ IF r.saw /\ r.late /\ r.final THEN Ends(s, "incomplete")
        ELSE gitReader' = [gitReader EXCEPT ![s].pc = "load", ![s].final = r.saw /\ r.late]
     /\ UNCHANGED <<alive, holds, written, output, child, gitStatus, abort, gitExited, caller, gitFailed, result>>

\* GIT_CAPTURE_POST_EXIT_TIME has passed since the reader saw the exit.
TimePasses(s) ==
  /\ gitReader[s].saw /\ ~ gitReader[s].late
  /\ gitReader' = [gitReader EXCEPT ![s].late = TRUE]
  /\ UNCHANGED <<alive, holds, written, output, child, gitStatus, abort, gitExited, caller, gitFailed, result>>

-----------------------------------------------------------------------------
(* capture_command_with_limits *)

\* kill_capture_group: the group dies, the child is reaped unless it was before.
KillGroup ==
  /\ Remove({"git", "helper"})
  /\ child' = IF child = "gone" THEN "gone" ELSE "reaped"
  /\ gitStatus' = IF child = "runs" THEN 137 ELSE gitStatus

CallerStarts ==
  /\ \/ /\ caller = "startOut" /\ caller' = "startErr"
        /\ gitReader' = [gitReader EXCEPT !["out"].pc = "load"]
     \/ /\ caller = "startErr" /\ caller' = "watch"
        /\ gitReader' = [gitReader EXCEPT !["err"].pc = "load"]
  /\ UNCHANGED <<alive, holds, written, output, child, gitStatus, abort, gitExited, gitFailed, result>>

\* No first reader: there is nobody to stop or to join.
OutNotStarted ==
  /\ caller = "startOut"
  /\ KillGroup
  /\ caller' = "done" /\ gitFailed' = "start" /\ result' = "error"
  /\ UNCHANGED <<written, output, abort, gitExited, gitReader>>

\* No second reader: the first is told to stop, and joined.
ErrNotStarted ==
  /\ caller = "startErr"
  /\ abort' = TRUE
  /\ KillGroup
  /\ caller' = "joinOut" /\ gitFailed' = "start"
  /\ UNCHANGED <<written, output, gitExited, gitReader, result>>

CallerAborts ==
  /\ caller = "watch" /\ abort
  /\ KillGroup
  /\ caller' = "joinOut" /\ gitFailed' = "abort"
  /\ UNCHANGED <<written, output, abort, gitExited, gitReader, result>>

\* The deadline has passed; a reader may have set abort since the caller looked.
CallerTimesOut ==
  /\ caller = "watch"
  /\ abort' = TRUE
  /\ KillGroup
  /\ caller' = "joinOut" /\ gitFailed' = "timeout"
  /\ UNCHANGED <<written, output, gitExited, gitReader, result>>

\* The exit is seen without reaping, so the group's number is still taken.
CallerSeesExit ==
  /\ caller = "watch" /\ child = "zombie"
  /\ gitExited' = TRUE
  /\ caller' = "kill"
  /\ UNCHANGED <<alive, holds, written, output, child, gitStatus, abort, gitReader, gitFailed, result>>

\* waitid fails: with ECHILD the group's number may be anybody's and is left
\* alone, with another error the group is killed.
CallerWaitFails ==
  /\ caller = "watch" /\ child # "zombie"
  /\ abort' = TRUE
  /\ IF child = "gone" THEN UNCHANGED <<alive, holds, child, gitStatus>> ELSE KillGroup
  /\ caller' = "joinOut" /\ gitFailed' = "wait"
  /\ UNCHANGED <<written, output, gitExited, gitReader, result>>

CallerKills ==
  /\ caller = "kill"
  /\ KillGroup
  /\ caller' = "joinOut"
  /\ UNCHANGED <<written, output, abort, gitExited, gitReader, gitFailed, result>>

\* git_capture_output: only a complete capture of a successful git counts.
Outcome ==
  IF /\ gitFailed = "none" /\ child = "reaped" /\ gitStatus = 0
     /\ \A s \in GitStreams : gitReader[s].res = "complete"
  THEN "ok" ELSE "error"

\* After an exit an error of the first reader is returned at once, with the
\* second reader unjoined; the other routes join whatever was started.
CallerJoinsOut ==
  /\ caller = "joinOut" /\ gitReader["out"].pc = "done"
  /\ IF gitFailed = "start" \/ (gitFailed = "none" /\ gitReader["out"].res = "error")
     THEN caller' = "done" /\ result' = "error"
     ELSE caller' = "joinErr" /\ UNCHANGED result
  /\ UNCHANGED <<alive, holds, written, output, child, gitStatus, abort, gitExited, gitReader, gitFailed>>

CallerJoinsErr ==
  /\ caller = "joinErr" /\ gitReader["err"].pc = "done"
  /\ caller' = "done" /\ result' = Outcome
  /\ UNCHANGED <<alive, holds, written, output, child, gitStatus, abort, gitExited, gitReader, gitFailed>>

GitReaderSteps(s) == ReaderLoads(s) \/ ReaderReads(s) \/ ReaderEof(s) \/ ReaderWaits(s)
CallerSteps ==
  \/ CallerStarts \/ OutNotStarted \/ ErrNotStarted
  \/ CallerAborts \/ CallerTimesOut \/ CallerSeesExit \/ CallerWaitFails \/ CallerKills
  \/ CallerJoinsOut \/ CallerJoinsErr

GitNext ==
  \/ \E w \in {"helper", "escaped"} : Starts(w)
  \/ \E w \in GitWriters, s \in GitStreams : Writes(w, s)
  \/ \E c \in {0, 1} : GitExits(c)
  \/ TakenElsewhere
  \/ \E s \in GitStreams : GitReaderSteps(s) \/ ReaderFails(s) \/ TimePasses(s)
  \/ CallerSteps

\* The threads run, the deadline passes, and so does the tenth of a second.
GitFairness ==
  /\ WF_gitVars(CallerSteps)
  /\ \A s \in GitStreams : WF_gitVars(GitReaderSteps(s)) /\ WF_gitVars(TimePasses(s))

GitSpec == GitInit /\ [][GitNext]_gitVars /\ GitFairness

-----------------------------------------------------------------------------
\* What snapshot is told succeeded was read to its end: every byte of both
\* streams, no process left that could still write, the child reaped.  Whatever
\* it is told and whichever step failed, no stream grew past the limit, the child
\* is reaped and its group dead unless somebody else had reaped it, and a reader
\* that is still there has been told to stop: the one the caller does not join
\* when the other's error is returned first (agent.rs, capture_pipe,
\* capture_command_with_limits, git_capture_output).
GitTruthful ==
  /\ \A s \in GitStreams : output[s] <= GitLimit
  /\ result = "ok" => /\ child = "reaped"
                      /\ \A s \in GitStreams : output[s] = written[s] /\ holds[s] = {}
  /\ caller = "done" => /\ \/ child = "reaped" /\ alive \subseteq {"escaped"}
                           \/ child = "gone" /\ "git" \notin alive /\ result = "error"
                        /\ \A s \in GitStreams : gitReader[s].pc \in {"none", "done"} \/ abort

\* The caller returns and both readers end, also when a process outside the group
\* keeps a pipe open and one reader was not joined.
GitReturns == caller = "done" /\ \A s \in GitStreams : gitReader[s].pc \in {"none", "done"}
=============================================================================
