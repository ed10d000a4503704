------------------------------ MODULE Captures ------------------------------
(***************************************************************************)
(* The two places where a shell collects the output of a process it        *)
(* started: the capture of an external command (Capture.tla) and of git    *)
(* run by the agent commands (GitCapture.tla).  They share no state; what  *)
(* their callers rely on is the same.                                      *)
(***************************************************************************)
EXTENDS Capture, GitCapture

CapturesSpec == CaptureSpec /\ GitSpec

\* A capture that calls itself complete holds every byte written to the stream,
\* nobody who outlives the command loses a reader and the slots are exactly the
\* readers and workers alive (Capture.tla).  What snapshot is told succeeded is
\* the whole of what git wrote, and nothing of git's group is left when it is
\* told anything (GitCapture.tla).
CaptureTruthful == CommandTruthful /\ LiveWriterHasReader /\ GitTruthful
=============================================================================
