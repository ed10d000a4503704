---------------------------- MODULE JobContract ----------------------------
(***************************************************************************)
(* What a kept job promises its clients, without threads, locks or bytes:  *)
(* its phases only move forward; at most one client holds it, the last one *)
(* to attach; nobody attaches once the child is reaped; publishing the     *)
(* exit and letting the holder go are one step.                            *)
(***************************************************************************)
EXTENDS Integers

CONSTANTS Conns, NoConn, MaxGen

VARIABLES phase, holder, epoch

contractVars == <<phase, holder, epoch>>

Init == phase = "running" /\ holder = NoConn /\ epoch = 0

\* The newest client takes the job over from whoever holds it.
Attach(c) ==
  /\ phase = "running" /\ epoch < MaxGen
  /\ holder' = c
  /\ epoch' = epoch + 1
  /\ UNCHANGED phase

\* The holder is let go: it left, failed, or lost the job to a failed attach.
Drop ==
  /\ phase # "exited"
  /\ holder' = NoConn
  /\ UNCHANGED <<phase, epoch>>

Reap ==
  /\ phase = "running"
  /\ phase' = "finishing"
  /\ UNCHANGED <<holder, epoch>>

Exit ==
  /\ phase = "finishing"
  /\ phase' = "exited"
  /\ holder' = NoConn
  /\ UNCHANGED epoch

Next == (\E c \in Conns : Attach(c)) \/ Drop \/ Reap \/ Exit

Spec == Init /\ [][Next]_contractVars
=============================================================================
