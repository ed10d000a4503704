----------------------------- MODULE MCKeptJob -----------------------------
(***************************************************************************)
(* TLC instance of KeptJob for progress: the job's processes may write for *)
(* ever.                                                                   *)
(***************************************************************************)
EXTENDS KeptJob

\* Once everything written has been pumped the bytes may be counted from the
\* start again.  What was received, kept and logged is forgotten with the old
\* numbers: no guard depends on it.
Renumber ==
  /\ written = MaxWritten /\ drained = written /\ chunk = << >>
  /\ written' = 0 /\ drained' = 0 /\ exitMark' = 0
  /\ ring' = << >> /\ recv' = [c \in Conns |-> << >>]
  /\ log' = [log EXCEPT !.cur = << >>, !.old = << >>]
  /\ UNCHANGED <<child, bg, ptyIn, pumpPc, chunk, sawData, notifyTo, attach, attachGen,
                 sock, connPc, kind, token, inq, sent, pend, obs, runState, stateLock>>

\* Bound: the requests.  A resize takes the state lock as a signal does, and info
\* waits for it once.
LiveKinds == {"attach", "signal", "none"}
LiveNext == Next /\ \A c \in Conns : kind'[c] \in LiveKinds

LiveSpec == Init /\ [][LiveNext \/ Renumber]_vars /\ Fairness
=============================================================================
