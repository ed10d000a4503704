--------------------------- MODULE Substitutions ---------------------------
(***************************************************************************)
(* Substitutions: $(...) and <(...) of agsh-exec (executor.rs).            *)
(*                                                                         *)
(* A line is a graph, and so are the text of a substitution, the body of a *)
(* compound or a function and the inside of a subshell: run_graph is       *)
(* entered again for each.  A substitution runs its graph on a clone of    *)
(* the shell, to the end, before the command it belongs to starts.  What   *)
(* it wrote on stderr waits in the shell until that command is ready; what *)
(* <(...) wrote on stdout waits in a private file whose path the command   *)
(* is given.  The files are removed when the graph that made them ends,    *)
(* with an outcome or with an error.  A command of a pipeline that is not  *)
(* its last and that the shell runs itself is expanded and run on a clone  *)
(* without a graph of its own ("stage").                                   *)
(*                                                                         *)
(* A piece of stderr is a number, in the order the pieces are said.        *)
(***************************************************************************)
EXTENDS Naturals, Sequences, SequencesExt

CONSTANTS
  MaxDepth,    \* MAX_EXEC_DEPTH (state.rs): how deep graphs may nest
  Limit,       \* MAX_IN_MEMORY_CAPTURE_BYTES of substitution stderr, in pieces
  Names,       \* the paths a private file may have
  Kinds,       \* the graphs a command may contain, beside "cmd" and "proc"
  MaxItems,    \* bound: commands in one graph
  MaxOpen,     \* bound: graphs and stages inside one another
  MaxSaid      \* bound: pieces of stderr in a behaviour

VARIABLES
  graphs,      \* the graphs being run, the innermost last
  shells,      \* the ShellStates they run on: clones of one another
  files,       \* the private files on disk
  shown,       \* what reached the terminal
  said,        \* how many pieces were written, by whom ever
  excused,     \* the pieces dropped with a command cut short or with a stage's clone
  lost         \* the files only the clone of a finished stage knew

vars == <<graphs, shells, files, shown, said, excused, lost>>

Top == Last(graphs)
Shell == Last(shells)
SetTop(g) == [graphs EXCEPT ![Len(graphs)] = g]
SetShell(s) == [shells EXCEPT ![Len(shells)] = s]
Cloned(kind) == kind \in {"cmd", "proc", "subshell", "stage"}
Depth == Len(SelectSeq(graphs, LAMBDA g : g.kind # "stage"))

Init ==
  /\ graphs = <<>>
  /\ shells = <<[temps |-> <<>>, pending |-> <<>>]>>
  /\ files = {}
  /\ shown = <<>>
  /\ said = 0
  /\ excused = {} /\ lost = {}

\* An error returned from a command: what was said until now may be dropped with
\* the outcome that held it.
Excuse == excused' = 1..said

-----------------------------------------------------------------------------
(* run_graph *)

\* ShellState::enter_exec, ShellState::clone and the start of run_graph: the
\* paths of the enclosing graphs stay registered.  A substitution's clone starts
\* with no stderr of its caller.
enter(kind, live) ==
  LET of == IF graphs = <<>> THEN Shell ELSE
              IF kind \in {"cmd", "proc"} THEN [Shell EXCEPT !.pending = <<>>] ELSE Shell
  IN /\ Depth < MaxDepth /\ Len(graphs) < MaxOpen
     /\ graphs' = Append(graphs,
          [kind |-> kind, live |-> live, inherited |-> of.temps, phase |-> "between",
           held |-> <<>>, item |-> <<>>, out |-> <<>>, private |-> <<>>, argv |-> {},
           left |-> MaxItems])
     /\ shells' = IF Cloned(kind) THEN Append(shells, of) ELSE shells

Line ==
  /\ graphs = <<>>
  /\ \E live \in BOOLEAN : enter("line", live)
  /\ UNCHANGED <<files, shown, said, excused, lost>>

\* A word of the command is $(...) or <(...).
Substitute ==
  /\ graphs # <<>> /\ Top.phase = "expanding"
  /\ \E kind \in {"cmd", "proc"} : enter(kind, FALSE)
  /\ UNCHANGED <<files, shown, said, excused, lost>>

\* The command is a compound, a function or a subshell; its output is live only
\* if the command's is.  A for, select or case, whose words may have left stderr
\* behind, is no subshell.
RunBody ==
  /\ graphs # <<>> /\ Top.phase = "running"
  /\ \E kind \in IF Shell.pending = <<>> THEN Kinds ELSE Kinds \ {"subshell"}, live \in {FALSE, Top.live} : enter(kind, live)
  /\ UNCHANGED <<files, shown, said, excused, lost>>

\* The item is a pipeline and this is one of its commands but the last, run by the
\* shell itself: expanded and run on a clone.  The clone's copy of what the other
\* commands' words said is never shown.
RunStage ==
  /\ graphs # <<>> /\ Top.phase = "running" /\ Top.kind # "stage" /\ Len(graphs) < MaxOpen
  /\ \E live \in {FALSE, Top.live} :
       graphs' = Append(graphs,
         [kind |-> "stage", live |-> live, inherited |-> Shell.temps, phase |-> "expanding",
          held |-> <<>>, item |-> <<>>, out |-> <<>>, private |-> <<>>, argv |-> {}, left |-> 0])
  /\ shells' = Append(shells, [Shell EXCEPT !.pending = <<>>])
  /\ UNCHANGED <<files, shown, said, excused, lost>>

\* enter_exec refuses: the command that wanted the graph fails.
TooDeep ==
  /\ graphs # <<>> /\ Top.phase \in {"expanding", "running"}
  /\ Depth = MaxDepth
  /\ graphs' = SetTop([Top EXCEPT !.phase = "failed"])
  /\ Excuse
  /\ UNCHANGED <<shells, files, shown, said, lost>>

-----------------------------------------------------------------------------
(* run_pipeline_item *)

\* The stderr of the caller's expansions is held out of the command's reach.
StartItem ==
  /\ graphs # <<>> /\ Top.phase = "between" /\ Top.left > 0
  /\ graphs' = SetTop([Top EXCEPT !.phase = "expanding", !.held = Shell.pending,
                                  !.item = <<>>, !.argv = {}, !.left = @ - 1])
  /\ shells' = SetShell([Shell EXCEPT !.pending = <<>>])
  /\ UNCHANGED <<files, shown, said, excused, lost>>

\* take_pre_invocation_substitution_stderr and prepare_pre_invocation_prefix: a
\* simple command's substitutions speak before it does, at once when it is live.
Expanded ==
  /\ graphs # <<>> /\ Top.phase = "expanding" /\ Top.kind # "stage"
  /\ LET prefix == Shell.pending IN
       /\ shells' = SetShell([Shell EXCEPT !.pending = <<>>])
       /\ graphs' = SetTop([Top EXCEPT !.phase = "running",
                                       !.item = IF Top.live THEN @ ELSE @ \o prefix])
       /\ shown' = IF Top.live THEN shown \o prefix ELSE shown
  /\ UNCHANGED <<files, said, excused, lost>>

\* The words of a for, a select or a case, or of a pipeline's commands, are expanded
\* before it runs, and what they said waits until the command is over.
WordsExpanded ==
  /\ graphs # <<>> /\ Top.phase = "expanding"
  /\ graphs' = SetTop([Top EXCEPT !.phase = "running"])
  /\ UNCHANGED <<shells, files, shown, said, excused, lost>>

\* The command writes on its stderr.  Inside a substitution that is either its
\* captured outcome or, for what writes to the inherited stream, the private pipe.
Say ==
  /\ graphs # <<>> /\ Top.phase = "running" /\ said < MaxSaid
  /\ said' = said + 1
  /\ \/ /\ Top.live
        /\ shown' = Append(shown, said')
        /\ UNCHANGED graphs
     \/ /\ ~Top.live
        /\ \/ graphs' = SetTop([Top EXCEPT !.item = Append(@, said')])
           \/ /\ Top.kind \in {"cmd", "proc"}
              /\ graphs' = SetTop([Top EXCEPT !.private = Append(@, said')])
        /\ UNCHANGED shown
  /\ UNCHANGED <<shells, files, excused, lost>>

\* The command is over: what its expansion still holds goes in front of its own
\* output, and the caller's stderr is given back.
ItemDone(own) ==
  /\ graphs' = SetTop([Top EXCEPT !.phase = "between", !.held = <<>>, !.item = <<>>,
                                  !.argv = {}, !.out = @ \o Shell.pending \o own])
  /\ shells' = SetShell([Shell EXCEPT !.pending = Top.held])

EndItem ==
  /\ graphs # <<>> /\ Top.phase = "running" /\ Top.kind # "stage"
  /\ ItemDone(Top.item)
  /\ UNCHANGED <<files, shown, said, excused, lost>>

\* A failed redirection, a command that is not found or not allowed, a closed
\* pipe: the outcome built so far is replaced by a status, and the list goes on.
ItemFails ==
  /\ graphs # <<>> /\ Top.phase \in {"expanding", "running"}
  /\ ItemDone(<<>>)
  /\ Excuse
  /\ UNCHANGED <<files, shown, said, lost>>

\* Any other error (a parameter that is not set, text that does not parse) leaves
\* the graph.
FatalError ==
  /\ graphs # <<>> /\ Top.phase \in {"expanding", "running"}
  /\ graphs' = SetTop([Top EXCEPT !.phase = "failed"])
  /\ Excuse
  /\ UNCHANGED <<shells, files, shown, said, lost>>

\* A stage is over, with an outcome that joins the pipeline's or with an error that
\* drops it.  Nobody takes the paths and the stderr its clone still holds.
EndStage ==
  /\ graphs # <<>> /\ Top.kind = "stage" /\ Top.phase \in {"running", "between"}
  /\ graphs' = [Front(graphs) EXCEPT ![Len(graphs) - 1].item = @ \o Top.item]
  /\ shells' = Front(shells)
  /\ lost' = lost \cup {Shell.temps[i] : i \in (Len(Top.inherited) + 1)..Len(Shell.temps)}
  /\ excused' = excused \cup Range(Shell.pending)
  /\ UNCHANGED <<files, shown, said>>

-----------------------------------------------------------------------------
(* The end of a graph *)

CleanAllMutant(temps, inherited) == Range(temps)

\* cleanup_new_proc_sub_temps: the files this graph made, which follow the ones
\* it found registered.
cleanup_new_proc_sub_temps(temps, inherited) ==
  {temps[i] : i \in (Len(inherited) + 1)..Len(temps)}

\* queue_substitution_stderr_with_limit, on the pieces already waiting.
Fits(pending, more) == Len(pending) + Len(more) <= Limit

\* The graph and the shell the substitution belongs to.
Caller == graphs[Len(graphs) - 1]
CallerShell == shells[Len(shells) - 1]

\* take_substitution_stderr and the two queue_substitution_stderr calls: first the
\* private pipe, then the captured outcome; a limit that is passed is an error.
Queued ==
  IF ~Fits(CallerShell.pending, Top.private) THEN CallerShell.pending
  ELSE IF ~Fits(CallerShell.pending \o Top.private, Top.out)
       THEN CallerShell.pending \o Top.private
       ELSE CallerShell.pending \o Top.private \o Top.out

Overflows ==
  \/ Len(Top.out) > Limit
  \/ Top.kind = "proc" /\ Len(Top.private) > Limit
  \/ ~Fits(CallerShell.pending, Top.private \o Top.out)

\* An I/O error of the substitution is an error of the command it belongs to:
\* run_pipeline_item turns it into a status.
FailCommand(pending) ==
  /\ graphs' = [Front(graphs) EXCEPT ![Len(graphs) - 1] =
       [Caller EXCEPT !.phase = "between", !.held = <<>>, !.item = <<>>, !.argv = {},
                      !.out = @ \o pending]]
  /\ shells' = [Front(shells) EXCEPT ![Len(shells) - 1].pending = Caller.held]
  /\ Excuse

\* The graph of a substitution ended with an outcome: its stderr is queued and,
\* for <(...), its stdout is written to a new private file (create_new, so never a
\* file that is there), which is registered with the caller's shell.
EndSubstitution ==
  /\ graphs # <<>> /\ Top.phase = "between" /\ Top.kind \in {"cmd", "proc"}
  /\ LET left == files \ cleanup_new_proc_sub_temps(Shell.temps, Top.inherited) IN
     \/ /\ Overflows
        /\ files' = left
        /\ FailCommand(IF Len(Top.out) > Limit \/ (Top.kind = "proc" /\ Len(Top.private) > Limit)
                       THEN CallerShell.pending ELSE Queued)
     \/ /\ ~Overflows /\ Top.kind = "cmd"
        /\ files' = left
        /\ graphs' = Front(graphs)
        /\ shells' = [Front(shells) EXCEPT ![Len(shells) - 1].pending = Queued]
        /\ UNCHANGED excused
     \/ /\ ~Overflows /\ Top.kind = "proc"
        /\ \E path \in Names \ left :
             /\ files' = left \cup {path}
             /\ graphs' = [Front(graphs) EXCEPT ![Len(graphs) - 1].argv = @ \cup {path}]
             /\ shells' = [Front(shells) EXCEPT ![Len(shells) - 1] =
                  [temps |-> Append(@.temps, path), pending |-> Queued]]
             /\ UNCHANGED excused
     \/ \* No file could be created or written: what was created is removed.
        /\ ~Overflows /\ Top.kind = "proc"
        /\ files' = left
        /\ FailCommand(Queued)
  /\ UNCHANGED <<shown, said, lost>>

\* run_with_private_stdout_capture: a pipe, a thread or a capture failed, or the
\* exact stream is incomplete.  The outcome is dropped.
CaptureFails ==
  /\ graphs # <<>> /\ Top.phase = "between" /\ Top.kind \in {"cmd", "proc"}
  /\ files' = files \ cleanup_new_proc_sub_temps(Shell.temps, Top.inherited)
  /\ FailCommand(CallerShell.pending)
  /\ UNCHANGED <<shown, said, lost>>

\* The graph of a line, a body or a subshell ended with an outcome.
EndGraph ==
  /\ graphs # <<>> /\ Top.phase = "between" /\ Top.kind \notin {"cmd", "proc", "stage"}
  /\ files' = files \ cleanup_new_proc_sub_temps(Shell.temps, Top.inherited)
  /\ IF Len(graphs) = 1
     THEN /\ graphs' = <<>>
          /\ shown' = shown \o Top.out
     ELSE /\ graphs' = [Front(graphs) EXCEPT ![Len(graphs) - 1].item = @ \o Top.out]
          /\ UNCHANGED shown
  /\ shells' = IF Cloned(Top.kind) THEN Front(shells)
               ELSE SetShell([Shell EXCEPT !.temps = Top.inherited])
  /\ UNCHANGED <<said, excused, lost>>

\* An error leaves the graph: the pending stderr is put back into the shell, and a
\* clone takes it along; the command of the enclosing graph fails in turn.
Unwind ==
  /\ graphs # <<>> /\ Top.phase = "failed"
  /\ LET made == cleanup_new_proc_sub_temps(Shell.temps, Top.inherited) IN
       IF Top.kind = "stage" THEN lost' = lost \cup made /\ UNCHANGED files
       ELSE files' = files \ made /\ UNCHANGED lost
  /\ shells' = IF Cloned(Top.kind) THEN Front(shells)
               ELSE SetShell([temps |-> Top.inherited, pending |-> Top.held \o Shell.pending])
  /\ graphs' = IF Len(graphs) = 1 THEN <<>>
               ELSE [Front(graphs) EXCEPT ![Len(graphs) - 1].phase = "failed"]
  /\ Excuse
  /\ UNCHANGED <<shown, said>>

Next ==
  \/ Line \/ Substitute \/ RunBody \/ RunStage \/ EndStage \/ TooDeep \/ StartItem \/ Expanded \/ WordsExpanded
  \/ Say \/ EndItem \/ ItemFails \/ FatalError \/ EndSubstitution \/ CaptureFails
  \/ EndGraph \/ Unwind

Spec == Init /\ [][Next]_vars

-----------------------------------------------------------------------------
\* Where a piece of stderr may be: on the terminal, or waiting in a shell or in
\* the outcome of a graph.
Waiting ==
  FlattenSeq([i \in 1..Len(shells) |-> shells[i].pending])
  \o FlattenSeq([i \in 1..Len(graphs) |->
       graphs[i].held \o graphs[i].item \o graphs[i].out \o graphs[i].private])

\* The files a running command was given are on disk for as long as it runs,
\* whatever the graphs inside it create and remove (cleanup_new_proc_sub_temps
\* counts the paths it inherited), and no file outlives its line, however the line
\* ends, but the ones a pipeline's stage made on its clone.  Every piece of stderr a
\* substitution or a command wrote is in one place only and reaches the terminal,
\* unless an error cut its command short or it was still in such a clone.
SubstitutionsKept ==
  /\ \A i \in 1..Len(graphs) : graphs[i].argv \subseteq files
  /\ graphs = <<>> => files = lost
  /\ IsInjective(shown \o Waiting)
  /\ graphs = <<>> => (1..said) \ Range(shown) \subseteq excused

=============================================================================
