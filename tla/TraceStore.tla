----------------------------- MODULE TraceStore -----------------------------
(***************************************************************************)
(* The traces of the commands of several shells in the directory they      *)
(* share.  While a command runs, each of its streams may be teed to a      *)
(* spool, within the budget of the line; behind the command the streams    *)
(* become two files that a trace:// reference names, the oldest files of   *)
(* the directory go, and the shell remembers the reference.  Nothing locks *)
(* the directory: every shell scans it and removes from what it saw.       *)
(*                                                                         *)
(* A file is known by its shell, its command and its stream; of what it    *)
(* holds only the number of bytes matters, as it is always a prefix of     *)
(* what the command wrote.  The times files are written at all differ.     *)
(***************************************************************************)
EXTENDS Integers, Sequences, SequencesExt, FiniteSets

CONSTANTS
  TraceShells,    \* the shells that use the directory
  Kept,           \* bytes a preview of a stream keeps
  MaxRaw,         \* raw storage limit: of the spools of a line, and of the files of a trace
  TraceCap,       \* trace_dir_cap(), at least 2
  ByteCap,        \* TRACE_DIR_TOTAL_BYTES_CAP
  OldFiles,       \* how many files earlier shells have left
  RingCap,        \* references a shell remembers, at least 1
  Chunk,          \* the size of the writes to each stream
  MaxWrites,      \* bound on the bytes a command writes to each stream
  MaxCommands,    \* bound on the commands of all shells
  MaxTraceFaults  \* bound on failing file operations

ASSUME TraceAssumption ==
  /\ IsFiniteSet(TraceShells) /\ "old" \notin TraceShells
  /\ Kept \in Nat /\ MaxRaw \in Nat /\ RingCap \in Nat \ {0}
  /\ TraceCap \in Nat \ {0, 1} /\ OldFiles \in 0..TraceCap
  /\ Chunk["out"] \in Nat /\ Chunk["err"] \in Nat

VARIABLES
  dir,      \* the trace files
  clock,    \* when the last of them was written
  spools,   \* the spool files
  tshells,  \* the shells
  prunes,   \* the prunes in progress
  tfaults   \* file operations that have failed

traceVars == <<dir, clock, spools, tshells, prunes, tfaults>>
Fds == {"out", "err"}
File(p, c, s, n, t) == [owner |-> p, cmd |-> c, s |-> s, bytes |-> n, at |-> t]
OldFile(k) == File("old", k, "out", 1, k)
Least(a, b) == IF a < b THEN a ELSE b
Zero == [s \in Fds |-> 0]

\* What there is of a stream when its command is over.
Source(have, total, complete) == [have |-> have, total |-> total, complete |-> complete]
Nothing == Source(0, 0, TRUE)
Unseen == -1  \* a stream that has more than its reader read
\* A shell between two commands.  wrote is what the command really wrote, said
\* the same of the commands that are remembered.
Fresh ==
  [st |-> "idle", cmd |-> 0, enabled |-> TRUE, wrote |-> Zero, total |-> Zero, stored |-> Zero, spool |-> {},
   tee |-> {}, mark |-> {}, left |-> 0, room |-> 0, source |-> [s \in Fds |-> Nothing], status |-> [s \in Fds |-> "none"],
   records |-> <<>>, disk_traces |-> <<>>, said |-> {}]

\* When the directory was read, and how many files and bytes of what was there are
\* not yet removed by the reader.
Tally(t, n, b) == [upTo |-> t, count |-> n, bytes |-> b]
NoTally == Tally(0, 0, 0)

TraceInit ==
  /\ dir = {OldFile(k) : k \in 1..OldFiles} /\ clock = OldFiles
  /\ spools = {} /\ tfaults = 0
  /\ tshells = [p \in TraceShells |-> Fresh] /\ prunes = [p \in TraceShells |-> NoTally]

\* What is left of a command once it is over.
Done(me) ==
  [Fresh EXCEPT !.cmd = me.cmd, !.records = me.records, !.disk_traces = me.disk_traces,
     !.said = {x \in me.said : x.cmd \in ToSet(me.records) \cup {me.disk_traces[k].cmd : k \in DOMAIN me.disk_traces}}]
Alive(p) == tshells[p].st # "dead"
May(fails) == (fails => tfaults < MaxTraceFaults) /\ tfaults' = IF fails THEN tfaults + 1 ELSE tfaults
Spool(p, s) == [owner |-> p, cmd |-> tshells[p].cmd, s |-> s]

-----------------------------------------------------------------------------
(* The command runs.                                                       *)

\* What stays when p removes the spools of processes that are gone.
prune_stale_trace_spools(p) == {f \in spools : f.owner = p \/ Alive(f.owner)}

\* enter_exec gives the line its budget; create_trace_spool makes a spool for both
\* streams of a program, and none (a writer without a file) when storage is off.
create_trace_spool(p) ==
  /\ tshells[p].st = "idle" /\ MapThenSumSet(LAMBDA q : tshells[q].cmd, TraceShells) < MaxCommands
  /\ \E streams \in {{}, Fds}, enabled \in BOOLEAN :
       LET c == tshells[p].cmd + 1
           made == IF enabled THEN streams ELSE {}
           new == {[owner |-> p, cmd |-> c, s |-> s] : s \in made}
       IN /\ spools' = (IF new = {} THEN spools ELSE prune_stale_trace_spools(p)) \cup new
          /\ tshells' = [tshells EXCEPT ![p] =
               [@ EXCEPT !.st = "run", !.cmd = c, !.enabled = enabled, !.spool = made, !.tee = made,
                         !.left = IF enabled THEN MaxRaw ELSE 0,
                         !.wrote = Zero, !.total = Zero, !.stored = Zero]]
  /\ UNCHANGED <<dir, clock, prunes, tfaults>>

reserve(left, n) == Least(left, n)
\* A chunk arrives at the reader of stream s, and at its spool: what the budget
\* allows is stored.  A write that fails ends the tee, not the reader.
write(p, s) ==
  LET me == tshells[p]
      n == Chunk[s]
      teed == s \in me.tee
      some == IF teed THEN reserve(me.left, n) ELSE 0
  IN /\ me.st = "run" /\ me.wrote[s] + n <= MaxWrites[s]
     /\ \E fails \in BOOLEAN :
          /\ fails => some > 0
          /\ May(fails)
          /\ tshells' = [tshells EXCEPT ![p] =
               [me EXCEPT !.wrote[s] = @ + n, !.left = @ - some, !.total[s] = IF teed THEN @ + n ELSE @,
                          !.stored[s] = IF fails THEN @ ELSE @ + some, !.tee = IF fails THEN @ \ {s} ELSE @]]
     /\ UNCHANGED <<dir, clock, spools, prunes>>

\* A stream once its reader has ended: its spool, or the preview.
Ended(me, s) ==
  IF s \in me.spool
  THEN Source(me.stored[s], me.total[s], me.enabled /\ s \notin me.mark /\ me.total[s] = me.stored[s])
  ELSE Source(Least(me.wrote[s], Kept), Least(me.wrote[s], Kept), s \notin me.mark /\ me.wrote[s] <= Kept)

\* The readers end.  One that leaves what other processes still write to a worker
\* marks its spool: what they write is never seen.  A spool that cannot be synced is
\* dropped.
finish(p) ==
  /\ tshells[p].st = "run"
  /\ \E mark \in SUBSET Fds, fails \in {{}} \cup {{s} : s \in IF tshells[p].enabled THEN tshells[p].spool ELSE {}} :
       LET me == [tshells[p] EXCEPT !.spool = @ \ fails, !.mark = mark]
           wrote == [s \in Fds |-> IF s \in mark THEN Unseen ELSE me.wrote[s]]
       IN /\ May(fails # {})
          /\ spools' = spools \ {Spool(p, s) : s \in fails}
          /\ \E storage \in {me.enabled, FALSE} :
               tshells' = [tshells EXCEPT ![p] =
                 [Done(me) EXCEPT !.st = IF storage THEN "out" ELSE "off", !.room = MaxRaw, !.spool = me.spool,
                                  !.source = [s \in Fds |-> IF storage THEN Ended(me, s) ELSE Nothing],
                                  !.said = @ \cup {[cmd |-> me.cmd, wrote |-> wrote]}]]
  /\ UNCHANGED <<dir, clock, prunes>>

-----------------------------------------------------------------------------
(* The trace is kept.                                                      *)

\* What is said of the file that holds what there was room for.
Status(me, s) ==
  IF me.source[s].complete /\ Least(me.source[s].have, me.room) = me.source[s].total THEN "complete" ELSE "truncated"

\* write_private_trace_segments: the spool goes with its segment.
Persisted(p, s, then) ==
  LET me == tshells[p]
      n == Least(me.source[s].have, me.room)
  IN /\ dir' = dir \cup {File(p, me.cmd, s, n, clock + 1)}
     /\ clock' = clock + 1
     /\ spools' = spools \ {Spool(p, s)}
     /\ tshells' = [tshells EXCEPT ![p] =
          [me EXCEPT !.st = then, !.room = @ - n, !.status[s] = Status(me, s),
                     !.source[s] = Nothing, !.spool = @ \ {s}]]
OwnFile(p, f) == f.owner = p /\ f.cmd = tshells[p].cmd
\* The spool another shell took away cannot be read.
Readable(p, s) == s \in tshells[p].spool /\ tshells[p].source[s].have > 0 => Spool(p, s) \in spools
\* persist_trace_segments_to_dir gives up: no reference, no file, no spool.
GiveUp(p) ==
  /\ dir' = {f \in dir : ~OwnFile(p, f)} /\ UNCHANGED clock
  /\ spools' = {f \in spools : f.owner # p}
  /\ tshells' = [tshells EXCEPT ![p] = Done(@)]

persist_stdout(p) ==
  /\ tshells[p].st = "out" /\ UNCHANGED prunes
  /\ \/ Readable(p, "out") /\ May(FALSE) /\ Persisted(p, "out", "err")
     \/ May(Readable(p, "out")) /\ GiveUp(p)
persist_stderr(p) ==
  /\ tshells[p].st = "err" /\ UNCHANGED prunes
  /\ \/ Readable(p, "err") /\ May(FALSE) /\ Persisted(p, "err", "scan")
     \/ May(Readable(p, "err")) /\ GiveUp(p)

\* prune_trace_dir_with_byte_cap_protecting goes on while the files it saw and has
\* not removed are more than the limits.
TooMuch(tally) == tally.count > TraceCap \/ tally.bytes > ByteCap
Pruning(p, tally) ==
  /\ tshells' = [tshells EXCEPT ![p].st = IF TooMuch(tally) THEN "prune" ELSE "check"]
  /\ prunes' = [prunes EXCEPT ![p] = IF TooMuch(tally) THEN tally ELSE NoTally]
\* It reads the directory,
scan(p) ==
  /\ tshells[p].st = "scan"
  /\ Pruning(p, Tally(clock, Cardinality(dir), MapThenSumSet(LAMBDA f : f.bytes, dir)))
  /\ UNCHANGED <<dir, clock, spools, tfaults>>
\* ... removes the oldest of the files it saw that is still there, but neither of
\* its own,
Removable(p) == {f \in dir : f.at <= prunes[p].upTo /\ ~OwnFile(p, f)}
remove_file(p) ==
  /\ tshells[p].st = "prune"
  /\ \E f \in Removable(p) :
       /\ \A g \in Removable(p) : f.at <= g.at
       /\ dir' = dir \ {f}
       /\ Pruning(p, Tally(prunes[p].upTo, prunes[p].count - 1, prunes[p].bytes - f.bytes))
  /\ UNCHANGED <<clock, spools, tfaults>>
\* ... and ends when there is none.
prune_trace_dir_protecting(p) ==
  /\ tshells[p].st = "prune" /\ Removable(p) = {}
  /\ tshells' = [tshells EXCEPT ![p].st = "check"]
  /\ prunes' = [prunes EXCEPT ![p] = NoTally]
  /\ UNCHANGED <<dir, clock, spools, tfaults>>

\* One more at the end of a ring, the oldest gone.
Ring(ring, x) == Append(IF Len(ring) >= RingCap THEN Tail(ring) ELSE ring, x)
\* Bug shape: the summaries outlive the references they stand for.
LongRecordsMutant(me, status) ==
  Done([me EXCEPT !.records = Append(@, me.cmd), !.disk_traces = Ring(@, [cmd |-> me.cmd, status |-> status])])
Recorded(me, status) ==
  Done([me EXCEPT !.records = Ring(@, me.cmd), !.disk_traces = Ring(@, [cmd |-> me.cmd, status |-> status])])

There(p, c, s) == \E f \in dir : f.owner = p /\ f.cmd = c /\ f.s = s
\* Both files are opened again before the reference is given out.
record_trace_captured(p) ==
  /\ tshells[p].st = "check"
  /\ IF \A s \in Fds : There(p, tshells[p].cmd, s)
     THEN tshells' = [tshells EXCEPT ![p] = Recorded(@, @.status)] /\ UNCHANGED <<dir, clock, spools>>
     ELSE GiveUp(p)
  /\ UNCHANGED <<prunes, tfaults>>
\* With storage off the reference says so; the segments are dropped.
record_disabled(p) ==
  /\ tshells[p].st = "off"
  /\ spools' = {f \in spools : f.owner # p}
  /\ tshells' = [tshells EXCEPT ![p] = Recorded(@, [s \in Fds |-> "disabled"])]
  /\ UNCHANGED <<dir, clock, prunes, tfaults>>

\* The shell is killed: its files stay.
Killed(p) ==
  /\ Alive(p)
  /\ tshells' = [tshells EXCEPT ![p] = [Fresh EXCEPT !.st = "dead", !.cmd = tshells[p].cmd]]
  /\ prunes' = [prunes EXCEPT ![p] = NoTally]
  /\ UNCHANGED <<dir, clock, spools, tfaults>>

\* What a reference of shell p gives: of a trace that is remembered its file, of
\* one of which only the summary is left its (empty) bytes.
open_trace_reader(p, c, s) ==
  LET refs == {k \in DOMAIN tshells[p].disk_traces : tshells[p].disk_traces[k].cmd = c}
      status == tshells[p].disk_traces[CHOOSE k \in refs : TRUE].status[s]
      file == CHOOSE f \in dir : f.owner = p /\ f.cmd = c /\ f.s = s
  IN IF refs # {}
     THEN IF status = "disabled" THEN [status |-> status, bytes |-> 0]
          ELSE IF There(p, c, s) THEN [status |-> status, bytes |-> file.bytes] ELSE [status |-> "missing", bytes |-> 0]
     ELSE IF c \in ToSet(tshells[p].records) THEN [status |-> "complete", bytes |-> 0]
     ELSE [status |-> "missing", bytes |-> 0]

TraceNext ==
  \E p \in TraceShells :
    \/ create_trace_spool(p) \/ finish(p) \/ persist_stdout(p) \/ persist_stderr(p) \/ scan(p)
    \/ remove_file(p) \/ prune_trace_dir_protecting(p) \/ record_trace_captured(p) \/ record_disabled(p) \/ Killed(p)
    \/ \E s \in Fds : write(p, s)
TraceSpec == TraceInit /\ [][TraceNext]_traceVars

-----------------------------------------------------------------------------
\* A reference whose stream is said to be complete gives every byte the command
\* wrote to it or, once its file was pruned, nothing; no shell takes away a spool
\* that another still writes; and the directory holds no more than its limit and
\* the files of the shells that have not pruned since they wrote (state.rs,
\* open_trace_reader, prune_stale_trace_spools, persist_trace_segments_to_dir).
TraceTruthful ==
  /\ \A p \in TraceShells : Alive(p) =>
       \A x \in tshells[p].said, s \in Fds :
         LET t == open_trace_reader(p, x.cmd, s) IN t.status = "complete" => t.bytes = x.wrote[s]
  /\ \A p \in TraceShells : tshells[p].st = "run" /\ tshells[p].enabled => \A s \in tshells[p].spool : Spool(p, s) \in spools
  /\ Cardinality(dir) <= TraceCap + 2 * Cardinality({p \in TraceShells : tshells[p].st \in {"err", "scan", "prune", "dead"}})

=============================================================================
