--------------------------- MODULE SessionJournal ---------------------------
(***************************************************************************)
(* The journal files of the interactive shells that share one sessions     *)
(* directory: append under a non-blocking lock (agsh-store session.rs      *)
(* try_append), the read loop's records (agsh main.rs, agsh-exec           *)
(* journal.rs), the hang-up hook on the signal thread, pruning at start,   *)
(* and `resume', which takes over the work of a dead session.              *)
(*                                                                         *)
(* A shell makes at most one piece of work, named after the shell; a live  *)
(* state, a snapshot and a journal are the sets of work they hold, so the  *)
(* work can be followed from a session to the one that resumed it.         *)
(* SessionFold is about what one journal restores.                         *)
(***************************************************************************)
EXTENDS Naturals, FiniteSets

CONSTANTS
  Shells,  \* interactive shells, one process and one journal file each
  FileCap, \* SESSION_FILE_CAP
  MaxLines, \* bound: command lines read by all shells
  MaxLive,  \* bound: shells that run at the same time
  MaxIncidents, \* bound: signals, and failed or partial writes
  None     \* no event, no open file

VARIABLES
  pc,       \* where the shell is in its read loop
  has,      \* work in the live ShellState (for a dead shell: when it died)
  snaps,    \* work in SessionRecorder.snap
  todo,     \* events the current phase has yet to append
  target,   \* the file they go to
  hook,     \* the signal thread: idle, its journal open and locked, open but
            \* removed, or done
  victims,  \* journals that the pruner has listed
  newer,    \* per existing journal: those modified after it
  content,  \* their content, folded
  lines,    \* command lines read, up to MaxLines
  incidents, \* signals, and failed or partial writes, up to MaxIncidents
  clean,    \* history: shells that ended through `finish'
  faulty,   \* history: journals that lost an event or were pruned
  consumed  \* history: journals whose Restored event was written in full

journalVars == <<pc, has, snaps, todo, target, hook, victims, newer, content,
          lines, incidents, clean, faulty, consumed>>

\* A delta event is the work that it records.
Events == {"start", "fg", "fgend", "hup", "restored", "exit"} \cup Shells

ASSUME JournalAssumption ==
  /\ {"start", "fg", "fgend", "hup", "restored", "exit"} \cap Shells = {}
  /\ None \notin Events

\* RestorableSession, and the bytes after the last newline.
Empty == [pid |-> FALSE, saved |-> {}, fg |-> FALSE, restored |-> FALSE,
          exit |-> FALSE, tail |-> None]

Exists(f) == f \in DOMAIN newer
Live(s) == pc[s] \notin {"none", "gone"}

JournalInit ==
  /\ pc = [s \in Shells |-> "none"]
  /\ has = [s \in Shells |-> {}] /\ snaps = [s \in Shells |-> {}]
  /\ todo = [s \in Shells |-> {}] /\ target = [s \in Shells |-> s]
  /\ hook = [s \in Shells |-> "idle"]
  /\ victims = [s \in Shells |-> {}] /\ newer = [f \in {} |-> {}]
  /\ content = [s \in Shells |-> Empty]
  /\ lines = 0 /\ incidents = 0
  /\ clean = {} /\ faulty = {} /\ consumed = {}

(***************************************************************************)
(* The file.                                                               *)
(***************************************************************************)
\* fold_session, one event.
Fold(j, e) ==
  IF e = "start" THEN [Empty EXCEPT !.pid = TRUE]
  ELSE [j EXCEPT !.saved = IF e \in Shells THEN @ \cup {e} ELSE @,
                 !.fg = (@ /\ e # "fgend") \/ e = "fg",
                 !.restored = @ \/ e = "restored",
                 !.exit = @ \/ e = "exit"]

\* read_journal: an unterminated last line counts if it parses.
View(f) == IF content[f].tail \in Events THEN Fold(content[f], content[f].tail) ELSE content[f]

\* What a write leaves in the file.  After an unterminated line the event is
\* glued to it, and the line that the two form does not parse.
Wrote(j, e) == [(IF j.tail = None THEN Fold(j, e) ELSE j) EXCEPT !.tail = None]

\* A partial write; allButNewline: only the newline is missing.
WrotePart(j, e, allButNewline) ==
  [j EXCEPT !.tail = IF j.tail = None /\ allButNewline THEN e ELSE "corrupt"]

Locked(f) == hook[f] = "open"

\* A write creates the file and makes it the newest; opening it only creates it.
Touched(f) == [g \in DOMAIN newer \cup {f} |-> IF g = f THEN {} ELSE newer[g] \cup {f}]
Opened(f) == IF Exists(f) THEN newer ELSE Touched(f)

(***************************************************************************)
(* try_append.  flock does not wait, and on contention the event is        *)
(* dropped.  The lock makes open, write and unlock of the read loop one    *)
(* step; only the signal thread, which runs beside its own read loop, is   *)
(* seen holding the lock.                                                  *)
(***************************************************************************)
WriteAll(f, e) ==
  /\ content' = [content EXCEPT ![f] = Wrote(@, e)]
  /\ newer' = Touched(f)
  /\ faulty' = IF content[f].tail = None THEN faulty ELSE faulty \cup {f}
  /\ consumed' = IF e = "restored" THEN consumed \cup {f} ELSE consumed

\* The write is short, or fails: no space, or the journal at its size limit.
WriteFails(f, e) ==
  /\ \/ /\ \E b \in BOOLEAN : content' = [content EXCEPT ![f] = WrotePart(@, e, b)]
        /\ newer' = Touched(f)
     \/ /\ newer' = Opened(f)
        /\ UNCHANGED content
  /\ faulty' = faulty \cup {f}
  /\ UNCHANGED consumed

Incident == incidents < MaxIncidents /\ incidents' = incidents + 1

\* The signal thread holds the lock; or another read loop does, when two shells
\* consume one journal or one consumes the journal of the other; or a pruner
\* removes the file between open and write.
MayDrop(s) == \/ Locked(target[s])
              \/ \E t \in Shells \ {s} : \/ target[t] = target[s] /\ todo[t] # {}
                                       \/ target[s] \in victims[t]

\* diff_snapshots.
NewWork(s) == has[s] \ snaps[s]

\* What the read loop does once the events of a phase are appended.
NextPhase(s) ==
  [starting |-> "prompt", reading |-> "run", consuming |-> "closing",
   closing |-> IF NewWork(s) = {} THEN "prompt" ELSE "diffing",
   diffing |-> "prompt", leaving |-> "gone"][pc[s]]

Advance(s, left) ==
  /\ pc' = [pc EXCEPT ![s] = IF left = {} THEN NextPhase(s) ELSE @]
  /\ todo' = [todo EXCEPT ![s] =
       IF left = {} /\ pc[s] = "consuming" THEN {"fgend"}
       ELSE IF left = {} /\ pc[s] = "closing" THEN NewWork(s)
       ELSE left]
  /\ target' = [target EXCEPT ![s] = IF left = {} THEN s ELSE @]
  /\ snaps' = [snaps EXCEPT ![s] = IF left = {} /\ NextPhase(s) = "prompt" THEN has[s] ELSE @]
  /\ clean' = IF left = {} /\ pc[s] = "leaving" THEN clean \cup {s} ELSE clean

\* The read loop appends the next event of its phase.
AppendEvent(s) ==
  /\ \E e \in todo[s] :
       /\ Advance(s, todo[s] \ {e})
       /\ \/ ~Locked(target[s]) /\ WriteAll(target[s], e) /\ UNCHANGED incidents
          \/ ~Locked(target[s]) /\ WriteFails(target[s], e) /\ Incident
          \/ /\ MayDrop(s)
             /\ faulty' = faulty \cup {target[s]}
             /\ UNCHANGED <<content, newer, consumed, incidents>>
  /\ hook' = [hook EXCEPT ![s] = IF pc'[s] = "gone" THEN "done" ELSE @]
  /\ UNCHANGED <<has, victims, lines>>

(***************************************************************************)
(* hangup_hook, on the thread that waits for SIGHUP and SIGTERM; it is     *)
(* armed once the recorder has begun, and ends the process.                *)
(***************************************************************************)
Signal(s) ==
  /\ Live(s) /\ pc[s] \notin {"prune", "starting"} /\ hook[s] = "idle"
  /\ Incident
  /\ newer' = Opened(s)
  /\ \/ hook' = [hook EXCEPT ![s] = "open"]
     \/ \* A read loop holds the lock: no Hup record.
        /\ \E t \in Shells : target[t] = s /\ todo[t] # {}
        /\ hook' = [hook EXCEPT ![s] = "done"]
  /\ UNCHANGED <<pc, has, snaps, todo, target, victims, content, lines, clean, faulty, consumed>>

HookWrite(s) ==
  /\ Live(s)
  /\ \/ hook[s] = "open" /\ (WriteAll(s, "hup") \/ WriteFails(s, "hup"))
     \/ hook[s] = "removed" /\ UNCHANGED <<content, newer, faulty, consumed>>
  /\ hook' = [hook EXCEPT ![s] = "done"]
  /\ UNCHANGED <<pc, has, snaps, todo, target, victims, lines, incidents, clean>>

\* The process ends: by the signal, or by a crash at any point.
Die(s) ==
  /\ Live(s)
  /\ pc' = [pc EXCEPT ![s] = "gone"]
  /\ hook' = [hook EXCEPT ![s] = "done"]
  /\ todo' = [todo EXCEPT ![s] = {}] /\ victims' = [victims EXCEPT ![s] = {}]
  /\ UNCHANGED <<has, snaps, target, newer, content, lines, incidents, clean, faulty, consumed>>

(***************************************************************************)
(* Start: prune_sessions lists the directory, then removes the oldest.     *)
(***************************************************************************)
ListVictims(s) ==
  /\ pc[s] = "none" /\ Cardinality({t \in Shells : Live(t)}) < MaxLive
  /\ pc' = [pc EXCEPT ![s] = "prune"]
  /\ victims' = [victims EXCEPT ![s] =
       {f \in DOMAIN newer : Cardinality(newer[f]) >= FileCap}]
  /\ UNCHANGED <<lines, incidents, has, snaps, todo, target, hook, newer, content,
                 clean, faulty, consumed>>

RemoveVictims(s) ==
  /\ pc[s] = "prune"
  /\ pc' = [pc EXCEPT ![s] = "starting"]
  /\ todo' = [todo EXCEPT ![s] = {"start"}]
  /\ newer' = [f \in DOMAIN newer \ victims[s] |-> newer[f] \ victims[s]]
  /\ content' = [f \in Shells |-> IF f \in victims[s] THEN Empty ELSE content[f]]
  /\ hook' = [t \in Shells |-> IF t \in victims[s] /\ hook[t] = "open"
                               THEN "removed" ELSE hook[t]]
  /\ faulty' = faulty \cup victims[s]
  /\ victims' = [victims EXCEPT ![s] = {}]
  /\ UNCHANGED <<lines, incidents, has, snaps, target, clean, consumed>>

(***************************************************************************)
(* The read loop.                                                          *)
(***************************************************************************)
Goto(s, phase, events, f) ==
  /\ pc' = [pc EXCEPT ![s] = phase]
  /\ todo' = [todo EXCEPT ![s] = events]
  /\ target' = [target EXCEPT ![s] = f]

\* Read a line (command_started) or the end of input (finish).
ReadLine(s) ==
  /\ pc[s] = "prompt"
  /\ \/ /\ lines < MaxLines /\ lines' = lines + 1
        /\ Goto(s, "reading", {"fg"}, s)
     \/ Goto(s, "leaving", {"exit"}, s) /\ UNCHANGED lines
  /\ UNCHANGED <<incidents, has, snaps, hook, victims, newer, content, clean, faulty, consumed>>

\* Any command but resume.
Work(s) ==
  /\ pc[s] = "run"
  /\ \E w \in SUBSET {s} : has' = [has EXCEPT ![s] = @ \cup w]
  /\ Goto(s, "closing", {"fgend"}, s)
  /\ UNCHANGED <<lines, incidents, snaps, hook, victims, newer, content, clean, faulty, consumed>>

\* session_is_restorable.  Without a Start record the pid is 0, and
\* process_presence(0) is Gone.
OfferLiveMutant(f) ==
  Exists(f) /\ ~View(f).exit /\ ~View(f).restored /\ (View(f).saved # {} \/ View(f).fg)
Restorable(f) ==
  /\ Exists(f)
  /\ ~View(f).exit /\ ~View(f).restored
  /\ View(f).pid => pc[f] = "gone"
  /\ View(f).saved # {} \/ View(f).fg

\* The resume builtin: apply the journal, then mark it consumed.
ResumeFrom(s, f) ==
  /\ pc[s] = "run"
  /\ Restorable(f) /\ ~(f = s /\ View(f).pid)
  /\ has' = [has EXCEPT ![s] = @ \cup View(f).saved]
  /\ Goto(s, "consuming", {"restored"}, f)
  /\ UNCHANGED <<lines, incidents, snaps, hook, victims, newer, content, clean, faulty, consumed>>

JournalNext ==
  \E s \in Shells :
    \/ ListVictims(s) \/ RemoveVictims(s)
    \/ AppendEvent(s)
    \/ ReadLine(s) \/ Work(s) \/ \E f \in Shells : ResumeFrom(s, f)
    \/ Signal(s) \/ HookWrite(s) \/ Die(s)

JournalSpec == JournalInit /\ [][JournalNext]_journalVars

-----------------------------------------------------------------------------
\* "so a crash after this point loses nothing" (main.rs) and "a later crash of
\* this session still restores everything" (builtin_resume): work that reached
\* a command boundary stays in a live shell or in a journal on offer, through
\* any chain of crashes and resumes.  It may be lost with a shell that ended
\* cleanly, whose journal lost an event, or that died after it resumed a
\* session and before its own boundary journaled the result.
WorkKept ==
  \A i \in Shells : i \in snaps[i] =>
    \E s \in Shells :
      /\ i \in has[s]
      /\ \/ Live(s) \/ View(s).exit \/ s \in clean \cup faulty
         \/ i \notin snaps[s]
         \/ Restorable(s) /\ i \in View(s).saved

\* Only sessions whose process is gone and that did not end cleanly are on
\* offer (restorable_sessions), unless their journal lost an event: a journal
\* without its Start record is offered while its shell lives.
OnlyDeadOffered ==
  \A f \in Shells : Restorable(f) => f \in faulty \/ (pc[f] = "gone" /\ f \notin clean)

\* The two together (main.rs, journal.rs builtin_resume, restorable_sessions).
WorkSurvives == WorkKept /\ OnlyDeadOffered

\* "The restored journal is marked consumed so it isn't offered twice"
\* (builtin_resume): not on offer once the Restored record was written.
ConsumedNotOffered == \A f \in consumed : ~Restorable(f)
=============================================================================
