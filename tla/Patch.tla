------------------------------- MODULE Patch --------------------------------
(***************************************************************************)
(* The patch tool an agent calls: it applies a unified diff to a file and  *)
(* replaces the file in one step.                                          *)
(*                                                                         *)
(* A text is its lines and whether the last one is ended.  A diff is a     *)
(* sequence of lines [k, ...]: "hunk" with the start of its old side,      *)
(* "ctx", "del" and "add" with their text, "note" (no newline at end of    *)
(* file), "header" (a file name) and "other".                              *)
(***************************************************************************)
EXTENDS Integers, Sequences

CONSTANTS
  Procs,     \* process ids; one process at a time has each of them
  Diffs,     \* the diffs the processes are given
  First,     \* the file at the beginning: [text, mode]
  Saves,     \* the texts another program puts in its place
  Retries,   \* temporary names that are tried
  MaxIds,    \* bound on the temporary names of one process
  MaxFaults  \* bound on crashes and power losses

Ok(t) == [ok |-> TRUE, text |-> t]
Err == [ok |-> FALSE]

-----------------------------------------------------------------------------
(* Applying a diff.                                                        *)

\* The state of the loop: lines put out, source lines consumed, inside a hunk,
\* any hunk seen, failed.
Reading == [out |-> <<>>, at |-> 0, body |-> FALSE, any |-> FALSE, bad |-> FALSE]

Lesser(a, b) == IF a < b THEN a ELSE b

\* saturating_sub(1) of the start of the old side.
HunkStart(n) == IF n = 0 THEN 0 ELSE n - 1

\* Past the end of the file the code compares with an empty line.
LineAt(lines, i) == IF i < Len(lines) THEN lines[i + 1] ELSE ""

diff_line(lines, s, d) ==
  LET start == HunkStart(d.start)
      upto == Lesser(start, Len(lines))
      same == d.l = LineAt(lines, s.at)
  IN CASE s.bad -> s
       [] ~ s.bad /\ d.k = "hunk" ->
            IF start < s.at THEN [s EXCEPT !.bad = TRUE]
            ELSE [s EXCEPT !.any = TRUE, !.body = TRUE,
                           !.out = s.out \o SubSeq(lines, s.at + 1, upto),
                           !.at = IF s.at > upto THEN s.at ELSE upto]
       [] ~ s.bad /\ d.k # "hunk" /\ ~ s.body -> s
       [] ~ s.bad /\ s.body /\ d.k = "ctx" ->
            IF same THEN [s EXCEPT !.out = Append(@, d.l), !.at = @ + 1] ELSE [s EXCEPT !.bad = TRUE]
       [] ~ s.bad /\ s.body /\ d.k = "del" ->
            IF same THEN [s EXCEPT !.at = @ + 1] ELSE [s EXCEPT !.bad = TRUE]
       [] ~ s.bad /\ s.body /\ d.k = "add" -> [s EXCEPT !.out = Append(@, d.l)]
       [] ~ s.bad /\ s.body /\ d.k = "note" -> s
       \* The name of another file, read as a line to be removed or added.
       [] ~ s.bad /\ s.body /\ d.k = "header" -> [s EXCEPT !.bad = TRUE]
       [] ~ s.bad /\ s.body /\ d.k = "other" -> [s EXCEPT !.body = FALSE]

apply_unified_diff(original, diff) ==
  LET after[k \in 0..Len(diff)] ==
        IF k = 0 THEN Reading ELSE diff_line(original.lines, after[k - 1], diff[k])
      s == after[Len(diff)]
      lines == s.out \o SubSeq(original.lines, s.at + 1, Len(original.lines))
  IN IF s.bad \/ ~ s.any THEN Err
     ELSE Ok([lines |-> lines,
              ended |-> lines \notin {<<>>, <<"">>} /\ (original.lines = <<>> \/ original.ended)])

-----------------------------------------------------------------------------
(* Replacing a file.                                                       *)

VARIABLES
  file,    \* the file: [text, mode, whole, synced]
  older,   \* files a power loss may bring back: the replacement was not yet on disk
  temps,   \* the temporary files: name -> file
  proc,    \* per process id what it is doing
  left,    \* temporary names a crash or a failed removal left behind
  faults   \* crashes and power losses so far
patchVars == <<file, older, temps, proc, left, faults>>

Idle == [pc |-> "idle", mode |-> "none", text |-> <<>>, id |-> 0, tries |-> 0, name |-> <<>>]

\* A process that has a temporary file.
Writing(x) == x.pc \in {"write", "permissions", "sync", "rename"}

PatchInit ==
  /\ file = [text |-> First.text, mode |-> First.mode, whole |-> TRUE, synced |-> TRUE]
  /\ older = {} /\ temps = <<>> /\ left = {} /\ faults = 0
  /\ proc = [p \in Procs |-> Idle]

\* The command is over, with one outcome or the other; the counter of names goes on.
Returns(p) == proc' = [proc EXCEPT ![p] = [Idle EXCEPT !.id = proc[p].id]]

\* patch: the file is read, whole and with its permissions, and the diff applied.
\* When the file cannot be read or the diff does not apply nothing is touched.
ReadAndApply(p, diff) ==
  /\ proc[p].pc = "idle"
  /\ LET r == apply_unified_diff(file.text, diff)
     IN IF r.ok THEN proc' = [proc EXCEPT ![p].pc = "create", ![p].text = r.text, ![p].mode = file.mode]
        ELSE UNCHANGED proc
  /\ UNCHANGED <<file, older, temps, left, faults>>

TempName(p) == <<p, proc[p].id>>
Without(f, name) == [n \in DOMAIN f \ {name} |-> f[n]]

\* create_new with mode 600: a name in use costs one of the tries.
Create(p) ==
  /\ proc[p].pc = "create" /\ proc[p].id < MaxIds
  /\ IF TempName(p) \in DOMAIN temps
     THEN /\ proc' = [proc EXCEPT ![p] = IF proc[p].tries + 1 = Retries THEN [Idle EXCEPT !.id = proc[p].id + 1]
                                        ELSE [proc[p] EXCEPT !.id = @ + 1, !.tries = @ + 1]]
          /\ UNCHANGED temps
     ELSE /\ proc' = [proc EXCEPT ![p].id = @ + 1, ![p].pc = "write", ![p].name = TempName(p)]
          /\ temps' = [n \in DOMAIN temps \cup {TempName(p)} |->
                         IF n = TempName(p) THEN [text |-> First.text, mode |-> "600", whole |-> FALSE, synced |-> FALSE]
                         ELSE temps[n]]
  /\ UNCHANGED <<file, older, left, faults>>

CreateFails(p) ==
  /\ proc[p].pc = "create" /\ Returns(p)
  /\ UNCHANGED <<file, older, temps, left, faults>>

Write(p) ==
  /\ proc[p].pc = "write"
  /\ temps' = [temps EXCEPT ![proc[p].name].text = proc[p].text, ![proc[p].name].whole = TRUE]
  /\ proc' = [proc EXCEPT ![p].pc = "permissions"]
  /\ UNCHANGED <<file, older, left, faults>>

SetPermissions(p) ==
  /\ proc[p].pc = "permissions"
  /\ temps' = [temps EXCEPT ![proc[p].name].mode = proc[p].mode]
  /\ proc' = [proc EXCEPT ![p].pc = "sync"]
  /\ UNCHANGED <<file, older, left, faults>>

\* Mutant: the data is left to the page cache.
NoSyncMutant(p) ==
  /\ proc[p].pc = "sync" /\ proc' = [proc EXCEPT ![p].pc = "rename"]
  /\ UNCHANGED <<file, older, temps, left, faults>>

SyncAll(p) ==
  /\ proc[p].pc = "sync"
  /\ temps' = [temps EXCEPT ![proc[p].name].synced = TRUE]
  /\ proc' = [proc EXCEPT ![p].pc = "rename"]
  /\ UNCHANGED <<file, older, left, faults>>

\* The directory is not synced: a power loss may still undo the rename.
Rename(p) ==
  /\ proc[p].pc = "rename"
  /\ file' = temps[proc[p].name] /\ older' = older \cup {file}
  /\ temps' = Without(temps, proc[p].name)
  /\ Returns(p)
  /\ UNCHANGED <<left, faults>>

\* One of the steps fails: the temporary file is removed; that this may fail is ignored.
StepFails(p, removed) ==
  /\ Writing(proc[p]) /\ Returns(p)
  /\ temps' = IF removed THEN Without(temps, proc[p].name) ELSE temps
  /\ left' = IF removed THEN left ELSE left \cup {proc[p].name}
  /\ UNCHANGED <<file, older, faults>>

Leftovers(ps) == {proc[p].name : p \in {q \in ps : Writing(proc[q])}}

\* A process dies, and its id is given to another one, which counts from zero.
Crash(p) ==
  /\ faults < MaxFaults /\ faults' = faults + 1
  /\ left' = left \cup Leftovers({p})
  /\ proc' = [proc EXCEPT ![p] = Idle]
  /\ UNCHANGED <<file, older, temps>>

\* What was not synced is not there any more; a rename may not have happened.
PowerLoss ==
  /\ faults < MaxFaults /\ faults' = faults + 1
  /\ \E f \in {file} \cup older : file' = [f EXCEPT !.whole = f.whole /\ f.synced]
  /\ temps' = [n \in DOMAIN temps |-> [temps[n] EXCEPT !.whole = @ /\ temps[n].synced]]
  /\ older' = {} /\ left' = left \cup Leftovers(Procs)
  /\ proc' = [p \in Procs |-> Idle]

\* Another program saves the file.
Save(text) ==
  /\ file' = [file EXCEPT !.text = text, !.whole = TRUE, !.synced = TRUE] /\ older' = {}
  /\ UNCHANGED <<temps, proc, left, faults>>

PatchNext ==
  \/ \E p \in Procs :
       \/ \E d \in Diffs : ReadAndApply(p, d)
       \/ Create(p) \/ CreateFails(p) \/ Write(p) \/ SetPermissions(p) \/ SyncAll(p) \/ Rename(p)
       \/ \E removed \in BOOLEAN : StepFails(p, removed)
       \/ Crash(p)
  \/ PowerLoss
  \/ \E t \in Saves : Save(t)
PatchSpec == PatchInit /\ [][PatchNext]_patchVars

-----------------------------------------------------------------------------
\* At every moment, and after a crash or a power loss at any moment, the file is
\* a whole one with the permissions it had: what was read patched, or what another
\* program saved; every temporary file belongs to the one process that is writing
\* it or was left behind by a crash or a failed removal (agent.rs, atomic_replace).
PatchWhole ==
  /\ file.whole /\ file.mode = First.mode
  /\ \A n \in DOMAIN temps :
       n \in left \/ \E p \in Procs : n = proc[p].name /\ Writing(proc[p])
  /\ \A p, q \in Procs : p # q /\ proc[p].name # <<>> => proc[p].name # proc[q].name
=============================================================================
