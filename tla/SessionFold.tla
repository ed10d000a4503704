---------------------------- MODULE SessionFold ----------------------------
(***************************************************************************)
(* What a session journal says and what restoring it yields: the recorder  *)
(* diffs the shell state at every command boundary (agsh-exec journal.rs   *)
(* diff_snapshots), the store folds the events into per-key deltas         *)
(* (agsh-store session.rs fold_session), and `resume' replays them onto a  *)
(* fresh shell (apply_session).                                            *)
(*                                                                         *)
(* fold_session is a loop over the journal, so its result is kept as a     *)
(* variable that every appended event advances.  Aliases, abbreviations    *)
(* and functions share one treatment and are the names of the model.       *)
(* No event is lost here; SessionJournal is about the file.                *)
(***************************************************************************)
EXTENDS Naturals

CONSTANTS
  Keys,    \* variable names that skip_key lets through
  Names,   \* alias, abbreviation and function names
  Opts,    \* shell options
  Dirs,    \* working directories
  Vals,    \* values of variables and bodies of names
  NoVal,   \* not defined
  NoEntry, \* no delta recorded
  Removed, \* the delta `None': remove on replay
  MaxEdits \* bound: state changes that commands make during the behaviour

ASSUME FoldAssumption ==
  /\ NoVal \notin Vals /\ NoEntry \notin Vals /\ Removed \notin Vals
  /\ NoEntry # Removed /\ NoEntry \notin Dirs /\ NoEntry \notin BOOLEAN
  /\ MaxEdits \in Nat

VARIABLES
  base,       \* the state every new shell starts from (inherited and rc file)
  sh,         \* the live ShellState
  snap,       \* SessionRecorder.snap
  folded,     \* fold_session of this session's journal
  dead,       \* fold_session of the journal of the session that died last
  edits,      \* state changes made so far, up to MaxEdits
  boundaries, \* history: command boundaries in this session: 0, 1 or 2 for more
  asEnv,      \* history: keys with an Env event in this journal
  asVar,      \* history: keys with a Var event
  asUnset,    \* history: keys with an Unset event
  named       \* history: names with an Alias, Abbr or Func event

history == <<boundaries, asEnv, asVar, asUnset, named>>
vars == <<base, sh, snap, folded, dead, edits, history>>

States == [vars : [Keys -> Vals \cup {NoVal}], env : [Keys -> Vals \cup {NoVal}],
           exported : SUBSET Keys, names : [Names -> Vals \cup {NoVal}],
           opts : [Opts -> BOOLEAN], cwd : Dirs]

\* RestorableSession.
Deltas == [env : [Keys -> Vals \cup {NoEntry}],
           vars : [Keys -> Vals \cup {NoEntry, Removed}],
           names : [Names -> Vals \cup {NoEntry, Removed}],
           opts : [Opts -> BOOLEAN \cup {NoEntry}], cwd : Dirs \cup {NoEntry}]

NoDeltas == [env |-> [k \in Keys |-> NoEntry], vars |-> [k \in Keys |-> NoEntry],
             names |-> [n \in Names |-> NoEntry], opts |-> [o \in Opts |-> NoEntry],
             cwd |-> NoEntry]

TypeOK ==
  /\ base \in States /\ sh \in States /\ snap \in States
  /\ folded \in Deltas /\ dead \in Deltas
  /\ edits \in 0..MaxEdits
  /\ boundaries \in 0..2
  /\ asEnv \subseteq Keys /\ asVar \subseteq Keys /\ asUnset \subseteq Keys
  /\ named \subseteq Names

\* The environment holds the values of the exported variables.
Mirrored(s) ==
  \A k \in Keys : s.env[k] = IF k \in s.exported THEN s.vars[k] ELSE NoVal

Begin ==
  /\ sh = base /\ snap = base
  /\ folded = NoDeltas
  /\ boundaries = 0 /\ asEnv = {} /\ asVar = {} /\ asUnset = {} /\ named = {}

Init ==
  /\ base \in States /\ Mirrored(base)
  /\ Begin
  /\ dead = NoDeltas
  /\ edits = 0

(***************************************************************************)
(* Commands: what a command line may do to the journaled state.            *)
(***************************************************************************)
Command ==
  /\ edits < MaxEdits /\ edits' = edits + 1
  /\ UNCHANGED <<base, snap, folded, dead, history>>

\* s with value x, environment entry y and the exported set given.
Bind(s, k, x, y, exported) ==
  [s EXCEPT !.vars = [@ EXCEPT ![k] = x], !.env = [@ EXCEPT ![k] = y],
            !.exported = exported]

SetVar(k, v) ==
  sh' = Bind(sh, k, v, IF k \in sh.exported THEN v ELSE sh.env[k], sh.exported) /\ Command
ExportVar(k, v) == sh' = Bind(sh, k, v, v, sh.exported \cup {k}) /\ Command
MarkExported(k) ==
  sh' = Bind(sh, k, sh.vars[k], sh.vars[k], sh.exported \cup {k}) /\ Command
Unexport(k) == sh' = Bind(sh, k, sh.vars[k], NoVal, sh.exported \ {k}) /\ Command
Unset(k) == sh' = Bind(sh, k, NoVal, NoVal, sh.exported \ {k}) /\ Command
SetName(n, v) == sh' = [sh EXCEPT !.names[n] = v] /\ Command
RemoveName(n) == sh' = [sh EXCEPT !.names[n] = NoVal] /\ Command
SetOpt(o) == sh' = [sh EXCEPT !.opts = [@ EXCEPT ![o] = ~sh.opts[o]]] /\ Command
ChangeDir(d) == sh' = [sh EXCEPT !.cwd = d] /\ Command

(***************************************************************************)
(* diff_snapshots, per key: which event the boundary journals for it.      *)
(***************************************************************************)
NewKeysOnlyMutant(k) == sh.env[k] # NoVal /\ snap.env[k] = NoVal
EnvEvent(k) == sh.env[k] # NoVal /\ snap.env[k] # sh.env[k]
VarEvent(k) == sh.vars[k] # NoVal /\ sh.env[k] = NoVal /\ snap.vars[k] # sh.vars[k]

UnsetEvent(k) == /\ snap.env[k] # NoVal \/ snap.vars[k] # NoVal
                 /\ sh.env[k] = NoVal /\ sh.vars[k] = NoVal
NameEvent(n) == sh.names[n] # NoVal /\ snap.names[n] # sh.names[n]
UnnameEvent(n) == snap.names[n] # NoVal /\ sh.names[n] = NoVal

(***************************************************************************)
(* fold_session, per key: the deltas after those events.                   *)
(***************************************************************************)
FoldEnv(k) == IF EnvEvent(k) THEN sh.env[k]
              ELSE IF UnsetEvent(k) THEN NoEntry
              ELSE folded.env[k]

\* An unset that undoes a set of the same session folds away.
FoldVar(k) ==
  IF VarEvent(k) THEN sh.vars[k]
  ELSE IF UnsetEvent(k)
       THEN IF folded.env[k] \in Vals \/ folded.vars[k] \in Vals THEN NoEntry ELSE Removed
  ELSE folded.vars[k]

FoldName(n) ==
  IF NameEvent(n) THEN sh.names[n]
  ELSE IF UnnameEvent(n) THEN IF folded.names[n] \in Vals THEN NoEntry ELSE Removed
  ELSE folded.names[n]

TurnedOnOnlyMutant(o) == IF sh.opts[o] /\ ~snap.opts[o] THEN TRUE ELSE folded.opts[o]
FoldOpt(o) == IF sh.opts[o] # snap.opts[o] THEN sh.opts[o] ELSE folded.opts[o]

\* command_finished: journal what changed and take the new snapshot.
CommandFinished ==
  /\ folded' = [env |-> [k \in Keys |-> FoldEnv(k)],
                vars |-> [k \in Keys |-> FoldVar(k)],
                names |-> [n \in Names |-> FoldName(n)],
                opts |-> [o \in Opts |-> FoldOpt(o)],
                cwd |-> IF sh.cwd # snap.cwd THEN sh.cwd ELSE folded.cwd]
  /\ snap' = sh
  /\ boundaries' = IF boundaries < 2 THEN boundaries + 1 ELSE 2
  /\ asEnv' = asEnv \cup {k \in Keys : EnvEvent(k)}
  /\ asVar' = asVar \cup {k \in Keys : VarEvent(k)}
  /\ asUnset' = asUnset \cup {k \in Keys : UnsetEvent(k)}
  /\ named' = named \cup {n \in Names : NameEvent(n)}
  /\ UNCHANGED <<base, sh, dead, edits>>

(***************************************************************************)
(* apply_session.                                                          *)
(***************************************************************************)
\* First the exports, then the plain variables on top of them.
AppliedVar(f, s, k) ==
  IF f.vars[k] \in Vals THEN f.vars[k]
  ELSE IF f.vars[k] = Removed THEN NoVal
  ELSE IF f.env[k] \in Vals THEN f.env[k]
  ELSE s.vars[k]

AppliedExported(f, s) ==
  {k \in Keys : f.vars[k] # Removed /\ (k \in s.exported \/ f.env[k] \in Vals)}

AppliedName(f, s, n) ==
  IF f.names[n] = NoEntry THEN s.names[n]
  ELSE IF f.names[n] = Removed THEN NoVal ELSE f.names[n]

AppliedOpt(f, s, o) == IF f.opts[o] = NoEntry THEN s.opts[o] ELSE f.opts[o]

\* isDir: the recorded directory still exists.
AppliedCwd(f, s, isDir) == IF f.cwd = NoEntry \/ ~isDir THEN s.cwd ELSE f.cwd

Applied(f, s, isDir) ==
  [vars |-> [k \in Keys |-> AppliedVar(f, s, k)],
   env |-> [k \in Keys |-> IF k \in AppliedExported(f, s)
                           THEN AppliedVar(f, s, k) ELSE NoVal],
   exported |-> AppliedExported(f, s),
   names |-> [n \in Names |-> AppliedName(f, s, n)],
   opts |-> [o \in Opts |-> AppliedOpt(f, s, o)],
   cwd |-> AppliedCwd(f, s, isDir)]

\* The resume builtin.  The journal is consumed; the boundary of this very
\* command journals the result.
Resume(isDir) ==
  /\ dead # NoDeltas
  /\ sh' = Applied(dead, sh, isDir)
  /\ dead' = NoDeltas
  /\ UNCHANGED <<base, snap, folded, edits, history>>

\* The shell dies and another one starts.
DieAndStart ==
  /\ sh' = base /\ snap' = base
  /\ dead' = folded
  /\ folded' = NoDeltas
  /\ boundaries' = 0 /\ asEnv' = {} /\ asVar' = {} /\ asUnset' = {} /\ named' = {}
  /\ UNCHANGED <<base, edits>>

Next ==
  \/ \E k \in Keys : \/ MarkExported(k) \/ Unexport(k) \/ Unset(k)
                     \/ \E v \in Vals : SetVar(k, v) \/ ExportVar(k, v)
  \/ \E n \in Names : RemoveName(n) \/ \E v \in Vals : SetName(n, v)
  \/ \E o \in Opts : SetOpt(o)
  \/ \E d \in Dirs : ChangeDir(d)
  \/ CommandFinished
  \/ \E isDir \in BOOLEAN : Resume(isDir)
  \/ DieAndStart

Spec == Init /\ [][Next]_vars

-----------------------------------------------------------------------------
\* Aliases, abbreviations and functions come back as they were at the last
\* boundary, for every order of definitions and removals; the one exception is
\* a name of the rc file that this session redefined and then removed, whose
\* redefinition and removal fold away (fold_session).
NamesRestored ==
  \A n \in Names :
    \/ AppliedName(folded, base, n) = snap.names[n]
    \/ base.names[n] # NoVal /\ snap.names[n] = NoVal /\ n \in named

\* A variable comes back with its value when the session only exported it or
\* only assigned it, and did not unset an inherited one.  A key with both kinds of
\* delta is excepted: there the last write does not win (LastWriteWins).
VarsRestored ==
  \A k \in Keys :
    \/ AppliedVar(folded, base, k) = snap.vars[k]
    \/ k \in asEnv \cap asVar
    \/ k \in asUnset /\ base.vars[k] # NoVal

\* Options and, where it still exists, the working directory always come back.
SettingsRestored ==
  /\ \A o \in Opts : AppliedOpt(folded, base, o) = snap.opts[o]
  /\ AppliedCwd(folded, base, TRUE) = snap.cwd

\* What a resume gives back is what the last boundary journaled: names,
\* variables and settings together, up to the exceptions named above.
StateRestored == NamesRestored /\ VarsRestored /\ SettingsRestored

\* "Restore replays the folded deltas onto the live shell - last write wins per
\* key" (docs/SESSIONS.md; fold_session and apply_session): a variable that is set
\* at the last boundary is restored with the value it had there.
LastWriteWins ==
  \A k \in Keys : snap.vars[k] # NoVal => AppliedVar(folded, base, k) = snap.vars[k]

\* "the next command boundary re-journals the applied state into OUR journal, so
\* a later crash of this session still restores everything" (builtin_resume):
\* one boundary after the start, whatever the state then is, the journal restores
\* every value and every name.
FirstBoundaryExact ==
  boundaries = 1 =>
    /\ \A k \in Keys : AppliedVar(folded, base, k) = snap.vars[k]
    /\ \A n \in Names : AppliedName(folded, base, n) = snap.names[n]
=============================================================================
