--------------------------- MODULE SessionProofs ---------------------------
(***************************************************************************)
(* What an interactive session keeps: what SessionFold restores for any    *)
(* variables, names, options and journals of any length; WorkSurvives of   *)
(* SessionJournal for any shells, lines, signals and failed writes;        *)
(* PatchWhole of Patch for any processes, diffs, temporary names and       *)
(* faults; InterceptionUndone for any commands and installations;          *)
(* TraceTruthful of TraceStore for any shells, limits, streams and         *)
(* failures of file operations.                                            *)
(***************************************************************************)
EXTENDS SessionFold, SessionJournal, Patch, Interception, TraceStore, FiniteSetTheorems, FunctionTheorems, TLAPS

(* The fold and replay of a journal *)

\* A fresh shell and an empty journal are well typed.
LEMMA TypeInit == Init => TypeOK
BY FoldAssumption DEF Init, Begin, TypeOK, NoDeltas, Deltas

\* Replaying deltas onto a state gives a state.
LEMMA AppliedType ==
  ASSUME NEW f \in Deltas, NEW s \in States, NEW isDir \in BOOLEAN
  PROVE  Applied(f, s, isDir) \in States
<1> USE FoldAssumption DEF Deltas, States
<1>1. \A k \in Keys : AppliedVar(f, s, k) \in Vals \cup {NoVal}
  BY DEF AppliedVar
<1>2. \A n \in Names : AppliedName(f, s, n) \in Vals \cup {NoVal}
  BY DEF AppliedName
<1>3. \A o \in Opts : AppliedOpt(f, s, o) \in BOOLEAN
  BY DEF AppliedOpt
<1>4. AppliedCwd(f, s, isDir) \in Dirs
  BY DEF AppliedCwd
<1>5. AppliedExported(f, s) \subseteq Keys
  BY DEF AppliedExported
<1> QED
  BY <1>1, <1>2, <1>3, <1>4, <1>5 DEF Applied

\* Binding a variable gives a state.
LEMMA BindType ==
  ASSUME NEW s \in States, NEW k \in Keys, NEW x \in Vals \cup {NoVal},
         NEW y \in Vals \cup {NoVal}, NEW e \in SUBSET Keys
  PROVE  Bind(s, k, x, y, e) \in States
<1>1. [s.vars EXCEPT ![k] = x] \in [Keys -> Vals \cup {NoVal}]
  BY DEF States
<1>2. [s.env EXCEPT ![k] = y] \in [Keys -> Vals \cup {NoVal}]
  BY DEF States
<1> QED
  BY <1>1, <1>2 DEF Bind, States

\* A command leaves a well-typed shell.
LEMMA CommandType ==
  ASSUME TypeOK, Command, sh' \in States PROVE TypeOK'
BY FoldAssumption DEF TypeOK, Command, history

\* A boundary journals well-typed deltas.
LEMMA BoundaryType == ASSUME TypeOK, CommandFinished PROVE TypeOK'
<1> USE FoldAssumption DEF TypeOK
<1>1. \A k \in Keys : FoldEnv(k) \in Vals \cup {NoEntry}
  BY DEF FoldEnv, EnvEvent, States, Deltas
<1>2. \A k \in Keys : FoldVar(k) \in Vals \cup {NoEntry, Removed}
  BY DEF FoldVar, VarEvent, States, Deltas
<1>3. \A n \in Names : FoldName(n) \in Vals \cup {NoEntry, Removed}
  BY DEF FoldName, NameEvent, States, Deltas
<1>4. \A o \in Opts : FoldOpt(o) \in BOOLEAN \cup {NoEntry}
  BY DEF FoldOpt, States, Deltas
<1>5. (IF sh.cwd # snap.cwd THEN sh.cwd ELSE folded.cwd) \in Dirs \cup {NoEntry}
  BY DEF States, Deltas
<1>6. folded' \in Deltas
  BY <1>1, <1>2, <1>3, <1>4, <1>5 DEF CommandFinished, Deltas
<1> QED
  BY <1>6 DEF CommandFinished

\* Every step keeps the state well typed.
LEMMA TypeStep == ASSUME TypeOK, Next PROVE TypeOK'
<1> USE FoldAssumption
<1> sh \in States
  BY DEF TypeOK
<1>1. CASE \E k \in Keys : MarkExported(k)
  <2>1. sh' \in States
    <3>1. PICK k \in Keys : MarkExported(k)
      BY <1>1
    <3>2. sh.vars[k] \in Vals \cup {NoVal} /\ sh.env[k] \in Vals \cup {NoVal}
      BY DEF States
    <3>3. sh.exported \cup {k} \in SUBSET Keys /\ sh.exported \ {k} \in SUBSET Keys /\ sh.exported \in SUBSET Keys
      BY DEF States
    <3> QED
      BY <3>1, <3>2, <3>3, BindType DEF MarkExported
  <2>2. Command
    BY <1>1 DEF MarkExported
  <2> QED
    BY <2>1, <2>2, CommandType
<1>2. CASE \E k \in Keys : Unexport(k)
  <2>1. sh' \in States
    <3>1. PICK k \in Keys : Unexport(k)
      BY <1>2
    <3>2. sh.vars[k] \in Vals \cup {NoVal} /\ sh.env[k] \in Vals \cup {NoVal}
      BY DEF States
    <3>3. sh.exported \cup {k} \in SUBSET Keys /\ sh.exported \ {k} \in SUBSET Keys /\ sh.exported \in SUBSET Keys
      BY DEF States
    <3> QED
      BY <3>1, <3>2, <3>3, BindType DEF Unexport
  <2>2. Command
    BY <1>2 DEF Unexport
  <2> QED
    BY <2>1, <2>2, CommandType
<1>3. CASE \E k \in Keys : Unset(k)
  <2>1. sh' \in States
    <3>1. PICK k \in Keys : Unset(k)
      BY <1>3
    <3>2. sh.vars[k] \in Vals \cup {NoVal} /\ sh.env[k] \in Vals \cup {NoVal}
      BY DEF States
    <3>3. sh.exported \cup {k} \in SUBSET Keys /\ sh.exported \ {k} \in SUBSET Keys /\ sh.exported \in SUBSET Keys
      BY DEF States
    <3> QED
      BY <3>1, <3>2, <3>3, BindType DEF Unset
  <2>2. Command
    BY <1>3 DEF Unset
  <2> QED
    BY <2>1, <2>2, CommandType
<1>4. CASE \E k \in Keys, v \in Vals : SetVar(k, v)
  <2>1. sh' \in States
    <3>1. PICK k \in Keys, v \in Vals : SetVar(k, v)
      BY <1>4
    <3>2. sh.vars[k] \in Vals \cup {NoVal} /\ sh.env[k] \in Vals \cup {NoVal}
      BY DEF States
    <3>3. sh.exported \cup {k} \in SUBSET Keys /\ sh.exported \ {k} \in SUBSET Keys /\ sh.exported \in SUBSET Keys
      BY DEF States
    <3> QED
      BY <3>1, <3>2, <3>3, BindType DEF SetVar
  <2>2. Command
    BY <1>4 DEF SetVar
  <2> QED
    BY <2>1, <2>2, CommandType
<1>5. CASE \E k \in Keys, v \in Vals : ExportVar(k, v)
  <2>1. sh' \in States
    <3>1. PICK k \in Keys, v \in Vals : ExportVar(k, v)
      BY <1>5
    <3>2. sh.vars[k] \in Vals \cup {NoVal} /\ sh.env[k] \in Vals \cup {NoVal}
      BY DEF States
    <3>3. sh.exported \cup {k} \in SUBSET Keys /\ sh.exported \ {k} \in SUBSET Keys /\ sh.exported \in SUBSET Keys
      BY DEF States
    <3> QED
      BY <3>1, <3>2, <3>3, BindType DEF ExportVar
  <2>2. Command
    BY <1>5 DEF ExportVar
  <2> QED
    BY <2>1, <2>2, CommandType
<1>6. CASE \E n \in Names, v \in Vals : SetName(n, v)
  <2>1. sh' \in States
    BY <1>6 DEF SetName, States
  <2>2. Command
    BY <1>6 DEF SetName
  <2> QED
    BY <2>1, <2>2, CommandType
<1>7. CASE \E n \in Names : RemoveName(n)
  <2>1. sh' \in States
    BY <1>7 DEF RemoveName, States
  <2>2. Command
    BY <1>7 DEF RemoveName
  <2> QED
    BY <2>1, <2>2, CommandType
<1>8. CASE \E o \in Opts : SetOpt(o)
  <2>1. sh' \in States
    <3>1. PICK o \in Opts : SetOpt(o)
      BY <1>8
    <3>2. [sh.opts EXCEPT ![o] = ~sh.opts[o]] \in [Opts -> BOOLEAN]
      BY DEF States
    <3> QED
      BY <3>1, <3>2 DEF SetOpt, States
  <2>2. Command
    BY <1>8 DEF SetOpt
  <2> QED
    BY <2>1, <2>2, CommandType
<1>9. CASE \E d \in Dirs : ChangeDir(d)
  <2>1. sh' \in States
    BY <1>9 DEF ChangeDir, States
  <2>2. Command
    BY <1>9 DEF ChangeDir
  <2> QED
    BY <2>1, <2>2, CommandType
<1>10. CASE CommandFinished
  BY <1>10, BoundaryType
<1>11. CASE \E isDir \in BOOLEAN : Resume(isDir)
  <2>1. NoDeltas \in Deltas
    BY DEF NoDeltas, Deltas
  <2> QED
    BY <1>11, <2>1, AppliedType DEF Resume, TypeOK, history
<1>12. CASE DieAndStart
  <2>1. NoDeltas \in Deltas
    BY DEF NoDeltas, Deltas
  <2> QED
    BY <1>12, <2>1 DEF DieAndStart, TypeOK
<1> QED
  BY <1>1, <1>2, <1>3, <1>4, <1>5, <1>6, <1>7, <1>8, <1>9, <1>10, <1>11, <1>12
  DEF Next

\* The recorder's and the shell's state are always well typed.
THEOREM TypeCorrect == Spec => []TypeOK
<1>1. TypeOK /\ UNCHANGED vars => TypeOK'
  BY DEF TypeOK, vars, history
<1> QED
  BY <1>1, TypeInit, TypeStep, PTL DEF Spec

-----------------------------------------------------------------------------
(* The environment mirrors the exported variables. *)

MirrorInv == Mirrored(base) /\ Mirrored(sh) /\ Mirrored(snap)

\* Binding k keeps the mirror when the new entry fits the attribute.
LEMMA BindMirrored ==
  ASSUME NEW s \in States, NEW k \in Keys, NEW x, NEW y, NEW e \in SUBSET Keys,
         Mirrored(s), y = IF k \in e THEN x ELSE NoVal,
         e \ {k} = s.exported \ {k}
  PROVE  Mirrored(Bind(s, k, x, y, e))
<1> DEFINE t == Bind(s, k, x, y, e)
<1>1. /\ t.vars = [s.vars EXCEPT ![k] = x] /\ t.env = [s.env EXCEPT ![k] = y]
      /\ t.exported = e
  BY DEF Bind, States
<1>2. s.vars \in [Keys -> Vals \cup {NoVal}] /\ s.env \in [Keys -> Vals \cup {NoVal}]
  BY DEF States
<1>3. ASSUME NEW j \in Keys
      PROVE  t.env[j] = IF j \in t.exported THEN t.vars[j] ELSE NoVal
  <2>1. CASE j = k
    BY <1>1, <1>2, <2>1
  <2>2. CASE j # k
    <3>1. j \in e <=> j \in s.exported
      BY <2>2
    <3>2. t.env[j] = s.env[j] /\ t.vars[j] = s.vars[j]
      BY <1>1, <1>2, <2>2
    <3> QED
      BY <1>1, <3>1, <3>2 DEF Mirrored
  <2> QED
    BY <2>1, <2>2
<1> HIDE DEF t
<1>4. Mirrored(t)
  BY <1>3 DEF Mirrored
<1> QED
  BY <1>4 DEF t

\* Replaying deltas gives a mirrored state.
LEMMA AppliedMirrored ==
  ASSUME NEW f \in Deltas, NEW s \in States, NEW isDir \in BOOLEAN
  PROVE  Mirrored(Applied(f, s, isDir))
BY DEF Mirrored, Applied

\* MirrorInv is inductive.
LEMMA MirrorStep == ASSUME TypeOK, MirrorInv, Next PROVE MirrorInv'
<1> USE FoldAssumption
<1> sh \in States /\ dead \in Deltas /\ sh.exported \subseteq Keys
  BY DEF TypeOK, States
<1>0. ASSUME UNCHANGED <<base, snap>>, Mirrored(sh)' PROVE MirrorInv'
  BY <1>0 DEF MirrorInv, Mirrored
<1>1. CASE \E k \in Keys : MarkExported(k)
  <2> PICK k \in Keys : MarkExported(k)
    BY <1>1
  <2>2. Mirrored(Bind(sh, k, sh.vars[k], sh.vars[k], sh.exported \cup {k}))
    BY BindMirrored DEF MirrorInv
  <2>3. Mirrored(sh)'
    BY <2>2 DEF MarkExported, Mirrored
  <2> QED
    BY <1>0, <2>3 DEF MarkExported, Command
<1>2. CASE \E k \in Keys : Unexport(k)
  <2> PICK k \in Keys : Unexport(k)
    BY <1>2
  <2>2. Mirrored(Bind(sh, k, sh.vars[k], NoVal, sh.exported \ {k}))
    BY BindMirrored DEF MirrorInv
  <2>3. Mirrored(sh)'
    BY <2>2 DEF Unexport, Mirrored
  <2> QED
    BY <1>0, <2>3 DEF Unexport, Command
<1>3. CASE \E k \in Keys : Unset(k)
  <2> PICK k \in Keys : Unset(k)
    BY <1>3
  <2>2. Mirrored(Bind(sh, k, NoVal, NoVal, sh.exported \ {k}))
    BY BindMirrored DEF MirrorInv
  <2>3. Mirrored(sh)'
    BY <2>2 DEF Unset, Mirrored
  <2> QED
    BY <1>0, <2>3 DEF Unset, Command
<1>4. CASE \E k \in Keys, v \in Vals : SetVar(k, v)
  <2> PICK k \in Keys, v \in Vals : SetVar(k, v)
    BY <1>4
  <2>1. (IF k \in sh.exported THEN v ELSE sh.env[k]) = IF k \in sh.exported THEN v ELSE NoVal
    BY DEF MirrorInv, Mirrored
  <2>2. Mirrored(Bind(sh, k, v, IF k \in sh.exported THEN v ELSE sh.env[k], sh.exported))
    BY <2>1, BindMirrored DEF MirrorInv
  <2>3. Mirrored(sh)'
    BY <2>2 DEF SetVar, Mirrored
  <2> QED
    BY <1>0, <2>3 DEF SetVar, Command
<1>5. CASE \E k \in Keys, v \in Vals : ExportVar(k, v)
  <2> PICK k \in Keys, v \in Vals : ExportVar(k, v)
    BY <1>5
  <2>2. Mirrored(Bind(sh, k, v, v, sh.exported \cup {k}))
    BY BindMirrored DEF MirrorInv
  <2>3. Mirrored(sh)'
    BY <2>2 DEF ExportVar, Mirrored
  <2> QED
    BY <1>0, <2>3 DEF ExportVar, Command
<1>6. CASE \/ \E n \in Names : RemoveName(n) \/ \E v \in Vals : SetName(n, v)
           \/ \E o \in Opts : SetOpt(o)
           \/ \E d \in Dirs : ChangeDir(d)
  <2>1. UNCHANGED <<sh.vars, sh.env, sh.exported, base, snap>>
    BY <1>6 DEF RemoveName, SetName, SetOpt, ChangeDir, Command, States
  <2> QED
    BY <1>0, <2>1 DEF MirrorInv, Mirrored
<1>7. CASE CommandFinished
  BY <1>7 DEF CommandFinished, MirrorInv, Mirrored
<1>8. CASE \E isDir \in BOOLEAN : Resume(isDir)
  <2> PICK isDir \in BOOLEAN : Resume(isDir)
    BY <1>8
  <2>1. Mirrored(sh)'
    BY AppliedMirrored DEF Resume, Mirrored
  <2> QED
    BY <1>0, <2>1 DEF Resume
<1>9. CASE DieAndStart
  BY <1>9 DEF DieAndStart, MirrorInv, Mirrored
<1> QED
  BY <1>1, <1>2, <1>3, <1>4, <1>5, <1>6, <1>7, <1>8, <1>9 DEF Next

-----------------------------------------------------------------------------
(* What the deltas say about the last snapshot. *)

NameInv(n) ==
  \/ /\ folded.names[n] = NoEntry
     /\ snap.names[n] = base.names[n] \/ (n \in named /\ snap.names[n] = NoVal)
  \/ folded.names[n] = Removed /\ snap.names[n] = NoVal
  \/ /\ folded.names[n] \in Vals /\ folded.names[n] = snap.names[n]
     /\ n \in named

\* Keys about which VarsRestored says nothing.
Mixed(k) == k \in asEnv \cap asVar \/ (k \in asUnset /\ base.vars[k] # NoVal)

VarInv(k) ==
  \/ Mixed(k)
  \/ /\ AppliedVar(folded, base, k) = snap.vars[k]
     /\ folded.env[k] \in Vals => k \in asEnv
     /\ folded.vars[k] \in Vals => k \in asVar
     /\ folded.vars[k] # Removed

FoldInv == /\ \A n \in Names : NameInv(n)
           /\ \A k \in Keys : VarInv(k)
           /\ SettingsRestored
           /\ boundaries = 0 => folded = NoDeltas /\ snap = base
           /\ FirstBoundaryExact

\* A new session satisfies FoldInv: nothing is journaled, nothing has changed.
LEMMA FoldBegin ==
  ASSUME folded = NoDeltas, snap = base, boundaries = 0, base \in States
  PROVE  FoldInv
<1> USE FoldAssumption DEF NoDeltas
<1>1. \A n \in Names : NameInv(n)
  BY DEF NameInv
<1>2. \A k \in Keys : VarInv(k)
  BY DEF VarInv, AppliedVar
<1>3. SettingsRestored
  BY DEF SettingsRestored, AppliedOpt, AppliedCwd
<1> QED
  BY <1>1, <1>2, <1>3 DEF FoldInv, FirstBoundaryExact

\* A boundary keeps the facts about names.
LEMMA BoundaryNames ==
  ASSUME TypeOK, FoldInv, CommandFinished, NEW n \in Names PROVE NameInv(n)'
<1> USE FoldAssumption
<1>1. NameInv(n)
  BY DEF FoldInv
<1>2. /\ folded'.names[n] = FoldName(n) /\ snap' = sh /\ base' = base
      /\ n \in named => n \in named'
      /\ NameEvent(n) => n \in named'
  BY DEF CommandFinished
<1>3. sh.names[n] \in Vals \cup {NoVal} /\ snap.names[n] \in Vals \cup {NoVal}
  BY DEF TypeOK, States
<1> QED
  BY <1>1, <1>2, <1>3 DEF NameInv, FoldName, NameEvent, UnnameEvent

\* A boundary keeps the facts about variables.
LEMMA BoundaryVars ==
  ASSUME TypeOK, MirrorInv, FoldInv, CommandFinished, NEW k \in Keys PROVE VarInv(k)'
<1> USE FoldAssumption
<1>1. VarInv(k)
  BY DEF FoldInv
<1>2. /\ folded'.env[k] = FoldEnv(k) /\ folded'.vars[k] = FoldVar(k)
      /\ snap' = sh /\ base' = base
      /\ k \in asEnv' <=> k \in asEnv \/ EnvEvent(k)
      /\ k \in asVar' <=> k \in asVar \/ VarEvent(k)
      /\ k \in asUnset' <=> k \in asUnset \/ UnsetEvent(k)
  BY DEF CommandFinished
<1>3. /\ sh.vars[k] \in Vals \cup {NoVal} /\ snap.vars[k] \in Vals \cup {NoVal}
      /\ sh.env[k] = (IF k \in sh.exported THEN sh.vars[k] ELSE NoVal)
      /\ snap.env[k] = (IF k \in snap.exported THEN snap.vars[k] ELSE NoVal)
      /\ folded.vars[k] \in Vals \cup {NoEntry, Removed}
      /\ folded.env[k] \in Vals \cup {NoEntry}
      /\ base.vars[k] \in Vals \cup {NoVal}
  BY DEF TypeOK, States, Deltas, MirrorInv, Mirrored
<1>4. Mixed(k) => Mixed(k)'
  BY <1>2 DEF Mixed
<1>5. SUFFICES ASSUME ~Mixed(k)' PROVE VarInv(k)'
  BY DEF VarInv
<1>6. /\ AppliedVar(folded, base, k) = snap.vars[k]
      /\ folded.env[k] \in Vals => k \in asEnv
      /\ folded.vars[k] \in Vals => k \in asVar
      /\ folded.vars[k] # Removed
  BY <1>1, <1>4, <1>5 DEF VarInv
<1>7. CASE EnvEvent(k)
  BY <1>2, <1>3, <1>5, <1>6, <1>7
  DEF VarInv, Mixed, AppliedVar, FoldEnv, FoldVar, EnvEvent, VarEvent, UnsetEvent
<1>8. CASE VarEvent(k)
  BY <1>2, <1>3, <1>5, <1>6, <1>8
  DEF VarInv, Mixed, AppliedVar, FoldEnv, FoldVar, EnvEvent, VarEvent, UnsetEvent
<1>9. CASE UnsetEvent(k)
  BY <1>2, <1>3, <1>5, <1>6, <1>9
  DEF VarInv, Mixed, AppliedVar, FoldEnv, FoldVar, EnvEvent, VarEvent, UnsetEvent
<1>10. CASE ~EnvEvent(k) /\ ~VarEvent(k) /\ ~UnsetEvent(k)
  <2>1. sh.vars[k] = snap.vars[k]
    BY <1>3, <1>10 DEF EnvEvent, VarEvent, UnsetEvent
  <2> QED
    BY <1>2, <1>6, <1>10, <2>1 DEF VarInv, AppliedVar, FoldEnv, FoldVar
<1> QED
  BY <1>7, <1>8, <1>9, <1>10

\* A boundary keeps options and the working directory restorable.
LEMMA BoundarySettings ==
  ASSUME TypeOK, FoldInv, CommandFinished PROVE SettingsRestored'
<1> USE FoldAssumption
<1>1. ASSUME NEW o \in Opts PROVE (AppliedOpt(folded, base, o) = snap.opts[o])'
  <2>1. AppliedOpt(folded, base, o) = snap.opts[o]
    BY DEF FoldInv, SettingsRestored
  <2>2. folded'.opts[o] = FoldOpt(o) /\ snap' = sh /\ base' = base
    BY DEF CommandFinished
  <2>3. sh.opts[o] # NoEntry
    BY DEF TypeOK, States
  <2> QED
    BY <2>1, <2>2, <2>3 DEF AppliedOpt, FoldOpt
<1>2. (AppliedCwd(folded, base, TRUE) = snap.cwd)'
  <2>1. AppliedCwd(folded, base, TRUE) = snap.cwd
    BY DEF FoldInv, SettingsRestored
  <2>2. /\ folded'.cwd = (IF sh.cwd # snap.cwd THEN sh.cwd ELSE folded.cwd)
        /\ snap' = sh /\ base' = base
    BY DEF CommandFinished
  <2>3. sh.cwd # NoEntry
    BY DEF TypeOK, States
  <2> QED
    BY <2>1, <2>2, <2>3 DEF AppliedCwd
<1> QED
  BY <1>1, <1>2 DEF SettingsRestored

\* The first boundary of a session journals the whole difference to the start.
LEMMA FirstBoundary ==
  ASSUME TypeOK, MirrorInv, FoldInv, CommandFinished PROVE FirstBoundaryExact'
<1> USE FoldAssumption
<1>1. SUFFICES ASSUME boundaries' = 1 PROVE FirstBoundaryExact'
  BY DEF FirstBoundaryExact
<1>2. folded = NoDeltas /\ snap = base
  <2>1. boundaries = 0
    BY <1>1 DEF CommandFinished, TypeOK
  <2> QED
    BY <2>1 DEF FoldInv
<1>3. snap' = sh /\ base' = base
  BY DEF CommandFinished
<1>4. ASSUME NEW k \in Keys PROVE (AppliedVar(folded, base, k) = snap.vars[k])'
  <2>1. folded'.env[k] = FoldEnv(k) /\ folded'.vars[k] = FoldVar(k)
    BY DEF CommandFinished
  <2>2. /\ sh.vars[k] \in Vals \cup {NoVal} /\ base.vars[k] \in Vals \cup {NoVal}
        /\ sh.env[k] = (IF k \in sh.exported THEN sh.vars[k] ELSE NoVal)
        /\ base.env[k] = (IF k \in base.exported THEN base.vars[k] ELSE NoVal)
    BY DEF TypeOK, States, MirrorInv, Mirrored
  <2>3. folded.env[k] = NoEntry /\ folded.vars[k] = NoEntry
    BY <1>2 DEF NoDeltas
  <2> QED
    BY <1>2, <1>3, <2>1, <2>2, <2>3
    DEF AppliedVar, FoldEnv, FoldVar, EnvEvent, VarEvent, UnsetEvent
<1>5. ASSUME NEW n \in Names PROVE (AppliedName(folded, base, n) = snap.names[n])'
  <2>1. folded'.names[n] = FoldName(n)
    BY DEF CommandFinished
  <2>2. sh.names[n] \in Vals \cup {NoVal} /\ base.names[n] \in Vals \cup {NoVal}
    BY DEF TypeOK, States
  <2>3. folded.names[n] = NoEntry
    BY <1>2 DEF NoDeltas
  <2> QED
    BY <1>2, <1>3, <2>1, <2>2, <2>3 DEF AppliedName, FoldName, NameEvent, UnnameEvent
<1> QED
  BY <1>4, <1>5 DEF FirstBoundaryExact

\* FoldInv is inductive.
LEMMA FoldStep ==
  ASSUME TypeOK, MirrorInv, FoldInv, [Next]_vars PROVE FoldInv'
<1>1. CASE CommandFinished
  <2>1. boundaries' # 0
    BY <1>1 DEF CommandFinished, TypeOK
  <2> QED
    BY <1>1, <2>1, BoundaryNames, BoundaryVars, BoundarySettings, FirstBoundary DEF FoldInv
<1>2. CASE DieAndStart
  <2>1. (folded = NoDeltas /\ snap = base /\ boundaries = 0 /\ base \in States)'
    BY <1>2 DEF DieAndStart, TypeOK, NoDeltas
  <2> QED
    BY <2>1, FoldBegin, PTL
<1>3. CASE UNCHANGED <<base, snap, folded, history>>
  BY <1>3 DEF FoldInv, NameInv, VarInv, Mixed, SettingsRestored, FirstBoundaryExact, history,
              AppliedVar, AppliedName, AppliedOpt, AppliedCwd, NoDeltas
<1> QED
  BY <1>1, <1>2, <1>3
  DEF Next, vars, history, Command, SetVar, ExportVar, MarkExported, Unexport, Unset, SetName,
      RemoveName, SetOpt, ChangeDir, Resume

\* The deltas always describe the last snapshot.
LEMMA FoldInvariant == Spec => [](TypeOK /\ MirrorInv /\ FoldInv)
<1>1. Init => MirrorInv /\ FoldInv
  BY FoldBegin DEF Init, Begin, MirrorInv
<1>2. TypeOK /\ MirrorInv /\ UNCHANGED vars => MirrorInv'
  BY DEF MirrorInv, Mirrored, vars
<1>3. TypeOK /\ MirrorInv /\ [Next]_vars => MirrorInv'
  BY <1>2, MirrorStep
<1> QED
  BY <1>1, <1>3, FoldStep, TypeCorrect, PTL DEF Spec

\* Aliases, abbreviations and functions are restored as they were, but for a
\* redefined and then removed rc definition.
THEOREM NamesAreRestored == Spec => []NamesRestored
<1>1. TypeOK /\ FoldInv => NamesRestored
  BY FoldAssumption DEF FoldInv, NameInv, NamesRestored, AppliedName
<1> QED
  BY <1>1, FoldInvariant, PTL

\* A variable of one kind is restored with its value.
THEOREM VarsAreRestored == Spec => []VarsRestored
<1>1. FoldInv => VarsRestored
  BY DEF FoldInv, VarInv, Mixed, VarsRestored
<1> QED
  BY <1>1, FoldInvariant, PTL

\* One boundary after its start a session's journal restores every value.
THEOREM FirstBoundaryIsExact == Spec => []FirstBoundaryExact
<1>1. FoldInv => FirstBoundaryExact
  BY DEF FoldInv
<1> QED
  BY <1>1, FoldInvariant, PTL

\* Options and the working directory are always restored.
THEOREM SettingsAreRestored == Spec => []SettingsRestored
<1>1. FoldInv => SettingsRestored
  BY DEF FoldInv
<1> QED
  BY <1>1, FoldInvariant, PTL

\* The whole state comes back: the conjunction the model checker looks at, for
\* every set of names, keys, options and values.
THEOREM StateIsRestored == Spec => []StateRestored
<1>1. NamesRestored /\ VarsRestored /\ SettingsRestored => StateRestored
  BY DEF StateRestored
<1> QED
  BY <1>1, NamesAreRestored, VarsAreRestored, SettingsAreRestored, PTL

-----------------------------------------------------------------------------
(* The journal files of several shells *)

Phases == {"starting", "reading", "consuming", "closing", "diffing", "leaving"}
Early == {"none", "prune", "starting"}

\* The read loop has events to append only in the phases that append, those of
\* the phase, and only a resume appends to another session's journal.
TodoOf == [starting |-> {"start"}, reading |-> {"fg"}, consuming |-> {"restored"},
           closing |-> {"fgend"}, diffing |-> Shells, leaving |-> {"exit"}]

Journals == [pid : BOOLEAN, saved : SUBSET Shells, fg : BOOLEAN, restored : BOOLEAN,
             exit : BOOLEAN, tail : Events \cup {None, "corrupt"}]

LoopOK ==
  /\ pc \in [Shells -> Phases \cup {"none", "prune", "prompt", "run", "gone"}]
  /\ has \in [Shells -> SUBSET Shells] /\ snaps \in [Shells -> SUBSET Shells]
  /\ todo \in [Shells -> SUBSET Events] /\ target \in [Shells -> Shells]
  /\ victims \in [Shells -> SUBSET Shells] /\ DOMAIN newer \subseteq Shells
  /\ content \in [Shells -> Journals] /\ hook \in [Shells -> {"idle", "open", "removed", "done"}]
  /\ \A s \in Shells :
       /\ todo[s] \subseteq IF pc[s] \in Phases THEN TodoOf[pc[s]] ELSE {}
       /\ pc[s] \notin {"consuming", "gone"} => target[s] = s
       /\ pc[s] \in Early => has[s] = {}
       /\ snaps[s] \subseteq has[s]
       /\ hook[s] # "idle" => pc[s] \notin Early
       /\ s \in clean => pc[s] = "gone"

\* A journal that lost no event: each line is terminated, it has its Start record
\* from the moment it exists, what the recorder compared against is in it, it is
\* consumed only when its shell is gone, and a clean end left the Exit record.
Intact(f) ==
  /\ content[f].tail = None
  /\ Exists(f) => content[f].pid
  /\ pc[f] \notin Early \cup {"gone"} => Exists(f)
  /\ snaps[f] # {} => Exists(f)
  /\ snaps[f] \subseteq content[f].saved
  /\ content[f].restored => pc[f] = "gone"
  /\ f \in clean => content[f].exit
  /\ pc[f] = "diffing" => has[f] \subseteq todo[f] \cup content[f].saved

\* A shell that is about to mark a journal consumed has all the work in it.
Taken(t) ==
  pc[t] = "consuming" /\ target[t] \notin faulty =>
    /\ pc[target[t]] = "gone" /\ Exists(target[t])
    /\ content[target[t]].saved \subseteq has[t]

\* i's work is with s, and not given up.
Keeps(s, i) ==
  /\ i \in has[s]
  /\ Live(s) \/ s \in clean \cup faulty \/ content[s].exit \/ i \notin snaps[s] \/ ~content[s].restored

\* WorkSurvives alone is not inductive: whether a dead session is on offer
\* depends on what its journal received while it lived.
JournalInv ==
  /\ LoopOK
  /\ \A f \in Shells \ faulty : Intact(f)
  /\ \A t \in Shells : Taken(t)
  /\ \A i \in Shells : i \in snaps[i] => \E s \in Shells : Keeps(s, i)

-----------------------------------------------------------------------------
(* The file *)

\* What one event makes of a folded journal.
LEMMA FoldFacts ==
  ASSUME NEW j \in Journals, NEW e \in Events
  PROVE  /\ Fold(j, e) \in Journals
         /\ e = "start" => /\ Fold(j, e).pid /\ ~Fold(j, e).restored
                           /\ Fold(j, e).tail = None
         /\ e # "start" => /\ Fold(j, e).pid = j.pid /\ Fold(j, e).tail = j.tail
                           /\ Fold(j, e).saved = IF e \in Shells THEN j.saved \cup {e} ELSE j.saved
                           /\ Fold(j, e).restored <=> (j.restored \/ e = "restored")
                           /\ Fold(j, e).exit <=> (j.exit \/ e = "exit")
<1>1. CASE e = "start"
  BY <1>1 DEF Fold, Empty, Journals
<1>2. CASE e # "start"
  BY <1>2 DEF Fold, Journals
<1> QED BY <1>1, <1>2

\* A full write to a journal whose last line is complete.
LEMMA WroteFacts ==
  ASSUME NEW j \in Journals, NEW e \in Events
  PROVE  /\ Wrote(j, e) \in Journals
         /\ j.tail = None /\ e = "start" =>
              /\ Wrote(j, e).pid /\ ~Wrote(j, e).restored /\ Wrote(j, e).tail = None
         /\ j.tail = None /\ e # "start" =>
              /\ Wrote(j, e).pid = j.pid /\ Wrote(j, e).tail = None
              /\ Wrote(j, e).saved = IF e \in Shells THEN j.saved \cup {e} ELSE j.saved
              /\ Wrote(j, e).restored <=> (j.restored \/ e = "restored")
              /\ Wrote(j, e).exit <=> (j.exit \/ e = "exit")
<1> DEFINE k == IF j.tail = None THEN Fold(j, e) ELSE j
<1>1. k \in Journals BY FoldFacts
<1>2. Wrote(j, e) = [k EXCEPT !.tail = None] BY DEF Wrote
<1> HIDE DEF k
<1>3. /\ Wrote(j, e) \in Journals /\ Wrote(j, e).tail = None
      /\ Wrote(j, e).pid = k.pid /\ Wrote(j, e).saved = k.saved
      /\ Wrote(j, e).restored = k.restored /\ Wrote(j, e).exit = k.exit
  BY <1>1, <1>2 DEF Journals
<1>4. CASE j.tail = None
  <2>1. k = Fold(j, e) BY <1>4 DEF k
  <2> QED BY <1>3, <1>4, <2>1, FoldFacts, Zenon
<1>5. CASE j.tail # None BY <1>3, <1>5
<1> QED BY <1>4, <1>5

\* A short write leaves a journal, and what is read of one is one.
LEMMA WrotePartType ==
  ASSUME NEW j \in Journals, NEW e \in Events, NEW b \in BOOLEAN
  PROVE  WrotePart(j, e, b) \in Journals
BY DEF WrotePart, Journals

\* Reading a journal that ends in a complete line folds nothing more.
LEMMA ViewFacts ==
  ASSUME LoopOK, NEW f \in Shells
  PROVE  View(f) \in Journals /\ (content[f].tail = None => View(f) = content[f])
<1>1. content[f] \in Journals BY DEF LoopOK
<1>2. CASE content[f].tail \in Events
  <2>1. View(f) \in Journals BY <1>1, <1>2, FoldFacts DEF View
  <2> QED BY <1>2, <2>1, JournalAssumption
<1>3. CASE content[f].tail \notin Events BY <1>1, <1>3 DEF View
<1> QED BY <1>2, <1>3

\* The outcomes of try_append: only this journal changes, and unless it lost the
\* event it is there with the event at its end.
AppendOutcome(f, e) ==
  /\ content' \in [Shells -> Journals]
  /\ \A g \in Shells \ {f} : content'[g] = content[g]
  /\ faulty' = faulty \/ faulty' = faulty \cup {f}
  /\ DOMAIN newer' = DOMAIN newer \/ DOMAIN newer' = DOMAIN newer \cup {f}
  /\ f \notin faulty' => /\ content[f].tail = None /\ content'[f] = Wrote(content[f], e)
                         /\ f \in DOMAIN newer'

\* try_append has one of these outcomes.
LEMMA WriteOutcome ==
  ASSUME LoopOK, NEW f \in Shells, NEW e \in Events,
         \/ WriteAll(f, e) \/ WriteFails(f, e)
         \/ faulty' = faulty \cup {f} /\ UNCHANGED <<content, newer>>
  PROVE  AppendOutcome(f, e)
<1>1. content \in [Shells -> Journals] BY DEF LoopOK
<1>2. DOMAIN Touched(f) = DOMAIN newer \cup {f} BY DEF Touched
<1>3. CASE WriteAll(f, e)
  <2>1. Wrote(content[f], e) \in Journals BY <1>1, WroteFacts
  <2>2. content' = [content EXCEPT ![f] = Wrote(@, e)] /\ newer' = Touched(f) BY <1>3 DEF WriteAll
  <2>3. /\ content' \in [Shells -> Journals] /\ content'[f] = Wrote(content[f], e)
        /\ \A g \in Shells \ {f} : content'[g] = content[g]
    BY <1>1, <2>1, <2>2
  <2>4. faulty' = IF content[f].tail = None THEN faulty ELSE faulty \cup {f} BY <1>3 DEF WriteAll
  <2> QED BY <1>2, <2>2, <2>3, <2>4 DEF AppendOutcome
<1>4. CASE WriteFails(f, e)
  <2>1. faulty' = faulty \cup {f} BY <1>4 DEF WriteFails
  <2>2. DOMAIN newer' = DOMAIN newer \/ DOMAIN newer' = DOMAIN newer \cup {f}
    BY <1>2, <1>4 DEF WriteFails, Opened
  <2>3. CASE \E b \in BOOLEAN : content' = [content EXCEPT ![f] = WrotePart(@, e, b)]
    <3>1. PICK b \in BOOLEAN : content' = [content EXCEPT ![f] = WrotePart(@, e, b)] BY <2>3
    <3>2. WrotePart(content[f], e, b) \in Journals BY <1>1, WrotePartType
    <3>3. content' \in [Shells -> Journals] /\ \A g \in Shells \ {f} : content'[g] = content[g]
      BY <1>1, <3>1, <3>2
    <3> QED BY <2>1, <2>2, <3>3 DEF AppendOutcome
  <2>4. CASE UNCHANGED content
    BY <1>1, <2>1, <2>2, <2>4 DEF AppendOutcome
  <2> QED BY <1>4, <2>3, <2>4 DEF WriteFails
<1>5. CASE faulty' = faulty \cup {f} /\ UNCHANGED <<content, newer>>
  BY <1>1, <1>5 DEF AppendOutcome
<1> QED BY <1>3, <1>4, <1>5

-----------------------------------------------------------------------------
(* The steps that write no journal *)

\* A new shell lists the journals to prune.
LEMMA ListKeeps ==
  ASSUME JournalInv, NEW s \in Shells, ListVictims(s) PROVE JournalInv'
<1>1. /\ pc[s] = "none" /\ pc' = [pc EXCEPT ![s] = "prune"]
      /\ UNCHANGED <<has, snaps, todo, target, hook, newer, content, clean, faulty>>
  BY DEF ListVictims
<1>2. victims' \in [Shells -> SUBSET Shells] BY DEF ListVictims, JournalInv, LoopOK
<1>3. LoopOK' BY <1>1, <1>2 DEF JournalInv, LoopOK, Phases, Early
<1>4. \A t \in Shells : pc'[t] = IF t = s THEN "prune" ELSE pc[t] BY <1>1 DEF JournalInv, LoopOK
<1>5. ASSUME NEW f \in Shells \ faulty' PROVE Intact(f)'
  BY <1>1, <1>4 DEF JournalInv, Intact, Exists, Early
<1>6. ASSUME NEW t \in Shells PROVE Taken(t)'
  BY <1>1, <1>4 DEF JournalInv, LoopOK, Taken, Exists
<1>7. ASSUME NEW i \in Shells, i \in snaps'[i] PROVE \E t \in Shells : Keeps(t, i)'
  <2>1. PICK t \in Shells : Keeps(t, i) BY <1>1, <1>7 DEF JournalInv
  <2> QED BY <1>1, <1>4, <2>1 DEF Keeps, Live
<1> QED BY <1>3, <1>5, <1>6, <1>7 DEF JournalInv

\* It removes those it listed; a journal that is removed counts as faulty.
LEMMA RemoveKeeps ==
  ASSUME JournalInv, NEW s \in Shells, RemoveVictims(s) PROVE JournalInv'
<1>1. /\ pc[s] = "prune" /\ pc' = [pc EXCEPT ![s] = "starting"]
      /\ todo' = [todo EXCEPT ![s] = {"start"}] /\ victims' = [victims EXCEPT ![s] = {}]
      /\ faulty' = faulty \cup victims[s]
      /\ content' = [f \in Shells |-> IF f \in victims[s] THEN Empty ELSE content[f]]
      /\ hook' = [t \in Shells |-> IF t \in victims[s] /\ hook[t] = "open"
                                   THEN "removed" ELSE hook[t]]
      /\ DOMAIN newer' = DOMAIN newer \ victims[s]
      /\ UNCHANGED <<has, snaps, target, clean>>
  BY DEF RemoveVictims
<1>2. /\ content' \in [Shells -> Journals]
      /\ hook' \in [Shells -> {"idle", "open", "removed", "done"}]
  BY <1>1 DEF JournalInv, LoopOK, Empty, Journals
<1>3. LoopOK'
  <2>1. \A t \in Shells : hook'[t] # "idle" => hook[t] # "idle" BY <1>1
  <2>2. todo' \in [Shells -> SUBSET Events] BY <1>1 DEF JournalInv, LoopOK, Events
  <2> QED BY <1>1, <1>2, <2>1, <2>2 DEF JournalInv, LoopOK, Phases, Early, TodoOf
<1>4. \A t \in Shells : pc'[t] = IF t = s THEN "starting" ELSE pc[t] BY <1>1 DEF JournalInv, LoopOK
<1>5. ASSUME NEW f \in Shells \ faulty' PROVE Intact(f)'
  <2>1. f \notin faulty /\ content'[f] = content[f] /\ (f \in DOMAIN newer' <=> f \in DOMAIN newer)
    BY <1>1
  <2>2. Intact(f) BY <2>1 DEF JournalInv
  <2>3. pc'[f] = "diffing" => todo'[f] = todo[f] BY <1>1, <1>4 DEF JournalInv, LoopOK
  <2> QED BY <1>1, <1>4, <2>1, <2>2, <2>3 DEF Intact, Exists, Early
<1>6. ASSUME NEW t \in Shells, pc'[t] = "consuming", target'[t] \notin faulty'
      PROVE  /\ pc'[target'[t]] = "gone" /\ target'[t] \in DOMAIN newer'
             /\ content'[target'[t]].saved \subseteq has'[t]
  <2>1. /\ target'[t] = target[t] /\ target[t] \in Shells /\ target[t] \notin faulty
        /\ content'[target[t]] = content[target[t]] /\ pc[t] = "consuming"
    BY <1>1, <1>4, <1>6 DEF JournalInv, LoopOK
  <2>2. Taken(t) BY DEF JournalInv
  <2> QED BY <1>1, <1>4, <1>6, <2>1, <2>2 DEF Taken, Exists
<1>7. ASSUME NEW i \in Shells, i \in snaps'[i] PROVE \E t \in Shells : Keeps(t, i)'
  <2>1. PICK t \in Shells : Keeps(t, i) BY <1>1, <1>7 DEF JournalInv
  <2>2. t \in faulty' \/ content'[t] = content[t] BY <1>1
  <2> QED BY <1>1, <1>4, <2>1, <2>2 DEF Keeps, Live
<1> QED BY <1>3, <1>5, <1>6, <1>7 DEF JournalInv, Taken, Exists

\* The shell dies: what it had journaled is on offer.
LEMMA DieKeeps ==
  ASSUME JournalInv, NEW s \in Shells, Die(s) PROVE JournalInv'
<1>1. /\ Live(s) /\ pc' = [pc EXCEPT ![s] = "gone"] /\ hook' = [hook EXCEPT ![s] = "done"]
      /\ todo' = [todo EXCEPT ![s] = {}] /\ victims' = [victims EXCEPT ![s] = {}]
      /\ UNCHANGED <<has, snaps, target, newer, content, clean, faulty>>
  BY DEF Die
<1>2. LoopOK' BY <1>1 DEF JournalInv, LoopOK, Phases, Early
<1>3. \A t \in Shells : pc'[t] = IF t = s THEN "gone" ELSE pc[t] BY <1>1 DEF JournalInv, LoopOK
<1>4. ASSUME NEW f \in Shells \ faulty' PROVE Intact(f)'
  <2>1. Intact(f) BY <1>1 DEF JournalInv
  <2>2. pc'[f] = "diffing" => todo'[f] = todo[f] BY <1>1, <1>3 DEF JournalInv, LoopOK
  <2> QED BY <1>1, <1>3, <2>1, <2>2 DEF Intact, Exists, Early
<1>5. ASSUME NEW t \in Shells PROVE Taken(t)'
  BY <1>1, <1>3 DEF JournalInv, LoopOK, Taken, Exists
<1>6. ASSUME NEW i \in Shells, i \in snaps'[i] PROVE \E t \in Shells : Keeps(t, i)'
  <2>1. PICK t \in Shells : Keeps(t, i) BY <1>1, <1>6 DEF JournalInv
  <2>2. s \in faulty \/ ~content[s].restored
    BY <1>1 DEF JournalInv, Intact, Live
  <2> QED BY <1>1, <1>3, <2>1, <2>2 DEF Keeps, Live
<1> QED BY <1>2, <1>4, <1>5, <1>6 DEF JournalInv

\* The signal thread opens the journal, which was there unless it is faulty.
LEMMA SignalKeeps ==
  ASSUME JournalInv, NEW s \in Shells, Signal(s) PROVE JournalInv'
<1>1. /\ Live(s) /\ pc[s] \notin Early \cup {"gone"} /\ newer' = Opened(s)
      /\ hook' = [hook EXCEPT ![s] = "open"] \/ hook' = [hook EXCEPT ![s] = "done"]
      /\ UNCHANGED <<pc, has, snaps, todo, target, victims, content, clean, faulty>>
  BY DEF Signal, Live, Early
<1>2. DOMAIN newer' = DOMAIN newer \cup {s} BY <1>1 DEF Opened, Exists, Touched
<1>3. LoopOK' BY <1>1, <1>2 DEF JournalInv, LoopOK
<1>4. ASSUME NEW f \in Shells \ faulty' PROVE Intact(f)'
  BY <1>1, <1>2 DEF JournalInv, Intact, Exists
<1>5. ASSUME NEW t \in Shells PROVE Taken(t)' BY <1>1, <1>2 DEF JournalInv, Taken, Exists
<1>6. ASSUME NEW i \in Shells, i \in snaps'[i] PROVE \E t \in Shells : Keeps(t, i)'
  BY <1>1, <1>6 DEF JournalInv, Keeps, Live
<1> QED BY <1>3, <1>4, <1>5, <1>6 DEF JournalInv

\* The read loop goes on to a phase that appends to its own journal.
LEMMA ReadKeeps ==
  ASSUME JournalInv, NEW s \in Shells, ReadLine(s) \/ Work(s) PROVE JournalInv'
<1>1. /\ pc[s] \in {"prompt", "run"}
      /\ \E p \in {"reading", "leaving", "closing"} :
           pc' = [pc EXCEPT ![s] = p] /\ todo' = [todo EXCEPT ![s] = TodoOf[p]]
      /\ target' = [target EXCEPT ![s] = s]
      /\ \E w \in SUBSET {s} : has' = [has EXCEPT ![s] = @ \cup w]
      /\ UNCHANGED <<snaps, hook, victims, newer, content, clean, faulty>>
  <2>1. CASE ReadLine(s)
    <3>1. has \in [Shells -> SUBSET Shells] BY DEF JournalInv, LoopOK
    <3>2. has' = [has EXCEPT ![s] = @ \cup {}] BY <2>1, <3>1 DEF ReadLine
    <3> QED BY <2>1, <3>2 DEF ReadLine, Goto, TodoOf
  <2>2. CASE Work(s) BY <2>2 DEF Work, Goto, TodoOf
  <2> QED BY <2>1, <2>2
<1>2. PICK p \in {"reading", "leaving", "closing"} :
        pc' = [pc EXCEPT ![s] = p] /\ todo' = [todo EXCEPT ![s] = TodoOf[p]]
  BY <1>1
<1>3. PICK w \in SUBSET {s} : has' = [has EXCEPT ![s] = @ \cup w] BY <1>1
<1>4. \A t \in Shells : /\ pc'[t] = IF t = s THEN p ELSE pc[t]
                        /\ todo'[t] = IF t = s THEN TodoOf[p] ELSE todo[t]
                        /\ target'[t] = IF t = s THEN s ELSE target[t]
                        /\ has'[t] = IF t = s THEN has[s] \cup w ELSE has[t]
  <2>1. /\ DOMAIN pc = Shells /\ DOMAIN todo = Shells
        /\ DOMAIN target = Shells /\ DOMAIN has = Shells
    BY DEF JournalInv, LoopOK
  <2>2. target' = [target EXCEPT ![s] = s] BY <1>1
  <2> QED BY <1>2, <1>3, <2>1, <2>2
<1>5. LoopOK'
  <2>1. TodoOf[p] \in SUBSET Events /\ p \in Phases BY DEF TodoOf, Events, Phases
  <2>2. /\ pc' \in [Shells -> Phases \cup {"none", "prune", "prompt", "run", "gone"}]
        /\ has' \in [Shells -> SUBSET Shells] /\ todo' \in [Shells -> SUBSET Events]
        /\ target' \in [Shells -> Shells]
    BY <1>1, <1>2, <1>3, <2>1 DEF JournalInv, LoopOK
  <2> QED BY <1>1, <1>4, <2>1, <2>2 DEF JournalInv, LoopOK, Early
<1>6. ASSUME NEW f \in Shells \ faulty' PROVE Intact(f)'
  <2>1. Intact(f) BY <1>1 DEF JournalInv
  <2>2. CASE f = s BY <1>1, <1>4, <2>1, <2>2 DEF Intact, Exists, Early
  <2>3. CASE f # s BY <1>1, <1>4, <2>1, <2>3 DEF Intact, Exists
  <2> QED BY <2>2, <2>3
<1>7. ASSUME NEW t \in Shells PROVE Taken(t)'
  BY <1>1, <1>4 DEF JournalInv, LoopOK, Taken, Exists
<1>8. ASSUME NEW i \in Shells, i \in snaps'[i] PROVE \E t \in Shells : Keeps(t, i)'
  <2>1. PICK t \in Shells : Keeps(t, i) BY <1>1, <1>8 DEF JournalInv
  <2> QED BY <1>1, <1>4, <2>1 DEF Keeps, Live
<1> QED BY <1>5, <1>6, <1>7, <1>8 DEF JournalInv

\* A resume takes over all the work of a session that is gone.
LEMMA ResumeKeeps ==
  ASSUME JournalInv, NEW s \in Shells, NEW f \in Shells, ResumeFrom(s, f)
  PROVE  JournalInv'
<1>1. /\ pc[s] = "run" /\ Restorable(f)
      /\ has' = [has EXCEPT ![s] = @ \cup View(f).saved]
      /\ pc' = [pc EXCEPT ![s] = "consuming"] /\ todo' = [todo EXCEPT ![s] = {"restored"}]
      /\ target' = [target EXCEPT ![s] = f]
      /\ UNCHANGED <<snaps, hook, victims, newer, content, clean, faulty>>
  BY DEF ResumeFrom, Goto
<1>2. /\ View(f).saved \in SUBSET Shells
      /\ content[f].tail = None => View(f) = content[f]
  BY ViewFacts DEF JournalInv, Journals
<1>3. \A t \in Shells : /\ pc'[t] = IF t = s THEN "consuming" ELSE pc[t]
                        /\ todo'[t] = IF t = s THEN {"restored"} ELSE todo[t]
                        /\ target'[t] = IF t = s THEN f ELSE target[t]
                        /\ has'[t] = IF t = s THEN has[s] \cup View(f).saved ELSE has[t]
  BY <1>1 DEF JournalInv, LoopOK
<1>4. LoopOK'
  <2>1. /\ pc' \in [Shells -> Phases \cup {"none", "prune", "prompt", "run", "gone"}]
        /\ has' \in [Shells -> SUBSET Shells] /\ todo' \in [Shells -> SUBSET Events]
        /\ target' \in [Shells -> Shells]
    BY <1>1, <1>2 DEF JournalInv, LoopOK, Phases, Events
  <2> QED BY <1>1, <1>3, <2>1 DEF JournalInv, LoopOK, Early, Phases, TodoOf
<1>5. ASSUME NEW g \in Shells \ faulty' PROVE Intact(g)'
  <2>1. Intact(g) BY <1>1 DEF JournalInv
  <2>2. CASE g = s BY <1>1, <1>3, <2>1, <2>2 DEF Intact, Exists, Early
  <2>3. CASE g # s BY <1>1, <1>3, <2>1, <2>3 DEF Intact, Exists
  <2> QED BY <2>2, <2>3
<1>6. ASSUME NEW t \in Shells PROVE Taken(t)'
  <2>1. CASE t = s
    <3> SUFFICES ASSUME f \notin faulty
                 PROVE  /\ pc'[f] = "gone" /\ Exists(f)
                        /\ content[f].saved \subseteq has'[s]
      BY <1>1, <1>3, <2>1 DEF Taken, Exists
    <3>1. Intact(f) BY DEF JournalInv
    <3>2. View(f) = content[f] /\ content[f].pid BY <1>1, <1>2, <3>1 DEF Intact, Restorable
    <3>3. pc[f] = "gone" BY <1>1, <3>2 DEF Restorable
    <3> QED BY <1>1, <1>3, <3>2, <3>3 DEF Restorable
  <2>2. CASE t # s
    BY <1>1, <1>3, <2>2 DEF JournalInv, LoopOK, Taken, Exists
  <2> QED BY <2>1, <2>2
<1>7. ASSUME NEW i \in Shells, i \in snaps'[i] PROVE \E t \in Shells : Keeps(t, i)'
  <2>1. PICK t \in Shells : Keeps(t, i) BY <1>1, <1>7 DEF JournalInv
  <2> QED BY <1>1, <1>3, <2>1 DEF Keeps, Live
<1> QED BY <1>4, <1>5, <1>6, <1>7 DEF JournalInv

-----------------------------------------------------------------------------
(* The steps that write one *)

\* The hang-up record changes nothing that is restored.
LEMMA HookKeeps ==
  ASSUME JournalInv, NEW s \in Shells, HookWrite(s) PROVE JournalInv'
<1>1. /\ Live(s) /\ hook[s] \in {"open", "removed"} /\ hook' = [hook EXCEPT ![s] = "done"]
      /\ UNCHANGED <<pc, has, snaps, todo, target, victims, clean>>
  BY DEF HookWrite
<1>2. pc[s] \notin Early \cup {"gone"} BY <1>1 DEF JournalInv, LoopOK, Live, Early
<1>3. CASE UNCHANGED <<content, newer, faulty>>
  <2>1. LoopOK' BY <1>1, <1>2, <1>3 DEF JournalInv, LoopOK
  <2>2. ASSUME NEW f \in Shells \ faulty' PROVE Intact(f)'
    BY <1>1, <1>3 DEF JournalInv, Intact, Exists
  <2>3. ASSUME NEW t \in Shells PROVE Taken(t)' BY <1>1, <1>3 DEF JournalInv, Taken, Exists
  <2>4. ASSUME NEW i \in Shells, i \in snaps'[i] PROVE \E t \in Shells : Keeps(t, i)'
    BY <1>1, <1>3, <2>4 DEF JournalInv, Keeps, Live
  <2> QED BY <2>1, <2>2, <2>3, <2>4 DEF JournalInv
<1>4. CASE WriteAll(s, "hup") \/ WriteFails(s, "hup")
  <2>1. AppendOutcome(s, "hup")
    BY <1>4, WriteOutcome DEF JournalInv, Events
  <2>2. LoopOK'
    BY <1>1, <1>2, <2>1 DEF JournalInv, LoopOK, AppendOutcome
  <2>3. s \notin faulty' =>
          /\ content[s].tail = None /\ s \notin faulty /\ content'[s].pid = content[s].pid
          /\ content'[s].tail = None /\ content'[s].saved = content[s].saved
          /\ content'[s].restored <=> content[s].restored
          /\ content'[s].exit <=> content[s].exit
    <3> SUFFICES ASSUME s \notin faulty'
                 PROVE  /\ content[s].tail = None /\ s \notin faulty /\ content'[s].pid = content[s].pid
                        /\ content'[s].tail = None /\ content'[s].saved = content[s].saved
                        /\ content'[s].restored <=> content[s].restored
                        /\ content'[s].exit <=> content[s].exit
      OBVIOUS
    <3>1. content[s].tail = None /\ content'[s] = Wrote(content[s], "hup") /\ s \notin faulty
      BY <2>1 DEF AppendOutcome
    <3>2. content[s] \in Journals /\ "hup" \in Events /\ "hup" \notin Shells /\ "hup" # "start"
          /\ "hup" # "restored" /\ "hup" # "exit"
      BY JournalAssumption DEF JournalInv, LoopOK, Events
    <3>3. /\ Wrote(content[s], "hup").pid = content[s].pid /\ Wrote(content[s], "hup").tail = None
          /\ Wrote(content[s], "hup").saved = content[s].saved
          /\ Wrote(content[s], "hup").restored <=> content[s].restored
          /\ Wrote(content[s], "hup").exit <=> content[s].exit
      BY <3>1, <3>2, WroteFacts
    <3> QED BY <3>1, <3>3, Zenon
  <2>4. \A f \in Shells \ {s} : /\ content'[f] = content[f] /\ (f \in faulty' <=> f \in faulty)
                                /\ (f \in DOMAIN newer' <=> f \in DOMAIN newer)
    BY <2>1 DEF AppendOutcome
  <2>5. ASSUME NEW f \in Shells \ faulty' PROVE Intact(f)'
    <3>1. Intact(f) BY <2>3, <2>4 DEF JournalInv
    <3>2. CASE f = s
      BY <1>1, <1>2, <2>1, <2>3, <3>1, <3>2 DEF Intact, Exists, AppendOutcome
    <3>3. CASE f # s BY <1>1, <2>4, <3>1, <3>3 DEF Intact, Exists
    <3> QED BY <3>2, <3>3
  <2>6. ASSUME NEW t \in Shells PROVE Taken(t)'
    <3>1. target[t] \in Shells /\ Taken(t) BY DEF JournalInv, LoopOK
    <3> QED BY <1>1, <1>2, <2>1, <2>3, <2>4, <3>1 DEF Taken, Exists, AppendOutcome
  <2>7. ASSUME NEW i \in Shells, i \in snaps'[i] PROVE \E t \in Shells : Keeps(t, i)'
    <3>1. PICK t \in Shells : Keeps(t, i) BY <1>1, <2>7 DEF JournalInv
    <3> QED BY <1>1, <2>4, <3>1 DEF Keeps, Live
  <2> QED BY <2>2, <2>5, <2>6, <2>7 DEF JournalInv
<1> QED BY <1>3, <1>4 DEF HookWrite

\* Where the read loop is after an event, phase by phase.
LEMMA AdvanceShape ==
  ASSUME LoopOK, NEW s \in Shells, NEW e \in todo[s],
         Advance(s, todo[s] \ {e})
  PROVE  /\ pc[s] \in Phases /\ e \in TodoOf[pc[s]]
         /\ \A t \in Shells \ {s} : /\ pc'[t] = pc[t] /\ todo'[t] = todo[t]
                                     /\ target'[t] = target[t] /\ snaps'[t] = snaps[t]
         /\ clean' = IF pc[s] = "leaving" THEN clean \cup {s} ELSE clean
         /\ pc[s] = "starting" => /\ pc'[s] = "prompt" /\ todo'[s] = {} /\ target'[s] = s
                                  /\ snaps'[s] = has[s]
         /\ pc[s] = "reading" => /\ pc'[s] = "run" /\ todo'[s] = {} /\ target'[s] = s
                                 /\ snaps'[s] = snaps[s]
         /\ pc[s] = "consuming" => /\ pc'[s] = "closing" /\ todo'[s] = {"fgend"}
                                   /\ target'[s] = s /\ snaps'[s] = snaps[s]
         /\ pc[s] = "closing" => /\ pc'[s] = IF NewWork(s) = {} THEN "prompt" ELSE "diffing"
                                 /\ todo'[s] = NewWork(s) /\ target'[s] = s /\ snaps'[s] = snaps[s]
         /\ pc[s] = "diffing" => /\ target'[s] = s
                                 /\ \/ /\ todo[s] = {e} /\ pc'[s] = "prompt"
                                       /\ todo'[s] = {} /\ snaps'[s] = has[s]
                                    \/ /\ pc'[s] = "diffing" /\ todo'[s] = todo[s] \ {e}
                                       /\ snaps'[s] = snaps[s]
         /\ pc[s] = "leaving" => /\ pc'[s] = "gone" /\ todo'[s] = {} /\ target'[s] = s
                                 /\ snaps'[s] = snaps[s]
<1> DEFINE remains == todo[s] \ {e}
<1>1. pc[s] \in Phases /\ e \in TodoOf[pc[s]] /\ todo[s] \subseteq TodoOf[pc[s]]
  BY DEF LoopOK
<1>2. \A t \in Shells \ {s} : /\ pc'[t] = pc[t] /\ todo'[t] = todo[t]
                              /\ target'[t] = target[t] /\ snaps'[t] = snaps[t]
  BY DEF Advance, LoopOK
<1>3. /\ pc'[s] = IF remains = {} THEN NextPhase(s) ELSE pc[s]
      /\ todo'[s] = IF remains = {} /\ pc[s] = "consuming" THEN {"fgend"}
                    ELSE IF remains = {} /\ pc[s] = "closing" THEN NewWork(s) ELSE remains
      /\ target'[s] = IF remains = {} THEN s ELSE target[s]
      /\ snaps'[s] = IF remains = {} /\ NextPhase(s) = "prompt" THEN has[s] ELSE snaps[s]
      /\ clean' = IF remains = {} /\ pc[s] = "leaving" THEN clean \cup {s} ELSE clean
  BY DEF Advance, LoopOK
<1>4. pc[s] # "diffing" => remains = {}
  BY <1>1 DEF Phases, TodoOf
<1>5. /\ pc[s] = "starting" => NextPhase(s) = "prompt"
      /\ pc[s] = "reading" => NextPhase(s) = "run"
      /\ pc[s] = "consuming" => NextPhase(s) = "closing"
      /\ pc[s] = "closing" => NextPhase(s) = IF NewWork(s) = {} THEN "prompt" ELSE "diffing"
      /\ pc[s] = "diffing" => NextPhase(s) = "prompt"
      /\ pc[s] = "leaving" => NextPhase(s) = "gone"
  BY DEF NextPhase
<1>6. target[s] = s \/ pc[s] = "consuming" BY <1>1 DEF LoopOK, Phases
<1>7. NewWork(s) = {} => has[s] = snaps[s] BY DEF NewWork, LoopOK
<1>8. remains = {} => todo[s] = {e} OBVIOUS
<1> HIDE DEF remains
<1>9. clean' = IF pc[s] = "leaving" THEN clean \cup {s} ELSE clean BY <1>3, <1>4
<1>10. pc[s] = "closing" => /\ pc'[s] = IF NewWork(s) = {} THEN "prompt" ELSE "diffing"
                            /\ todo'[s] = NewWork(s) /\ target'[s] = s /\ snaps'[s] = snaps[s]
  BY <1>3, <1>4, <1>5, <1>7
<1>11. pc[s] = "diffing" => /\ target'[s] = s
                            /\ \/ /\ todo[s] = {e} /\ pc'[s] = "prompt"
                                  /\ todo'[s] = {} /\ snaps'[s] = has[s]
                               \/ /\ pc'[s] = "diffing" /\ todo'[s] = todo[s] \ {e}
                                  /\ snaps'[s] = snaps[s]
  BY <1>3, <1>5, <1>6, <1>8 DEF remains
<1> QED BY <1>1, <1>2, <1>3, <1>4, <1>5, <1>9, <1>10, <1>11

\* The read loop appends an event: start, foreground marks, deltas, the mark of a
\* consumed journal, or exit.
LEMMA AppendKeeps ==
  ASSUME JournalInv, NEW s \in Shells, AppendEvent(s) PROVE JournalInv'
<1>1. PICK e \in todo[s] : /\ Advance(s, todo[s] \ {e})
                           /\ \/ WriteAll(target[s], e) \/ WriteFails(target[s], e)
                              \/ /\ faulty' = faulty \cup {target[s]}
                                 /\ UNCHANGED <<content, newer>>
  BY DEF AppendEvent
<1> DEFINE f == target[s]
<1>2. /\ hook' = [hook EXCEPT ![s] = IF pc'[s] = "gone" THEN "done" ELSE @]
      /\ UNCHANGED <<has, victims>>
  BY DEF AppendEvent
<1>3. LoopOK /\ f \in Shells /\ e \in Events /\ Taken(s) /\ content[f] \in Journals
  BY DEF JournalInv, LoopOK
<1>4. AppendOutcome(f, e) BY <1>1, <1>3, WriteOutcome
<1> DEFINE Shape ==
  /\ pc[s] \in Phases /\ e \in TodoOf[pc[s]]
  /\ \A t \in Shells \ {s} : /\ pc'[t] = pc[t] /\ todo'[t] = todo[t]
                              /\ target'[t] = target[t] /\ snaps'[t] = snaps[t]
  /\ clean' = IF pc[s] = "leaving" THEN clean \cup {s} ELSE clean
  /\ pc[s] = "starting" => /\ pc'[s] = "prompt" /\ todo'[s] = {} /\ target'[s] = s
                           /\ snaps'[s] = has[s]
  /\ pc[s] = "reading" => /\ pc'[s] = "run" /\ todo'[s] = {} /\ target'[s] = s
                          /\ snaps'[s] = snaps[s]
  /\ pc[s] = "consuming" => /\ pc'[s] = "closing" /\ todo'[s] = {"fgend"}
                            /\ target'[s] = s /\ snaps'[s] = snaps[s]
  /\ pc[s] = "closing" => /\ pc'[s] = IF NewWork(s) = {} THEN "prompt" ELSE "diffing"
                          /\ todo'[s] = NewWork(s) /\ target'[s] = s /\ snaps'[s] = snaps[s]
  /\ pc[s] = "diffing" => /\ target'[s] = s
                          /\ \/ /\ todo[s] = {e} /\ pc'[s] = "prompt"
                                /\ todo'[s] = {} /\ snaps'[s] = has[s]
                             \/ /\ pc'[s] = "diffing" /\ todo'[s] = todo[s] \ {e}
                                /\ snaps'[s] = snaps[s]
  /\ pc[s] = "leaving" => /\ pc'[s] = "gone" /\ todo'[s] = {} /\ target'[s] = s
                          /\ snaps'[s] = snaps[s]
<1>5. Shape BY <1>1, <1>3, AdvanceShape, Zenon
<1>6. pc[s] # "consuming" => f = s BY <1>3, <1>5 DEF LoopOK, Phases
<1>7. /\ pc'[s] \in (Phases \ {"starting", "consuming"}) \cup {"prompt", "run", "gone"}
      /\ todo'[s] \subseteq IF pc'[s] \in Phases THEN TodoOf[pc'[s]] ELSE {}
      /\ snaps'[s] \subseteq has[s] /\ target'[s] = s /\ todo'[s] \subseteq Events
      /\ pc'[s] = "gone" => pc[s] = "leaving"
  <2>1. NewWork(s) \subseteq Shells /\ snaps[s] \subseteq has[s] /\ has[s] \subseteq Shells
        /\ todo[s] \subseteq Events
    BY <1>3 DEF NewWork, LoopOK
  <2>2. pc[s] = "diffing" => todo[s] \subseteq Shells BY <1>3 DEF LoopOK, Phases, TodoOf
  <2>3. CASE pc[s] = "diffing" BY <1>5, <2>1, <2>2, <2>3 DEF Phases, TodoOf
  <2>4. CASE pc[s] = "closing" BY <1>5, <2>1, <2>4 DEF Phases, TodoOf, Events
  <2>5. CASE pc[s] = "consuming" BY <1>5, <2>1, <2>5 DEF Phases, TodoOf, Events
  <2>6. CASE pc[s] \in {"starting", "reading", "leaving"} BY <1>5, <2>1, <2>6 DEF Phases
  <2> QED BY <1>5, <2>3, <2>4, <2>5, <2>6 DEF Phases
<1>8. LoopOK'
  <2>1. DOMAIN pc' = Shells /\ DOMAIN todo' = Shells /\ DOMAIN target' = Shells
        /\ DOMAIN snaps' = Shells /\ pc' = [t \in Shells |-> pc'[t]]
        /\ todo' = [t \in Shells |-> todo'[t]] /\ target' = [t \in Shells |-> target'[t]]
        /\ snaps' = [t \in Shells |-> snaps'[t]]
    BY <1>1, <1>3 DEF Advance, LoopOK
  <2>2. \A t \in Shells : /\ pc'[t] \in Phases \cup {"none", "prune", "prompt", "run", "gone"}
                          /\ todo'[t] \in SUBSET Events /\ target'[t] \in Shells
                          /\ snaps'[t] \in SUBSET Shells
    BY <1>3, <1>5, <1>7 DEF LoopOK
  <2>3. /\ pc' \in [Shells -> Phases \cup {"none", "prune", "prompt", "run", "gone"}]
        /\ todo' \in [Shells -> SUBSET Events] /\ target' \in [Shells -> Shells]
        /\ snaps' \in [Shells -> SUBSET Shells]
    BY <2>1, <2>2
  <2>4. hook' \in [Shells -> {"idle", "open", "removed", "done"}]
        /\ \A t \in Shells \ {s} : hook'[t] = hook[t]
    BY <1>2, <1>3 DEF LoopOK
  <2>5. content' \in [Shells -> Journals] /\ DOMAIN newer' \subseteq Shells
    BY <1>3, <1>4 DEF AppendOutcome, LoopOK
  <2>6. ASSUME NEW t \in Shells
        PROVE  /\ todo'[t] \subseteq IF pc'[t] \in Phases THEN TodoOf[pc'[t]] ELSE {}
               /\ pc'[t] \notin {"consuming", "gone"} => target'[t] = t
               /\ pc'[t] \in Early => has'[t] = {}
               /\ snaps'[t] \subseteq has'[t]
               /\ hook'[t] # "idle" => pc'[t] \notin Early
               /\ t \in clean' => pc'[t] = "gone"
    <3>1. CASE t = s
      <4>1. s \in clean' => pc[s] = "leaving" \/ s \in clean BY <1>5
      <4>2. s \notin clean BY <1>3, <1>5 DEF LoopOK, Phases
      <4>3. s \in clean' => pc'[s] = "gone" BY <1>5, <4>1, <4>2
      <4> QED BY <1>2, <1>7, <3>1, <4>3 DEF Early, Phases
    <3>2. CASE t # s
      <4>1. t \in clean' => t \in clean BY <1>5, <3>2
      <4> QED BY <1>2, <1>3, <1>5, <2>4, <3>2, <4>1 DEF LoopOK
    <3> QED BY <3>1, <3>2
  <2> QED BY <1>2, <1>3, <2>3, <2>4, <2>5, <2>6 DEF LoopOK
<1>9. \A g \in Shells \ {f} : /\ content'[g] = content[g] /\ (g \in faulty' <=> g \in faulty)
                              /\ (g \in DOMAIN newer' <=> g \in DOMAIN newer)
  BY <1>4 DEF AppendOutcome
<1>10. f \notin faulty' => /\ f \notin faulty /\ content[f].tail = None
                           /\ content'[f] = Wrote(content[f], e) /\ f \in DOMAIN newer'
  BY <1>4 DEF AppendOutcome
<1> HIDE DEF Shape, f
\* Another session's journal: it is marked consumed, and is gone.
<1>11. f # s /\ f \notin faulty' =>
         /\ pc[s] = "consuming" /\ e = "restored" /\ pc[f] = "gone"
         /\ content[f].saved \subseteq has[s] /\ Intact(f) /\ Exists(f)
  <2> SUFFICES ASSUME f # s, f \notin faulty'
               PROVE  /\ pc[s] = "consuming" /\ e = "restored" /\ pc[f] = "gone"
                      /\ content[f].saved \subseteq has[s] /\ Intact(f) /\ Exists(f)
    OBVIOUS
  <2>1. pc[s] = "consuming" /\ e \in TodoOf[pc[s]] BY <1>5, <1>6 DEF Shape
  <2>2. e = "restored" BY <2>1 DEF TodoOf
  <2>3. f \notin faulty BY <1>10
  <2>4. pc[f] = "gone" /\ content[f].saved \subseteq has[s] /\ Exists(f) BY <1>3, <2>1, <2>3 DEF Taken, f
  <2>5. Intact(f) BY <1>3, <2>3 DEF JournalInv
  <2> QED BY <2>1, <2>2, <2>4, <2>5
<1>12. e # "start" /\ f \notin faulty' =>
         /\ content'[f].pid = content[f].pid /\ content'[f].tail = None
         /\ content'[f].saved = (IF e \in Shells THEN content[f].saved \cup {e} ELSE content[f].saved)
         /\ (content'[f].restored <=> (content[f].restored \/ e = "restored"))
         /\ (content'[f].exit <=> (content[f].exit \/ e = "exit"))
  <2>1. SUFFICES ASSUME e # "start", f \notin faulty'
        PROVE  /\ Wrote(content[f], e).pid = content[f].pid /\ Wrote(content[f], e).tail = None
               /\ Wrote(content[f], e).saved = (IF e \in Shells THEN content[f].saved \cup {e} ELSE content[f].saved)
               /\ (Wrote(content[f], e).restored <=> (content[f].restored \/ e = "restored"))
               /\ (Wrote(content[f], e).exit <=> (content[f].exit \/ e = "exit"))
    BY <1>10, Zenon
  <2> QED BY <1>3, <1>10, <2>1, WroteFacts
<1>13. "restored" \notin Shells /\ "start" \notin Shells /\ "fg" \notin Shells
       /\ "fgend" \notin Shells /\ "exit" \notin Shells
  BY JournalAssumption
<1>14. ASSUME NEW g \in Shells \ faulty' PROVE Intact(g)'
  <2>0. g \notin faulty /\ Intact(g)
    <3>1. g \notin faulty BY <1>4 DEF AppendOutcome
    <3> QED BY <3>1 DEF JournalInv
  <2>1. CASE g # s /\ g # f
    <3>1. /\ pc'[g] = pc[g] /\ todo'[g] = todo[g] /\ snaps'[g] = snaps[g]
          /\ (g \in clean' <=> g \in clean)
      BY <1>5, <2>1 DEF Shape
    <3> QED BY <1>2, <1>9, <2>0, <2>1, <3>1 DEF Intact, Exists
  <2>2. CASE g # s /\ g = f
    <3>1. /\ pc[s] = "consuming" /\ e = "restored" /\ e # "start" /\ e # "exit" /\ e \notin Shells
          /\ pc[g] = "gone"
      BY <1>11, <1>13, <2>2
    <3>2. /\ pc'[g] = pc[g] /\ snaps'[g] = snaps[g] /\ clean' = clean
      BY <1>5, <2>2, <3>1 DEF Shape
    <3>3. /\ content'[g].pid = content[g].pid /\ content'[g].tail = None
          /\ content'[g].saved = content[g].saved /\ (content'[g].exit <=> content[g].exit)
          /\ g \in DOMAIN newer'
      BY <1>10, <1>12, <2>2, <3>1
    <3>4. content[g].pid BY <1>11, <2>0, <2>2 DEF Intact
    <3> QED BY <2>0, <3>1, <3>2, <3>3, <3>4 DEF Intact, Exists, Early
  <2>3. CASE g = s /\ g # f
    <3>1. pc[s] = "consuming" BY <1>6, <2>3
    <3>2. pc'[s] = "closing" /\ snaps'[s] = snaps[s] /\ clean' = clean
      BY <1>5, <3>1 DEF Shape
    <3> QED BY <1>2, <1>9, <2>0, <2>3, <3>1, <3>2 DEF Intact, Exists, Early
  <2>4. CASE g = s /\ g = f
    <3>0. pc[s] # "consuming"
      <4>1. pc[s] = "consuming" => pc[f] = "gone" BY <1>3, <2>0, <2>4 DEF Taken, f
      <4> QED BY <2>4, <4>1
    <3>1. /\ e \in TodoOf[pc[s]] /\ g \in DOMAIN newer' /\ pc[s] \in Phases
          /\ content[s].tail = None /\ content'[s] = Wrote(content[s], e)
      BY <1>5, <1>10, <2>4 DEF Shape
    <3>2. CASE pc[s] = "starting"
      <4>1. e = "start" /\ pc'[s] = "prompt" /\ snaps'[s] = has[s] /\ clean' = clean
        BY <1>5, <3>1, <3>2 DEF Shape, TodoOf
      <4>2. has[s] = {} BY <1>3, <3>2 DEF LoopOK, Early
      <4>3. content'[s].pid /\ ~content'[s].restored /\ content'[s].tail = None
        <5>1. content[s] \in Journals BY <1>3, <2>4
        <5>2. /\ Wrote(content[s], e).pid /\ ~Wrote(content[s], e).restored
              /\ Wrote(content[s], e).tail = None
          BY <1>3, <3>1, <4>1, <5>1, WroteFacts
        <5> QED BY <3>1, <5>2, Zenon
      <4>4. s \notin clean
        BY <1>3, <3>2 DEF LoopOK
      <4> QED BY <2>4, <3>1, <4>1, <4>2, <4>3, <4>4 DEF Intact, Exists
    <3>3. ASSUME e # "start"
          PROVE  /\ content'[s].pid = content[s].pid /\ content'[s].tail = None
                 /\ content'[s].saved = (IF e \in Shells THEN content[s].saved \cup {e} ELSE content[s].saved)
                 /\ (content'[s].restored <=> (content[s].restored \/ e = "restored"))
                 /\ (content'[s].exit <=> (content[s].exit \/ e = "exit"))
      BY <1>12, <2>4, <3>3
    <3>4. pc[s] # "starting" => Exists(s) /\ content[s].pid /\ ~content[s].restored /\ s \notin clean
      BY <1>3, <2>0, <2>4, <3>1 DEF Intact, Early, Phases, LoopOK
    <3>5. CASE pc[s] = "reading"
      <4>1. /\ e = "fg" /\ pc'[s] = "run" /\ snaps'[s] = snaps[s] /\ clean' = clean
        BY <1>5, <3>1, <3>5 DEF Shape, TodoOf
      <4>2. /\ content'[s].pid /\ content'[s].tail = None /\ content'[s].saved = content[s].saved
            /\ ~content'[s].restored
        BY <1>13, <3>3, <3>4, <3>5, <4>1
      <4> QED BY <2>0, <2>4, <3>1, <3>4, <3>5, <4>1, <4>2 DEF Intact, Exists
    <3>6. CASE pc[s] = "closing"
      <4>1. /\ e = "fgend" /\ pc'[s] \in {"prompt", "diffing"} /\ snaps'[s] = snaps[s]
            /\ clean' = clean /\ todo'[s] = has[s] \ snaps[s]
        BY <1>5, <3>1, <3>6 DEF Shape, TodoOf, NewWork
      <4>2. /\ content'[s].pid /\ content'[s].tail = None /\ content'[s].saved = content[s].saved
            /\ ~content'[s].restored
        BY <1>13, <3>3, <3>4, <3>6, <4>1
      <4>3. snaps[s] \subseteq content[s].saved BY <2>0, <2>4 DEF Intact
      <4> QED BY <1>2, <2>4, <3>1, <3>4, <3>6, <4>1, <4>2, <4>3 DEF Intact, Exists
    <3>7. CASE pc[s] = "leaving"
      <4>1. /\ e = "exit" /\ pc'[s] = "gone" /\ snaps'[s] = snaps[s]
        BY <1>5, <3>1, <3>7 DEF Shape, TodoOf
      <4>2. /\ content'[s].pid /\ content'[s].tail = None /\ content'[s].saved = content[s].saved
            /\ content'[s].exit
        BY <1>13, <3>3, <3>4, <3>7, <4>1
      <4> QED BY <2>0, <2>4, <3>1, <4>1, <4>2 DEF Intact, Exists
    <3>8. CASE pc[s] = "diffing"
      <4>1. e \in Shells /\ clean' = clean /\ e # "start" /\ e # "restored"
        BY <1>5, <1>13, <3>1, <3>8 DEF Shape, TodoOf
      <4>2. /\ content'[s].pid /\ content'[s].tail = None /\ content'[s].saved = content[s].saved \cup {e}
            /\ ~content'[s].restored
        BY <3>3, <3>4, <3>8, <4>1
      <4>3. snaps[s] \subseteq content[s].saved /\ has[s] \subseteq todo[s] \cup content[s].saved
        BY <2>0, <2>4, <3>8 DEF Intact
      <4>4. /\ pc'[s] \in {"prompt", "diffing"} /\ snaps'[s] \subseteq content'[s].saved
            /\ pc'[s] = "diffing" => has[s] \subseteq todo'[s] \cup content'[s].saved
        <5>1. CASE todo[s] = {e} /\ pc'[s] = "prompt" /\ todo'[s] = {} /\ snaps'[s] = has[s]
          BY <4>2, <4>3, <5>1
        <5>2. CASE pc'[s] = "diffing" /\ todo'[s] = todo[s] \ {e} /\ snaps'[s] = snaps[s]
          BY <4>2, <4>3, <5>2
        <5> QED BY <1>5, <3>8, <5>1, <5>2 DEF Shape
      <4> QED BY <1>2, <2>4, <3>1, <3>4, <3>8, <4>1, <4>2, <4>4 DEF Intact, Exists
    <3> QED BY <3>0, <3>1, <3>2, <3>5, <3>6, <3>7, <3>8 DEF Phases
  <2> QED BY <2>1, <2>2, <2>3, <2>4
<1>15. ASSUME NEW t \in Shells PROVE Taken(t)'
  <2>1. CASE t = s BY <1>7, <2>1 DEF Taken, Phases
  <2>2. CASE t # s
    <3> DEFINE g == target[t]
    <3>1. pc'[t] = pc[t] /\ target'[t] = g /\ has'[t] = has[t] /\ g \in Shells
      BY <1>2, <1>3, <1>5, <2>2 DEF Shape, LoopOK
    <3> SUFFICES ASSUME pc[t] = "consuming", g \notin faulty'
                 PROVE  /\ pc'[g] = "gone" /\ g \in DOMAIN newer'
                        /\ content'[g].saved \subseteq has[t]
      BY <3>1 DEF Taken, Exists
    <3>2. g \notin faulty BY <1>4 DEF AppendOutcome
    <3>3. pc[g] = "gone" /\ g \in DOMAIN newer /\ content[g].saved \subseteq has[t]
      BY <3>2 DEF JournalInv, Taken, Exists
    <3>4. g # s BY <1>5, <3>3 DEF Shape, Phases
    <3>5. pc'[g] = "gone" /\ g \in DOMAIN newer'
      BY <1>4, <1>5, <3>1, <3>3, <3>4 DEF Shape, AppendOutcome
    <3>6. content'[g].saved = content[g].saved
      <4>1. CASE g = f
        <5>1. e = "restored" BY <1>11, <3>4, <4>1
        <5> QED BY <1>12, <1>13, <4>1, <5>1
      <4>2. CASE g # f BY <1>9, <3>1, <4>2
      <4> QED BY <4>1, <4>2
    <3> QED BY <3>3, <3>5, <3>6
  <2> QED BY <2>1, <2>2
<1>16. ASSUME NEW i \in Shells, i \in snaps'[i] PROVE \E t \in Shells : Keeps(t, i)'
  <2>0. /\ faulty \subseteq faulty' /\ clean \subseteq clean'
        /\ pc[s] = "leaving" => s \in clean'
        /\ Live(s)' \/ s \in clean'
    BY <1>4, <1>5, <1>7 DEF AppendOutcome, Shape, Live, Phases
  <2>1. CASE i \notin snaps[i]
    <3>1. i = s /\ i \in has[s]
      BY <1>5, <1>7, <1>16, <2>1 DEF Shape
    <3> QED BY <1>2, <2>0, <3>1 DEF Keeps
  <2>2. CASE i \in snaps[i]
    <3>1. PICK t \in Shells : Keeps(t, i) BY <2>2 DEF JournalInv
    <3>2. CASE t = s BY <1>2, <2>0, <3>1, <3>2 DEF Keeps
    <3>3. CASE t # s /\ t # f
      <4>1. pc'[t] = pc[t] /\ snaps'[t] = snaps[t] /\ content'[t] = content[t]
        BY <1>5, <1>9, <3>3 DEF Shape
      <4> QED BY <1>2, <2>0, <3>1, <4>1 DEF Keeps, Live
    <3>4. CASE t # s /\ t = f /\ f \in faulty'
      BY <1>2, <3>1, <3>4 DEF Keeps
    <3>5. CASE t # s /\ t = f /\ f \notin faulty'
      <4>1. /\ pc[s] = "consuming" /\ e = "restored" /\ pc[f] = "gone"
            /\ content[f].saved \subseteq has[s] /\ Intact(f)
        BY <1>11, <3>5
      <4>2. pc'[f] = "gone" /\ snaps'[f] = snaps[f] /\ Live(s)'
        BY <1>5, <3>5, <4>1 DEF Shape, Live
      <4>3. CASE i \in snaps[f]
        <5>1. i \in has[s] BY <4>1, <4>3 DEF Intact
        <5> QED BY <1>2, <4>2, <5>1 DEF Keeps
      <4>4. CASE i \notin snaps[f]
        BY <1>2, <3>1, <3>5, <4>2, <4>4 DEF Keeps
      <4> QED BY <4>3, <4>4
    <3> QED BY <3>2, <3>3, <3>4, <3>5
  <2> QED BY <2>1, <2>2
<1> QED BY <1>8, <1>14, <1>15, <1>16 DEF JournalInv

-----------------------------------------------------------------------------
\* The journals are empty when nothing has started.
LEMMA JournalInvInit == ASSUME JournalInit PROVE JournalInv
<1>1. LoopOK BY DEF JournalInit, LoopOK, Journals, Empty, Phases, Events, Early
<1>2. \A f \in Shells : Intact(f) BY DEF JournalInit, Intact, Empty, Exists, Early
<1>3. \A t \in Shells : Taken(t) BY DEF JournalInit, Taken
<1>4. \A i \in Shells : i \notin snaps[i] BY DEF JournalInit
<1> QED BY <1>1, <1>2, <1>3, <1>4 DEF JournalInv

\* Every step keeps the invariant.
LEMMA JournalInvNext ==
  ASSUME JournalInv, [JournalNext]_journalVars PROVE JournalInv'
<1>1. ASSUME NEW s \in Shells,
             \/ ListVictims(s) \/ RemoveVictims(s) \/ AppendEvent(s)
             \/ ReadLine(s) \/ Work(s) \/ (\E f \in Shells : ResumeFrom(s, f))
             \/ Signal(s) \/ HookWrite(s) \/ Die(s)
      PROVE  JournalInv'
  BY <1>1, ListKeeps, RemoveKeeps, AppendKeeps, ReadKeeps, ResumeKeeps, SignalKeeps,
     HookKeeps, DieKeeps
<1>2. CASE UNCHANGED journalVars
  <2>1. LoopOK' BY <1>2 DEF journalVars, JournalInv, LoopOK
  <2>2. ASSUME NEW f \in Shells \ faulty' PROVE Intact(f)'
    BY <1>2 DEF journalVars, JournalInv, Intact, Exists
  <2>3. ASSUME NEW t \in Shells PROVE Taken(t)'
    BY <1>2 DEF journalVars, JournalInv, Taken, Exists
  <2>4. ASSUME NEW i \in Shells, i \in snaps'[i] PROVE \E t \in Shells : Keeps(t, i)'
    BY <1>2, <2>4 DEF journalVars, JournalInv, Keeps, Live
  <2> QED BY <2>1, <2>2, <2>3, <2>4 DEF JournalInv
<1> QED BY <1>1, <1>2 DEF JournalNext

\* What the journals hold is enough to find all work again.
LEMMA JournalSurvives ==
  ASSUME JournalInv PROVE WorkSurvives
<1>1. ASSUME NEW f \in Shells \ faulty, Restorable(f)
      PROVE  pc[f] = "gone" /\ f \notin clean
  <2>1. Intact(f) /\ View(f) = content[f] BY ViewFacts DEF JournalInv, Intact
  <2> QED BY <1>1, <2>1 DEF Intact, Restorable
<1>2. ASSUME NEW i \in Shells, i \in snaps[i]
      PROVE  \E s \in Shells :
               /\ i \in has[s]
               /\ \/ Live(s) \/ View(s).exit \/ s \in clean \cup faulty
                  \/ i \notin snaps[s]
                  \/ Restorable(s) /\ i \in View(s).saved
  <2>1. PICK s \in Shells : Keeps(s, i) BY <1>2 DEF JournalInv
  <2>2. CASE Live(s) \/ s \in clean \cup faulty \/ i \notin snaps[s]
    BY <2>1, <2>2 DEF Keeps
  <2>3. CASE ~Live(s) /\ s \notin clean \cup faulty /\ i \in snaps[s]
    <3>1. Intact(s) /\ View(s) = content[s]
      BY <2>3, ViewFacts DEF JournalInv, Intact
    <3>2. pc[s] = "gone"
      <4>1. pc[s] \in {"none", "gone"} BY <2>3 DEF Live
      <4>2. pc[s] = "none" => has[s] = {} BY DEF JournalInv, LoopOK, Early
      <4> QED BY <2>1, <4>1, <4>2 DEF Keeps
    <3>3. Exists(s) /\ i \in content[s].saved BY <2>3, <3>1 DEF Intact
    <3>4. content[s].exit \/ ~content[s].restored BY <2>1, <2>3 DEF Keeps
    <3>5. CASE content[s].exit BY <2>1, <3>1, <3>5 DEF Keeps
    <3>6. CASE ~content[s].exit
      <4>1. Restorable(s) BY <3>1, <3>2, <3>3, <3>4, <3>6 DEF Restorable
      <4> QED BY <2>1, <3>1, <3>3, <4>1 DEF Keeps
    <3> QED BY <3>5, <3>6
  <2> QED BY <2>2, <2>3
<1>3. WorkKept BY <1>2 DEF WorkKept
<1>4. OnlyDeadOffered BY <1>1 DEF OnlyDeadOffered
<1> QED BY <1>3, <1>4 DEF WorkSurvives

\* Work that reached a command boundary stays in a live shell or in a journal on
\* offer, through any chain of crashes and resumes, and only sessions that are gone
\* are on offer; for any number of shells, lines, signals, failed writes and any
\* cap on journals (main.rs, journal.rs, session.rs).
THEOREM WorkAlwaysSurvives == JournalSpec => []WorkSurvives
<1>1. JournalInit => JournalInv BY JournalInvInit
<1>2. JournalInv /\ [JournalNext]_journalVars => JournalInv' BY JournalInvNext
<1>3. JournalInv => WorkSurvives BY JournalSurvives
<1> QED BY <1>1, <1>2, <1>3, PTL DEF JournalSpec

-----------------------------------------------------------------------------
(* The file an agent patches *)

\* Records with these fields; nothing is said of a text, or of the counters.
IsFile(f) == {"text", "mode", "whole", "synced"} \subseteq DOMAIN f
IsProc(x) == {"pc", "mode", "text", "id", "tries", "name"} \subseteq DOMAIN x

\* A file that survives a power loss as it is.
Durable(f) == IsFile(f) /\ f.whole = TRUE /\ f.synced = TRUE /\ f.mode = First.mode

\* The temporary file of a process is its own, and each step has done its part
\* of what Rename relies on.
OwnTemp(p) ==
  /\ \E i : proc[p].name = <<p, i>>
  /\ proc[p].name \in DOMAIN temps
  /\ proc[p].pc # "write" => temps[proc[p].name].whole = TRUE
  /\ proc[p].pc \in {"sync", "rename"} => temps[proc[p].name].mode = First.mode
  /\ proc[p].pc = "rename" => temps[proc[p].name].synced = TRUE

FilesOK == Durable(file) /\ \A f \in older : Durable(f)
TempsOK == \A n \in DOMAIN temps : IsFile(temps[n])
ProcOK(p) ==
  /\ IsProc(proc[p])
  /\ proc[p].pc \in {"idle", "create"} \/ Writing(proc[p])
  /\ proc[p].pc # "idle" => proc[p].mode = First.mode
  /\ IF Writing(proc[p]) THEN OwnTemp(p) ELSE proc[p].name = <<>>
Covered == \A n \in DOMAIN temps : n \in left \/ \E p \in Procs : n = proc[p].name /\ Writing(proc[p])

\* PatchWhole is not inductive: what Rename puts in place is what the steps before
\* it left in the temporary file, and a power loss may bring back an older file.
PatchInv ==
  /\ FilesOK /\ TempsOK /\ Covered
  /\ DOMAIN proc = Procs /\ \A p \in Procs : ProcOK(p)

-----------------------------------------------------------------------------
(* What the parts depend on.                                               *)

\* What is said of a process depends on its record and its temporary file only.
LEMMA ProcKept ==
  ASSUME NEW q \in Procs, ProcOK(q), proc'[q] = proc[q],
         Writing(proc[q]) => /\ proc[q].name \in DOMAIN temps'
                             /\ temps'[proc[q].name] = temps[proc[q].name]
  PROVE  ProcOK(q)'
BY DEF ProcOK, OwnTemp, Writing, IsProc

\* A step of one process leaves the records of the others as they are.
LEMMA OneProc ==
  ASSUME PatchInv, NEW p \in Procs, NEW x, proc' = [proc EXCEPT ![p] = x]
  PROVE  /\ DOMAIN proc' = Procs /\ proc'[p] = x
         /\ \A q \in Procs \ {p} : proc'[q] = proc[q]
BY DEF PatchInv

\* The names of different processes differ: each starts with its process id.
LEMMA NamesApart ==
  ASSUME PatchInv, NEW p \in Procs, NEW q \in Procs, p # q, proc[p].name # <<>>
  PROVE  proc[p].name # proc[q].name
BY DEF PatchInv, ProcOK, OwnTemp

\* The invariant implies the property.
LEMMA InvWhole == PatchInv => PatchWhole
<1> SUFFICES ASSUME PatchInv PROVE PatchWhole
  OBVIOUS
<1>1. file.whole /\ file.mode = First.mode
  BY DEF PatchInv, FilesOK, Durable
<1> QED
  BY <1>1, NamesApart DEF PatchInv, Covered, PatchWhole

\* It holds at the beginning.
LEMMA InitInv == PatchInit => PatchInv
BY DEF PatchInit, PatchInv, FilesOK, TempsOK, ProcOK, Covered, Durable, IsFile, IsProc, Idle, Writing

-----------------------------------------------------------------------------
(* The steps.                                                              *)

\* A process that has no temporary file before and after its step, which touches
\* no file either: reading, giving up, and a name that is in use.
LEMMA QuietInv ==
  ASSUME PatchInv, NEW p \in Procs, NEW x, proc' = [proc EXCEPT ![p] = x],
         UNCHANGED <<file, older, temps, left>>,
         ~Writing(proc[p]), IsProc(x), x.name = <<>>,
         x.pc = "idle" \/ (x.pc = "create" /\ x.mode = First.mode)
  PROVE  PatchInv'
<1>1. FilesOK' /\ TempsOK'
  BY DEF PatchInv, FilesOK, TempsOK, Durable, IsFile
<1>2. DOMAIN proc' = Procs /\ proc'[p] = x /\ \A q \in Procs \ {p} : proc'[q] = proc[q]
  BY OneProc
<1>3. Covered'
  BY <1>2 DEF PatchInv, Covered, Writing
<1>4. ProcOK(p)'
  BY <1>2 DEF ProcOK, Writing, IsProc
<1>5. ASSUME NEW q \in Procs \ {p} PROVE ProcOK(q)'
  BY <1>2, ProcKept DEF PatchInv, ProcOK, OwnTemp
<1> QED
  BY <1>1, <1>2, <1>3, <1>4, <1>5 DEF PatchInv

\* Reading the file and applying the diff.
LEMMA ReadInv ==
  ASSUME PatchInv, NEW p \in Procs, NEW d \in Diffs, ReadAndApply(p, d) PROVE PatchInv'
<1>1. IsProc(proc[p]) /\ proc[p].pc = "idle" /\ proc[p].name = <<>> /\ ~Writing(proc[p])
  BY DEF PatchInv, ProcOK, ReadAndApply, Writing
<1>2. UNCHANGED <<file, older, temps, left>> /\ file.mode = First.mode
  BY DEF ReadAndApply, PatchInv, FilesOK, Durable
<1>3. CASE UNCHANGED proc
  <2>1. \A q \in Procs : ProcOK(q)'
    BY <1>2, <1>3, ProcKept DEF PatchInv, ProcOK, OwnTemp
  <2> QED
    BY <1>2, <1>3, <2>1 DEF PatchInv, FilesOK, TempsOK, Durable, IsFile, Covered, Writing
<1>4. ASSUME NEW t, proc' = [proc EXCEPT ![p].pc = "create", ![p].text = t, ![p].mode = file.mode]
      PROVE  PatchInv'
  <2> DEFINE x == [proc[p] EXCEPT !.pc = "create", !.text = t, !.mode = file.mode]
  <2>1. proc' = [proc EXCEPT ![p] = x]
    BY <1>4 DEF PatchInv
  <2>2. IsProc(x) /\ x.name = <<>> /\ x.pc = "create" /\ x.mode = First.mode
    BY <1>1, <1>2 DEF IsProc
  <2> QED
    BY <1>1, <1>2, <2>1, <2>2, QuietInv
<1> QED
  BY <1>3, <1>4 DEF ReadAndApply

\* A creation that fails gives up.
LEMMA CreateFailsInv ==
  ASSUME PatchInv, NEW p \in Procs, CreateFails(p) PROVE PatchInv'
<1> DEFINE x == [Idle EXCEPT !.id = proc[p].id]
<1>1. IsProc(x) /\ x.name = <<>> /\ x.pc = "idle"
  BY DEF Idle, IsProc
<1>2. ~Writing(proc[p])
  BY DEF CreateFails, Writing
<1>3. proc' = [proc EXCEPT ![p] = x] /\ UNCHANGED <<file, older, temps, left>>
  BY DEF CreateFails, Returns
<1> QED
  BY <1>1, <1>2, <1>3, QuietInv

\* create_new: the name is new, so the temporary files of the others stay.
LEMMA CreateInv ==
  ASSUME PatchInv, NEW p \in Procs, Create(p) PROVE PatchInv'
<1>1. /\ IsProc(proc[p]) /\ proc[p].name = <<>> /\ ~Writing(proc[p])
      /\ proc[p].pc = "create" /\ proc[p].mode = First.mode
  BY DEF PatchInv, ProcOK, Create, Writing
<1>2. UNCHANGED <<file, older, left>>
  BY DEF Create
<1>3. CASE TempName(p) \in DOMAIN temps
  <2> DEFINE x == IF proc[p].tries + 1 = Retries THEN [Idle EXCEPT !.id = proc[p].id + 1]
                  ELSE [proc[p] EXCEPT !.id = @ + 1, !.tries = @ + 1]
  <2>1. proc' = [proc EXCEPT ![p] = x] /\ UNCHANGED temps
    BY <1>3 DEF Create, PatchInv
  <2>2. IsProc(x) /\ x.name = <<>> /\ (x.pc = "idle" \/ (x.pc = "create" /\ x.mode = First.mode))
    BY <1>1 DEF IsProc, Idle
  <2> HIDE DEF x
  <2> QED
    BY <1>1, <1>2, <2>1, <2>2, QuietInv
<1>4. CASE TempName(p) \notin DOMAIN temps
  <2> DEFINE x == [proc[p] EXCEPT !.id = @ + 1, !.pc = "write", !.name = TempName(p)]
             t == [text |-> First.text, mode |-> "600", whole |-> FALSE, synced |-> FALSE]
  <2>1. proc' = [proc EXCEPT ![p] = x]
    BY <1>4 DEF Create, PatchInv
  <2>2. IsProc(x) /\ x.name = TempName(p) /\ x.pc = "write" /\ x.mode = First.mode
    BY <1>1 DEF IsProc
  <2>3. /\ DOMAIN temps' = DOMAIN temps \cup {TempName(p)}
        /\ temps'[TempName(p)] = t
        /\ \A n \in DOMAIN temps : temps'[n] = temps[n]
    BY <1>4 DEF Create
  <2>4. IsFile(t)
    BY DEF IsFile
  <2> HIDE DEF x, t
  <2>5. DOMAIN proc' = Procs /\ proc'[p] = x /\ \A q \in Procs \ {p} : proc'[q] = proc[q]
    BY <2>1, OneProc
  <2>6. FilesOK' /\ TempsOK'
    BY <1>2, <2>3, <2>4 DEF PatchInv, FilesOK, TempsOK, Durable, IsFile
  <2>7. Covered'
    BY <1>1, <1>2, <2>2, <2>3, <2>5 DEF PatchInv, Covered, Writing
  <2>8. ProcOK(p)'
    BY <2>2, <2>3, <2>5 DEF ProcOK, OwnTemp, Writing, IsProc, TempName
  <2>9. ASSUME NEW q \in Procs \ {p} PROVE ProcOK(q)'
    BY <2>3, <2>5, ProcKept DEF PatchInv, ProcOK, OwnTemp
  <2> QED
    BY <2>5, <2>6, <2>7, <2>8, <2>9 DEF PatchInv
<1> QED
  BY <1>3, <1>4

\* A step on the temporary file of one process: f is what it becomes and l the
\* next step, which may rely on it.
LEMMA TempStepInv ==
  ASSUME PatchInv, NEW p \in Procs, NEW f, NEW l \in {"permissions", "sync", "rename"},
         Writing(proc[p]), UNCHANGED <<file, older, left>>,
         temps' = [temps EXCEPT ![proc[p].name] = f], proc' = [proc EXCEPT ![p].pc = l],
         IsFile(f), f.whole = TRUE,
         l \in {"sync", "rename"} => f.mode = First.mode,
         l = "rename" => f.synced = TRUE
  PROVE  PatchInv'
<1> DEFINE x == [proc[p] EXCEPT !.pc = l]
<1>1. proc' = [proc EXCEPT ![p] = x]
  BY DEF PatchInv
<1>2. /\ IsProc(x) /\ x.name = proc[p].name /\ x.pc = l /\ x.mode = First.mode
      /\ proc[p].name \in DOMAIN temps /\ \E i : x.name = <<p, i>>
  BY DEF IsProc, PatchInv, ProcOK, OwnTemp, Writing
<1> HIDE DEF x
<1>3. DOMAIN proc' = Procs /\ proc'[p] = x /\ \A q \in Procs \ {p} : proc'[q] = proc[q]
  BY <1>1, OneProc
<1>4. /\ DOMAIN temps' = DOMAIN temps /\ temps'[x.name] = f
      /\ \A n \in DOMAIN temps \ {proc[p].name} : temps'[n] = temps[n]
  BY <1>2
<1>5. FilesOK' /\ TempsOK'
  BY <1>2, <1>4 DEF PatchInv, FilesOK, TempsOK, Durable, IsFile
<1>6. Covered'
  BY <1>2, <1>3, <1>4 DEF PatchInv, Covered, Writing
<1>7. ProcOK(p)'
  BY <1>2, <1>3, <1>4 DEF ProcOK, OwnTemp, Writing, IsProc
<1>8. ASSUME NEW q \in Procs \ {p} PROVE ProcOK(q)'
  <2>1. proc[p].name # proc[q].name
    BY <1>2, NamesApart
  <2> QED
    BY <1>3, <1>4, <2>1, ProcKept DEF PatchInv, ProcOK, OwnTemp
<1> QED
  BY <1>3, <1>5, <1>6, <1>7, <1>8 DEF PatchInv

\* Writing the text, the permissions, and syncing.
LEMMA WritingInv ==
  ASSUME PatchInv, NEW p \in Procs, Write(p) \/ SetPermissions(p) \/ SyncAll(p) PROVE PatchInv'
<1> DEFINE n == proc[p].name
<1>1. CASE Write(p)
  <2> DEFINE f == [temps[n] EXCEPT !.text = proc[p].text, !.whole = TRUE]
  <2>1. Writing(proc[p]) /\ n \in DOMAIN temps /\ IsFile(temps[n])
    BY <1>1 DEF Write, Writing, PatchInv, ProcOK, OwnTemp, TempsOK
  <2>2. temps' = [temps EXCEPT ![n] = f] /\ IsFile(f) /\ f.whole = TRUE
    BY <1>1, <2>1 DEF Write, IsFile
  <2>3. proc' = [proc EXCEPT ![p].pc = "permissions"] /\ UNCHANGED <<file, older, left>>
    BY <1>1 DEF Write
  <2> HIDE DEF f
  <2> QED
    BY <2>1, <2>2, <2>3, TempStepInv
<1>2. CASE SetPermissions(p)
  <2> DEFINE f == [temps[n] EXCEPT !.mode = proc[p].mode]
  <2>1. /\ Writing(proc[p]) /\ n \in DOMAIN temps /\ IsFile(temps[n])
        /\ proc[p].mode = First.mode /\ temps[n].whole = TRUE
    BY <1>2 DEF SetPermissions, Writing, PatchInv, ProcOK, OwnTemp, TempsOK
  <2>2. temps' = [temps EXCEPT ![n] = f] /\ IsFile(f) /\ f.whole = TRUE /\ f.mode = First.mode
    BY <1>2, <2>1 DEF SetPermissions, IsFile
  <2>3. proc' = [proc EXCEPT ![p].pc = "sync"] /\ UNCHANGED <<file, older, left>>
    BY <1>2 DEF SetPermissions
  <2> HIDE DEF f
  <2> QED
    BY <2>1, <2>2, <2>3, TempStepInv
<1>3. CASE SyncAll(p)
  <2> DEFINE f == [temps[n] EXCEPT !.synced = TRUE]
  <2>1. /\ Writing(proc[p]) /\ n \in DOMAIN temps /\ IsFile(temps[n])
        /\ temps[n].mode = First.mode /\ temps[n].whole = TRUE
    BY <1>3 DEF SyncAll, Writing, PatchInv, ProcOK, OwnTemp, TempsOK
  <2>2. temps' = [temps EXCEPT ![n] = f] /\ Durable(f)
    BY <1>3, <2>1 DEF SyncAll, IsFile, Durable
  <2>3. proc' = [proc EXCEPT ![p].pc = "rename"] /\ UNCHANGED <<file, older, left>>
    BY <1>3 DEF SyncAll
  <2> HIDE DEF f
  <2> QED
    BY <2>1, <2>2, <2>3, TempStepInv DEF Durable
<1> QED
  BY <1>1, <1>2, <1>3

\* The end of a process that had a temporary file, which is gone or left behind.
LEMMA EndInv ==
  ASSUME PatchInv, NEW p \in Procs, NEW x, proc' = [proc EXCEPT ![p] = x],
         IsProc(x), x.pc = "idle", x.name = <<>>, FilesOK',
         \/ temps' = Without(temps, proc[p].name) /\ left' = left
         \/ temps' = temps /\ left' = left \cup Leftovers({p})
  PROVE  PatchInv'
<1>1. DOMAIN proc' = Procs /\ proc'[p] = x /\ \A q \in Procs \ {p} : proc'[q] = proc[q]
  BY OneProc
<1>2. /\ DOMAIN temps' \subseteq DOMAIN temps
      /\ \A n \in DOMAIN temps' : temps'[n] = temps[n]
      /\ \A n \in DOMAIN temps \ DOMAIN temps' : n = proc[p].name
      /\ \A n \in DOMAIN temps' : n = proc[p].name /\ Writing(proc[p]) => n \in left'
      /\ left \subseteq left'
  BY DEF Without, Leftovers
<1>3. TempsOK'
  BY <1>2 DEF PatchInv, TempsOK, IsFile
<1>4. Covered'
  BY <1>1, <1>2 DEF PatchInv, Covered, Writing
<1>5. ProcOK(p)'
  BY <1>1 DEF ProcOK, Writing, IsProc
<1>6. ASSUME NEW q \in Procs \ {p} PROVE ProcOK(q)'
  <2>1. Writing(proc[q]) => proc[q].name \in DOMAIN temps'
    <3> SUFFICES ASSUME Writing(proc[q]) PROVE proc[q].name \in DOMAIN temps'
      OBVIOUS
    <3>1. proc[q].name \in DOMAIN temps /\ proc[q].name # <<>>
      BY DEF PatchInv, ProcOK, OwnTemp
    <3>2. proc[q].name # proc[p].name
      BY <3>1, NamesApart
    <3> QED
      BY <1>2, <3>1, <3>2
  <2> QED
    BY <1>1, <1>2, <2>1, ProcKept DEF PatchInv
<1> QED
  BY <1>1, <1>3, <1>4, <1>5, <1>6 DEF PatchInv

\* The rename, a step that fails, and a crash.
LEMMA EndsInv ==
  ASSUME PatchInv, NEW p \in Procs,
         Rename(p) \/ (\E removed \in BOOLEAN : StepFails(p, removed)) \/ Crash(p)
  PROVE  PatchInv'
<1> DEFINE x == [Idle EXCEPT !.id = proc[p].id]
<1>1. IsProc(x) /\ x.pc = "idle" /\ x.name = <<>> /\ IsProc(Idle) /\ Idle.pc = "idle" /\ Idle.name = <<>>
  BY DEF Idle, IsProc
<1>2. CASE Rename(p)
  <2>1. Durable(temps[proc[p].name])
    BY <1>2 DEF Rename, PatchInv, ProcOK, OwnTemp, Writing, TempsOK, Durable
  <2>2. FilesOK'
    BY <1>2, <2>1 DEF Rename, PatchInv, FilesOK, Durable, IsFile
  <2>3. proc' = [proc EXCEPT ![p] = x] /\ temps' = Without(temps, proc[p].name) /\ left' = left
    BY <1>2 DEF Rename, Returns
  <2> HIDE DEF x
  <2> QED
    BY <1>1, <2>2, <2>3, EndInv
<1>3. ASSUME NEW removed \in BOOLEAN, StepFails(p, removed) PROVE PatchInv'
  <2>1. FilesOK'
    BY <1>3 DEF StepFails, PatchInv, FilesOK, Durable, IsFile
  <2>2. proc' = [proc EXCEPT ![p] = x]
    BY <1>3 DEF StepFails, Returns
  <2>3. Leftovers({p}) = {proc[p].name}
    BY <1>3 DEF StepFails, Leftovers
  <2>4. \/ temps' = Without(temps, proc[p].name) /\ left' = left
        \/ temps' = temps /\ left' = left \cup Leftovers({p})
    BY <1>3, <2>3 DEF StepFails
  <2> HIDE DEF x
  <2> QED
    BY <1>1, <2>1, <2>2, <2>4, EndInv
<1>4. CASE Crash(p)
  <2>1. FilesOK'
    BY <1>4 DEF Crash, PatchInv, FilesOK, Durable, IsFile
  <2> QED
    BY <1>1, <1>4, <2>1, EndInv DEF Crash
<1> QED
  BY <1>2, <1>3, <1>4

\* A power loss brings back a durable file, and every temporary file is left over.
LEMMA PowerLossInv ==
  ASSUME PatchInv, PowerLoss PROVE PatchInv'
<1>1. PICK f \in {file} \cup older : file' = [f EXCEPT !.whole = f.whole /\ f.synced]
  BY DEF PowerLoss
<1>2. FilesOK'
  BY <1>1 DEF PowerLoss, PatchInv, FilesOK, Durable, IsFile
<1>3. DOMAIN temps' = DOMAIN temps /\ TempsOK'
  BY DEF PowerLoss, PatchInv, TempsOK, IsFile
<1>4. Covered'
  BY <1>3 DEF PowerLoss, PatchInv, Covered, Leftovers
<1>5. DOMAIN proc' = Procs /\ \A p \in Procs : proc'[p] = Idle
  BY DEF PowerLoss
<1>6. \A p \in Procs : ProcOK(p)'
  BY <1>5 DEF ProcOK, Writing, IsProc, Idle
<1> QED
  BY <1>2, <1>3, <1>4, <1>5, <1>6 DEF PatchInv

\* Another program puts a durable file in place.
LEMMA SaveInv ==
  ASSUME PatchInv, NEW t \in Saves, Save(t) PROVE PatchInv'
<1>1. FilesOK'
  BY DEF Save, PatchInv, FilesOK, Durable, IsFile
<1>2. \A q \in Procs : ProcOK(q)'
  BY ProcKept DEF Save, PatchInv, ProcOK, OwnTemp
<1> QED
  BY <1>1, <1>2 DEF Save, PatchInv, TempsOK, Covered, IsFile, Writing

\* The file an agent patches is whole and keeps its permissions at every moment,
\* after a crash or a power loss at any moment, and no two processes share a
\* temporary file, for any number of processes, retries and faults.
THEOREM PatchAlwaysWhole == PatchSpec => []PatchWhole
<1>1. PatchInv /\ [PatchNext]_patchVars => PatchInv'
  <2> SUFFICES ASSUME PatchInv, [PatchNext]_patchVars PROVE PatchInv'
    OBVIOUS
  <2>1. CASE UNCHANGED patchVars
    <3>1. \A q \in Procs : ProcOK(q)'
      BY <2>1, ProcKept DEF patchVars, PatchInv, ProcOK, OwnTemp
    <3> QED
      BY <2>1, <3>1 DEF patchVars, PatchInv, FilesOK, TempsOK, Covered, Durable, IsFile, Writing
  <2> QED
    BY <2>1, ReadInv, CreateInv, CreateFailsInv, WritingInv, EndsInv, PowerLossInv, SaveInv DEF PatchNext
<1> QED
  BY <1>1, InitInv, InvWhole, PTL DEF PatchSpec

-----------------------------------------------------------------------------
(* Interception and confinement *)

\* An environment binds every name, each to anything or to nothing.
IsEnv(e) == e = [v \in EnvNames |-> e[v]]

\* OffRestores is not inductive: the record says what the environment was that
\* interception was turned on in, and at startup there is nothing to take back.
RecordInv ==
  /\ IsEnv(env)
  /\ record # <<>> =>
       /\ record[1].prior_path = before["PATH"]
       /\ record[1].prior_shell = before["SHELL"]
       /\ record[1].deep_env["PRELOAD"] = before["PRELOAD"]
       /\ record[1].deep_env["SELF"] = before["SELF"]
  /\ phase = "startup" => confine = <<>> /\ record = <<>>

\* The operations on an environment give one.
LEMMA EnvOps ==
  ASSUME NEW e, IsEnv(e)
  PROVE  /\ \A v, x : IsEnv([e EXCEPT ![v] = x])
         /\ \A n : IsEnv(install_intercept_shims(e, n))
         /\ IsEnv(install_deep_intercept(e)) /\ IsEnv(install_confine_shims(e))
         /\ \A r : IsEnv(RestoreRecorded(e, r))
         /\ IsEnv(CleanInherited(e))
<1>1. \A v, x : IsEnv([e EXCEPT ![v] = x])
  BY DEF IsEnv
<1>2. \A n : IsEnv(install_intercept_shims(e, n))
  BY DEF IsEnv, install_intercept_shims, set_agent_fail_fast_env
<1>3. IsEnv(install_deep_intercept(e))
  BY DEF IsEnv, install_deep_intercept
<1>4. IsEnv(install_confine_shims(e))
  BY DEF IsEnv, install_confine_shims
<1>5. \A r : IsEnv(RestoreRecorded(e, r))
  BY DEF IsEnv, RestoreRecorded
<1>6. IsEnv(CleanInherited(e))
  BY DEF IsEnv, CleanInherited
<1> QED
  BY <1>1, <1>2, <1>3, <1>4, <1>5, <1>6

\* The environments a shell starts in.
LEMMA InterceptInitInv == InterceptInit => RecordInv
<1> SUFFICES ASSUME InterceptInit PROVE RecordInv
  OBVIOUS
<1>1. CASE env \in UserEnv
  BY <1>1 DEF InterceptInit, RecordInv, IsEnv, UserEnv, EnvNames
<1>2. CASE env = Inherited([PATH |-> <<Bin>>, SHELL |-> <<Bin>>, ASKPASS |-> Unbound,
                            PRELOAD |-> <<UserLib>>, SELF |-> Unbound, TOKEN |-> <<7>>])
  BY <1>2 DEF InterceptInit, RecordInv, IsEnv, Inherited, EnvNames
<1> QED
  BY <1>1, <1>2 DEF InterceptInit

\* What taking an installation back does to the names it had bound: they are as they
\* were, and a fail-fast variable of the user's stays.
LEMMA TakenBackRestores ==
  ASSUME RecordInv
  PROVE  /\ IsEnv(uninstall_intercept(env))
         /\ record # <<>> =>
              /\ \A v \in {"PATH", "SHELL", "PRELOAD", "SELF"} :
                   uninstall_intercept(env)[v] = before[v]
              /\ env["ASKPASS"] = <<3>> => uninstall_intercept(env)["ASKPASS"] = <<3>>
<1>1. IsEnv(env)
  BY DEF RecordInv
<1>2. IsEnv(uninstall_intercept(env))
  BY <1>1, EnvOps DEF uninstall_intercept
<1>3. ASSUME record # <<>>
      PROVE  /\ \A v \in {"PATH", "SHELL", "PRELOAD", "SELF"} :
                  uninstall_intercept(env)[v] = before[v]
             /\ env["ASKPASS"] = <<3>> => uninstall_intercept(env)["ASKPASS"] = <<3>>
  <2>1. uninstall_intercept(env) = RestoreRecorded(env, record[1])
    BY <1>3 DEF uninstall_intercept
  <2>2. DOMAIN env = EnvNames
    BY <1>1 DEF IsEnv
  <2>3. /\ RestoreRecorded(env, record[1])["PATH"] = record[1].prior_path
        /\ RestoreRecorded(env, record[1])["SHELL"] = record[1].prior_shell
        /\ RestoreRecorded(env, record[1])["PRELOAD"] = record[1].deep_env["PRELOAD"]
        /\ RestoreRecorded(env, record[1])["SELF"] = record[1].deep_env["SELF"]
    BY <2>2 DEF RestoreRecorded, EnvNames
  <2>4. <<3>> # <<0>>
    OBVIOUS
  <2>5. env["ASKPASS"] = <<3>> => RestoreRecorded(env, record[1])["ASKPASS"] = <<3>>
    BY <2>2, <2>4 DEF RestoreRecorded, EnvNames
  <2> QED
    BY <1>3, <2>1, <2>3, <2>5 DEF RecordInv
<1> QED
  BY <1>2, <1>3

\* The record of an installation is of the environment it was made in.
LEMMA RecordOf ==
  ASSUME NEW e, NEW n
  PROVE  /\ <<InterceptRecord(e, n)>> # <<>>
         /\ <<InterceptRecord(e, n)>>[1].prior_path = e["PATH"]
         /\ <<InterceptRecord(e, n)>>[1].prior_shell = e["SHELL"]
         /\ <<InterceptRecord(e, n)>>[1].deep_env["PRELOAD"] = e["PRELOAD"]
         /\ <<InterceptRecord(e, n)>>[1].deep_env["SELF"] = e["SELF"]
BY DEF InterceptRecord

\* The shell's start.
LEMMA StartupKeeps ==
  ASSUME RecordInv, NEW allow, NEW on, NEW deep, Startup(allow, on, deep)
  PROVE  RecordInv' /\ OffRestores /\ ShellNarrows
<1> DEFINE n == IF allow # {} THEN 1 ELSE 0
           e == IF allow # {} THEN install_confine_shims(env) ELSE env
<1>1. IsEnv(e)
  BY EnvOps DEF RecordInv
<1>2. phase = "startup" /\ phase' = "running" /\ before' = e
  BY DEF Startup
<1>3. confine = <<>> /\ record = <<>>
  BY <1>2 DEF RecordInv
<1>4. CASE on /\ CanInstall(e)
  <2>1. /\ record' = <<InterceptRecord(e, n + 1)>>
        /\ env' = IF deep THEN install_deep_intercept(install_intercept_shims(e, n + 1))
                  ELSE install_intercept_shims(e, n + 1)
    BY <1>4 DEF Startup
  <2> HIDE DEF e, n
  <2>2. IsEnv(install_intercept_shims(e, n + 1))
    BY <1>1, EnvOps
  <2>3. IsEnv(install_deep_intercept(install_intercept_shims(e, n + 1)))
    BY <2>2, EnvOps
  <2>4. IsEnv(env')
    BY <2>1, <2>2, <2>3
  <2>5. IsEnv(env)'
    BY <2>4 DEF IsEnv
  <2>6. RecordInv'
    BY <1>2, <2>1, <2>5, RecordOf DEF RecordInv
  <2> QED
    BY <1>3, <2>6 DEF OffRestores, ShellNarrows
<1>5. CASE ~ (on /\ CanInstall(e))
  <2>1. env' = e /\ record' = record
    BY <1>5 DEF Startup
  <2>2. IsEnv(env)'
    BY <1>1, <2>1 DEF IsEnv
  <2>3. RecordInv'
    BY <1>2, <1>3, <2>1, <2>2 DEF RecordInv
  <2> QED
    BY <1>3, <2>3 DEF OffRestores, ShellNarrows
<1> QED
  BY <1>4, <1>5

\* Interception turned on, again or for the first time, or failing to install.
LEMMA InterceptOnKeeps ==
  ASSUME RecordInv, NEW parent, NEW written, NEW deep, ModeInterceptOn(parent, written, deep)
  PROVE  RecordInv' /\ OffRestores /\ ShellNarrows
<1> DEFINE e == uninstall_intercept(env)
           n == made + 1
<1>1. /\ phase = "running" /\ phase' = phase /\ confine' = confine
      /\ before' = IF record = <<>> THEN e ELSE before
  BY DEF ModeInterceptOn, TakenBack
<1>2. /\ IsEnv(e)
      /\ record # <<>> => /\ \A v \in {"PATH", "SHELL", "PRELOAD", "SELF"} : e[v] = before[v]
                          /\ env["ASKPASS"] = <<3>> => e["ASKPASS"] = <<3>>
  BY TakenBackRestores
<1>3. ShellNarrows
  BY <1>1 DEF ShellNarrows
<1>4. \A v \in {"PATH", "SHELL", "PRELOAD", "SELF"} : e[v] = before'[v]
  BY <1>1, <1>2
<1>5. CASE build_shim_generation(parent, written) /\ CanInstall(e)
  <2>1. /\ record' = <<InterceptRecord(e, n)>>
        /\ env' = IF deep THEN install_deep_intercept(install_intercept_shims(e, n))
                  ELSE install_intercept_shims(e, n)
    BY <1>5 DEF ModeInterceptOn, TakenBack
  <2> HIDE DEF e, n
  <2>2. IsEnv(install_intercept_shims(e, n))
    BY <1>2, EnvOps
  <2>3. IsEnv(install_deep_intercept(install_intercept_shims(e, n)))
    BY <2>2, EnvOps
  <2>4. IsEnv(env')
    BY <2>1, <2>2, <2>3
  <2>5. IsEnv(env)'
    BY <2>4 DEF IsEnv
  <2>6. /\ record' # <<>>
        /\ record'[1].prior_path = e["PATH"] /\ record'[1].prior_shell = e["SHELL"]
        /\ record'[1].deep_env["PRELOAD"] = e["PRELOAD"]
        /\ record'[1].deep_env["SELF"] = e["SELF"]
    BY <2>1, RecordOf
  <2>7. RecordInv'
    BY <1>1, <1>4, <2>5, <2>6 DEF RecordInv
  <2> QED
    BY <1>3, <2>6, <2>7 DEF OffRestores
<1>6. CASE ~ (build_shim_generation(parent, written) /\ CanInstall(e))
  <2>1. env' = e /\ record' = <<>>
    BY <1>6 DEF ModeInterceptOn, TakenBack
  <2> HIDE DEF e
  <2>2. IsEnv(env)'
    BY <1>2, <2>1 DEF IsEnv
  <2>3. RecordInv'
    BY <1>1, <2>1, <2>2 DEF RecordInv
  <2>4. OffRestores
    BY <1>2, <2>1 DEF OffRestores
  <2> QED
    BY <1>3, <2>3, <2>4
<1> QED
  BY <1>5, <1>6

\* Interception turned off.
LEMMA InterceptOffKeeps ==
  ASSUME RecordInv, ModeInterceptOff
  PROVE  RecordInv' /\ OffRestores /\ ShellNarrows
<1>1. /\ phase = "running" /\ env' = uninstall_intercept(env) /\ record' = <<>>
      /\ UNCHANGED <<confine, before, phase>>
  BY DEF ModeInterceptOff
<1>2. /\ IsEnv(uninstall_intercept(env))
      /\ record # <<>> =>
              /\ \A v \in {"PATH", "SHELL", "PRELOAD", "SELF"} :
                   uninstall_intercept(env)[v] = before[v]
              /\ env["ASKPASS"] = <<3>> => uninstall_intercept(env)["ASKPASS"] = <<3>>
  BY TakenBackRestores
<1>3. IsEnv(env)'
  BY <1>1, <1>2 DEF IsEnv
<1>4. RecordInv'
  BY <1>1, <1>3 DEF RecordInv
<1>5. OffRestores /\ ShellNarrows
  BY <1>1, <1>2 DEF OffRestores, ShellNarrows
<1> QED
  BY <1>4, <1>5

\* A step that keeps the record and binds names anew, and narrows if it confines.
LEMMA OtherKeeps ==
  ASSUME RecordInv, phase = "running" \/ frame # <<>>, IsEnv(env'),
         UNCHANGED <<record, before, phase>>,
         phase = "startup" => confine' = confine,
         confine # <<>> => confine' # <<>> /\ confine'[1] \subseteq confine[1]
  PROVE  RecordInv' /\ OffRestores /\ ShellNarrows
<1>1. IsEnv(env)'
  BY DEF IsEnv
<1> QED
  BY <1>1 DEF RecordInv, OffRestores, ShellNarrows

\* set_confine narrows the list in force, and sets one when there is none.
LEMMA ConfineNarrows ==
  ASSUME NEW names, set_confine(names)
  PROVE  confine # <<>> => confine' # <<>> /\ confine'[1] \subseteq confine[1]
BY DEF set_confine, Narrowed

\* Every step keeps the invariant and both promises.
LEMMA InterceptStep ==
  ASSUME RecordInv, InterceptNext
  PROVE  RecordInv' /\ OffRestores /\ ShellNarrows
<1>1. ASSUME NEW a \in SUBSET Commands, NEW on \in BOOLEAN, NEW deep \in BOOLEAN, Startup(a, on, deep)
      PROVE  RecordInv' /\ OffRestores /\ ShellNarrows
  BY <1>1, StartupKeeps
<1>2. ASSUME NEW b \in TempBases, NEW written \in BOOLEAN, NEW deep \in BOOLEAN,
             ModeInterceptOn(b, written, deep)
      PROVE  RecordInv' /\ OffRestores /\ ShellNarrows
  BY <1>2, InterceptOnKeeps
<1>3. CASE ModeInterceptOff
  BY <1>3, InterceptOffKeeps
<1>4. IsEnv(env)
  BY DEF RecordInv
<1>5. ASSUME NEW p \in UserValues, UserSets(p[1], p[2])
      PROVE  RecordInv' /\ OffRestores /\ ShellNarrows
  <2>1. IsEnv(env') /\ phase = "running" /\ UNCHANGED <<record, confine, before, phase>>
    BY <1>4, <1>5, EnvOps DEF UserSets
  <2> QED
    BY <2>1, OtherKeeps
<1>6. ASSUME NEW o, ConfineSticky(o)
      PROVE  RecordInv' /\ OffRestores /\ ShellNarrows
  <2>1. /\ IsEnv(env') /\ phase = "running" /\ UNCHANGED <<record, before, phase>>
        /\ set_confine(o.names)
    BY <1>4, <1>6, EnvOps DEF ConfineSticky
  <2> QED
    BY <2>1, ConfineNarrows, OtherKeeps
<1>7. ASSUME NEW o, NEW w, NEW b, RunSandboxed(o, w, b)
      PROVE  RecordInv' /\ OffRestores /\ ShellNarrows
  <2>1. phase = "running" /\ UNCHANGED <<record, confine, before, phase>>
    BY <1>7 DEF RunSandboxed
  <2>2. env' = [env EXCEPT !["TOKEN"] = Unbound, !["PRELOAD"] = Unbound] \/ env' = env
    BY <1>7 DEF RunSandboxed
  <2>3. IsEnv(env')
    BY <1>4, <2>2 DEF IsEnv
  <2> QED
    BY <2>1, <2>3, OtherKeeps
<1>8. ASSUME NEW o, NEW w, NEW b, RunBestEffort(o, w, b)
      PROVE  RecordInv' /\ OffRestores /\ ShellNarrows
  <2>1. IsEnv(env') /\ phase = "running" /\ UNCHANGED <<record, confine, before, phase>>
    BY <1>4, <1>8, EnvOps DEF RunBestEffort
  <2> QED
    BY <2>1, OtherKeeps
<1>9. ASSUME NEW s \in SUBSET Commands, RestoreSession(s)
      PROVE  RecordInv' /\ OffRestores /\ ShellNarrows
  <2>1. IsEnv(env') /\ phase = "running" /\ UNCHANGED <<record, before, phase>> /\ set_confine(s)
    BY <1>4, <1>9 DEF RestoreSession
  <2> QED
    BY <2>1, ConfineNarrows, OtherKeeps
<1>10. CASE PayloadEnds
  <2>1. frame # <<>> /\ UNCHANGED <<record, confine, before, phase>>
    BY <1>10 DEF PayloadEnds
  <2>2. \/ env' = [env EXCEPT !["PATH"] = frame[1].path, !["SHELL"] = frame[1].shell]
        \/ env' = [env EXCEPT !["TOKEN"] = IF frame[1].token = Unbound THEN @ ELSE frame[1].token,
                              !["PRELOAD"] = IF frame[1].preload = Unbound THEN @
                                             ELSE frame[1].preload]
    BY <1>10 DEF PayloadEnds
  <2>3. IsEnv(env')
    BY <1>4, <2>2 DEF IsEnv
  <2> QED
    BY <2>1, <2>3, OtherKeeps
<1> QED
  BY <1>1, <1>2, <1>3, <1>5, <1>6, <1>7, <1>8, <1>9, <1>10 DEF InterceptNext

\* What children inherit is not narrower than the shell's own list: outside a
\* scoped run the list itself, during one the list the run gives back.
Covers(l) == IF confine = <<>> THEN l = <<>> ELSE l # <<>> /\ confine[1] \subseteq l[1]
ListInv ==
  /\ phase = "startup" => confine = <<>> /\ frame = <<>>
  /\ phase # "startup" =>
       /\ frame = <<>> => Covers(listed)
       /\ frame # <<>> => Covers(IF frame[1].how = "best" THEN frame[1].list ELSE listed)

\* Confining and restoring keep the two lists apart that way; confining narrows.
LEMMA ConfiningLists ==
  ASSUME NEW names, Covers(listed), set_confine(names)
  PROVE  /\ listed' = <<Narrowed(names)>> =>
              /\ Covers(listed)'
              /\ listed # <<>> => listed' # <<>> /\ listed'[1] \subseteq listed[1]
         /\ listed' = <<names>> => Covers(listed)'
BY DEF Covers, set_confine, Narrowed

\* Every step keeps it, and narrows the inherited list but where it is replayed.
LEMMA ListStep ==
  ASSUME ListInv, InterceptNext
  PROVE  ListInv' /\ ListNarrows
<1>1. ASSUME NEW a \in SUBSET Commands, NEW on \in BOOLEAN, NEW deep \in BOOLEAN, Startup(a, on, deep)
      PROVE  ListInv' /\ ListNarrows
  <2>1. /\ phase = "startup" /\ phase' = "running" /\ frame' = frame
        /\ confine' = IF a # {} THEN <<IF listed = <<>> THEN a ELSE listed[1] \cap a>> ELSE listed
        /\ listed' = confine'
    BY <1>1 DEF Startup
  <2>2. frame = <<>>
    BY <2>1 DEF ListInv
  <2>3. Covers(listed)'
    BY <2>1 DEF Covers
  <2>4. ListNarrows
    BY <2>1 DEF ListNarrows
  <2> QED
    BY <2>1, <2>2, <2>3, <2>4 DEF ListInv
<1>2. ASSUME UNCHANGED <<confine, listed, frame, phase>>
      PROVE  ListInv' /\ ListNarrows
  BY <1>2 DEF ListInv, Covers, ListNarrows
<1>3. ASSUME NEW o, ConfineSticky(o)
      PROVE  ListInv' /\ ListNarrows
  <2>1. /\ phase = "running" /\ phase' = phase /\ frame = <<>> /\ frame' = frame
        /\ set_confine(o.names) /\ listed' = <<Narrowed(o.names)>>
    BY <1>3 DEF ConfineSticky
  <2>2. Covers(listed)
    BY <2>1 DEF ListInv
  <2>3. Covers(listed)' /\ ListNarrows
    BY <2>1, <2>2, ConfiningLists DEF ListNarrows
  <2> QED
    BY <2>1, <2>3 DEF ListInv
<1>4. ASSUME NEW o, NEW w, NEW b, RunSandboxed(o, w, b)
      PROVE  ListInv' /\ ListNarrows
  <2>1. /\ phase = "running" /\ phase' = phase /\ frame = <<>>
        /\ UNCHANGED <<confine, listed>> /\ frame' # <<>> /\ frame'[1].how = "sandboxed"
    BY <1>4 DEF RunSandboxed
  <2>2. Covers(listed)
    BY <2>1 DEF ListInv
  <2> QED
    BY <2>1, <2>2 DEF ListInv, Covers, ListNarrows
<1>5. ASSUME NEW o, NEW w, NEW b, RunBestEffort(o, w, b)
      PROVE  ListInv' /\ ListNarrows
  <2>1. /\ phase = "running" /\ phase' = phase /\ frame = <<>> /\ confine' = confine
        /\ listed' = <<Narrowed(o.names)>>
        /\ frame' # <<>> /\ frame'[1].how = "best" /\ frame'[1].list = listed
    BY <1>5 DEF RunBestEffort
  <2>2. Covers(listed)
    BY <2>1 DEF ListInv
  <2>3. ListNarrows
    BY <2>1, <2>2 DEF ListNarrows, Covers, Narrowed
  <2> QED
    BY <2>1, <2>2, <2>3 DEF ListInv, Covers
<1>6. ASSUME NEW s \in SUBSET Commands, RestoreSession(s)
      PROVE  ListInv' /\ ListNarrows
  <2>1. /\ phase = "running" /\ phase' = phase /\ frame = <<>> /\ frame' = frame
        /\ set_confine(s) /\ listed' = <<s>>
    BY <1>6 DEF RestoreSession
  <2>2. Covers(listed)'
    BY <2>1, ConfiningLists DEF ListInv
  <2>3. ListNarrows
    BY <1>6 DEF ListNarrows, Replays
  <2> QED
    BY <2>1, <2>2, <2>3 DEF ListInv
<1>7. CASE PayloadEnds
  <2>1. /\ frame # <<>> /\ frame' = <<>> /\ UNCHANGED <<confine, phase>>
        /\ listed' = IF frame[1].how = "best" THEN frame[1].list ELSE listed
    BY <1>7 DEF PayloadEnds
  <2> QED
    BY <2>1 DEF ListInv, Covers, ListNarrows
<1> QED
  BY <1>1, <1>2, <1>3, <1>4, <1>5, <1>6, <1>7
     DEF InterceptNext, ModeInterceptOn, ModeInterceptOff, UserSets

\* However interception and confinement are turned on, nested, inherited or fail,
\* turning interception off gives back the environment it was turned on in unless
\* a confinement was installed over it, no step of a shell widens its allowlist,
\* and none but a replayed session the one its children inherit.
THEOREM InterceptionAlwaysUndone == InterceptSpec => InterceptionUndone
<1>1. RecordInv /\ [InterceptNext]_interceptVars => RecordInv'
  <2>1. RecordInv /\ UNCHANGED interceptVars => RecordInv'
    BY DEF RecordInv, interceptVars, IsEnv
  <2> QED
    BY <2>1, InterceptStep
<1>2. ListInv /\ [InterceptNext]_interceptVars => ListInv'
  <2>1. ListInv /\ UNCHANGED interceptVars => ListInv'
    BY DEF ListInv, interceptVars, Covers
  <2> QED
    BY <2>1, ListStep
<1>3. RecordInv /\ ListInv /\ [InterceptNext]_interceptVars => [OffRestores /\ NarrowOnly]_interceptVars
  BY InterceptStep, ListStep DEF NarrowOnly
<1>4. InterceptInit => ListInv
  BY DEF InterceptInit, ListInv
<1> QED
  BY <1>1, <1>2, <1>3, <1>4, InterceptInitInv, PTL DEF InterceptSpec, InterceptionUndone

-----------------------------------------------------------------------------
(* The traces of several shells *)

TraceStates == {"idle", "run", "out", "off", "err", "scan", "prune", "check", "dead"}
Marks == {"none", "complete", "truncated", "disabled"}
Sources == [have : Nat, total : Nat, complete : BOOLEAN]
TraceRecords ==
  [st : TraceStates, cmd : Nat, enabled : BOOLEAN, wrote : [Fds -> Nat], total : [Fds -> Nat],
   stored : [Fds -> Nat], spool : SUBSET Fds, tee : SUBSET Fds, mark : SUBSET Fds, left : Nat,
   room : Nat, source : [Fds -> Sources], status : [Fds -> Marks], records : Seq(Nat),
   disk_traces : Seq([cmd : Nat, status : [Fds -> Marks]]),
   said : SUBSET [cmd : Nat, wrote : [Fds -> Int]]]
TraceFiles == [owner : TraceShells \cup {"old"}, cmd : Nat, s : Fds, bytes : Nat, at : Nat]

\* The type of the state.  A tally's bytes are a sum over the directory, of which
\* nothing is needed.
TracesOK ==
  /\ dir \subseteq TraceFiles /\ IsFiniteSet(dir) /\ clock \in Nat
  /\ tshells \in [TraceShells -> TraceRecords]
  /\ prunes = [p \in TraceShells |-> prunes[p]]

\* A file was written behind the command it names, before its shell's next one.
Written(f) ==
  f.owner # "old" =>
    \/ f.cmd < tshells[f.owner].cmd
    \/ /\ f.cmd = tshells[f.owner].cmd
       /\ tshells[f.owner].st \notin {"run", "out", "off"}
       /\ tshells[f.owner].st = "err" => f.s = "out"

\* Every stream of a command has one file.
DirFilesOK ==
  /\ \A f \in dir : f.at <= clock /\ Written(f)
  /\ \A f, g \in dir : f.owner = g.owner /\ f.cmd = g.cmd /\ f.s = g.s => f = g

\* What a prune saw and still is there is no more than it counts, and its own
\* files are among it.
Before(t) == {f \in dir : f.at <= t}
PruneOK(p) ==
  tshells[p].st = "prune" =>
    /\ prunes[p].upTo \in 0..clock /\ prunes[p].count \in Int
    /\ Cardinality(Before(prunes[p].upTo)) <= prunes[p].count
    /\ \A f \in dir : OwnFile(p, f) => f.at <= prunes[p].upTo

\* Up to some moment, the scan of the prune that has read the directory last of
\* those completed, the files are within the limit; younger ones belong to shells
\* that have not pruned since they wrote them.
Owed(f) ==
  /\ f.owner \in TraceShells /\ f.cmd = tshells[f.owner].cmd
  /\ tshells[f.owner].st \in {"err", "scan", "prune", "dead"}
Bounded(t) == Cardinality(Before(t)) <= TraceCap /\ \A f \in dir : f.at > t => Owed(f)
DirBounded == \E t \in 0..clock : Bounded(t)

\* A command in progress is younger than what the shell remembers.
RefsOK(p) ==
  LET me == tshells[p] IN
  /\ Len(me.records) = Len(me.disk_traces)
  /\ \A k \in DOMAIN me.disk_traces :
       /\ me.disk_traces[k].cmd = me.records[k] /\ me.records[k] <= me.cmd
       /\ me.st # "idle" => me.records[k] < me.cmd
  /\ \A x \in me.said : x.cmd <= me.cmd /\ (me.st = "run" => x.cmd < me.cmd)

\* A spool that has stored all it was given was given all the command wrote.
RunOK(p) ==
  LET me == tshells[p] IN
  me.st = "run" =>
    /\ me.tee \subseteq me.spool
    /\ \A s \in me.spool : /\ me.stored[s] <= me.total[s]
                           /\ IF s \in me.tee THEN me.total[s] = me.wrote[s]
                                              ELSE me.stored[s] < me.total[s]
                           /\ me.enabled => Spool(p, s) \in spools

\* What is known of a stream's bytes before and after they are persisted, and of
\* the traces that are remembered.
SourceTrue(p, s) ==
  LET me == tshells[p] IN
  me.source[s].complete => \A x \in me.said : x.cmd = me.cmd => x.wrote[s] = me.source[s].total
FileTrue(p, s) ==
  LET me == tshells[p] IN
  me.status[s] = "complete" =>
    \A x \in me.said, f \in dir :
      x.cmd = me.cmd /\ OwnFile(p, f) /\ f.s = s => f.bytes = x.wrote[s]
KeepOK(p) ==
  /\ tshells[p].st = "out" => SourceTrue(p, "out")
  /\ tshells[p].st \in {"out", "err"} => SourceTrue(p, "err")
  /\ tshells[p].st \in {"err", "scan", "prune", "check"} => FileTrue(p, "out")
  /\ tshells[p].st \in {"scan", "prune", "check"} => FileTrue(p, "err")
DiskTrue(p) ==
  LET me == tshells[p] IN
  \A k \in DOMAIN me.disk_traces, x \in me.said, f \in dir :
    f.owner = p /\ f.cmd = me.disk_traces[k].cmd /\ x.cmd = f.cmd
      /\ me.disk_traces[k].status[f.s] = "complete" => f.bytes = x.wrote[f.s]

TraceInv ==
  /\ TracesOK /\ DirFilesOK /\ DirBounded
  /\ \A p \in TraceShells : PruneOK(p) /\ RefsOK(p) /\ RunOK(p) /\ KeepOK(p) /\ DiskTrue(p)

\* What is left of a command: the shell is idle and remembers what it did.
LEMMA DoneFacts ==
  ASSUME NEW me \in TraceRecords
  PROVE  /\ Done(me) \in TraceRecords
         /\ Done(me).st = "idle" /\ Done(me).cmd = me.cmd /\ Done(me).records = me.records
         /\ Done(me).disk_traces = me.disk_traces /\ Done(me).said \subseteq me.said
<1> DEFINE kept == {x \in me.said : x.cmd \in ToSet(me.records) \cup {me.disk_traces[k].cmd : k \in DOMAIN me.disk_traces}}
<1>1. kept \subseteq me.said
  OBVIOUS
<1>2. Fresh \in TraceRecords
  BY DEF Fresh, TraceRecords, TraceStates, Marks, Sources, Zero, Nothing, Source, Fds
<1>3. me.cmd \in Nat /\ me.records \in Seq(Nat) /\ me.disk_traces \in Seq([cmd : Nat, status : [Fds -> Marks]])
      /\ me.said \in SUBSET [cmd : Nat, wrote : [Fds -> Int]]
  BY DEF TraceRecords
<1> HIDE DEF kept
<1>4. Done(me) = [Fresh EXCEPT !.cmd = me.cmd, !.records = me.records, !.disk_traces = me.disk_traces, !.said = kept]
  BY DEF Done, kept
<1>5. Fresh.st = "idle"
  BY DEF Fresh
<1> QED
  BY <1>1, <1>2, <1>3, <1>4, <1>5, ZenonT(40) DEF TraceRecords

\* The record of a shell that starts a command.
LEMMA CreateType ==
  ASSUME TracesOK, NEW p \in TraceShells, create_trace_spool(p)
  PROVE  /\ TracesOK'
         /\ tshells'[p].st = "run" /\ tshells'[p].cmd = tshells[p].cmd + 1
         /\ tshells'[p].tee = tshells'[p].spool
         /\ \A s \in Fds : tshells'[p].wrote[s] = 0 /\ tshells'[p].total[s] = 0 /\ tshells'[p].stored[s] = 0
         /\ tshells'[p].records = tshells[p].records /\ tshells'[p].disk_traces = tshells[p].disk_traces
         /\ tshells'[p].said = tshells[p].said
         /\ \A q \in TraceShells \ {p} : tshells'[q] = tshells[q]
<1>1. PICK streams \in {{}, Fds}, enabled \in BOOLEAN :
        tshells' = [tshells EXCEPT ![p] =
               [@ EXCEPT !.st = "run", !.cmd = tshells[p].cmd + 1, !.enabled = enabled,
                         !.spool = IF enabled THEN streams ELSE {}, !.tee = IF enabled THEN streams ELSE {},
                         !.left = IF enabled THEN MaxRaw ELSE 0,
                         !.wrote = Zero, !.total = Zero, !.stored = Zero]]
  BY DEF create_trace_spool
<1> DEFINE mine == IF enabled THEN streams ELSE {}
           budget == IF enabled THEN MaxRaw ELSE 0
           you == [tshells[p] EXCEPT !.st = "run", !.cmd = tshells[p].cmd + 1, !.enabled = enabled,
                      !.spool = mine, !.tee = mine, !.left = budget, !.wrote = Zero, !.total = Zero, !.stored = Zero]
<1>2. mine \in SUBSET Fds /\ budget \in Nat /\ Zero \in [Fds -> Nat] /\ \A s \in Fds : Zero[s] = 0
  BY TraceAssumption DEF Zero
<1>a. tshells[p] \in TraceRecords
  BY DEF TracesOK
<1>b. tshells[p].cmd \in Nat
  BY <1>a DEF TraceRecords
<1>3. tshells[p] \in TraceRecords /\ tshells[p].cmd + 1 \in Nat
  BY <1>a, <1>b
<1>4. tshells' = [tshells EXCEPT ![p] = you]
  BY <1>1
<1> HIDE DEF mine, budget
<1>5. you \in TraceRecords
  BY <1>2, <1>3 DEF TraceRecords, TraceStates
<1>6. tshells'[p] = you /\ \A q \in TraceShells \ {p} : tshells'[q] = tshells[q]
  BY <1>4 DEF TracesOK
<1>7. tshells' \in [TraceShells -> TraceRecords]
  BY <1>4, <1>5 DEF TracesOK
<1>8. TracesOK'
  BY <1>7 DEF TracesOK, create_trace_spool
<1> QED
  BY <1>2, <1>3, <1>6, <1>8 DEF TraceRecords

\* A step of shell p: other shells and their prunes are as they were, nothing that
\* lives loses its spool, and what is new in the directory is p's.
StepOf(p) ==
  /\ TracesOK' /\ clock' >= clock
  /\ \A q \in TraceShells \ {p} : tshells'[q] = tshells[q] /\ prunes'[q] = prunes[q]
  /\ \A f \in dir' \ dir : f.owner = p /\ f.at > clock
  /\ \A f \in spools : f.owner \in TraceShells \ {p} /\ Alive(f.owner) => f \in spools'

\* The files up to a moment that is past only become fewer.
LEMMA PastShrinks ==
  ASSUME TracesOK, NEW p, StepOf(p), NEW t \in 0..clock
  PROVE  /\ IsFiniteSet(Before(t)) /\ IsFiniteSet(Before(t)')
         /\ Cardinality(Before(t)) \in Nat /\ Cardinality(Before(t)') \in Nat
         /\ Cardinality(Before(t)') <= Cardinality(Before(t))
<1>0. clock \in Nat /\ dir \subseteq TraceFiles /\ dir' \subseteq TraceFiles /\ IsFiniteSet(dir) /\ IsFiniteSet(dir')
  BY DEF TracesOK, StepOf
<1>1. Before(t) \in SUBSET dir /\ Before(t)' \in SUBSET dir'
  BY DEF Before
<1>2. \A f \in dir' : f.at \in Nat
  BY <1>0 DEF TraceFiles
<1>3. Before(t)' \in SUBSET Before(t)
  BY <1>0, <1>2 DEF Before, StepOf
<1>4. IsFiniteSet(Before(t)) /\ IsFiniteSet(Before(t)')
  BY <1>0, <1>1, FS_Subset
<1>5. Cardinality(Before(t)') <= Cardinality(Before(t))
  BY <1>3, <1>4, FS_Subset
<1> QED
  BY <1>4, <1>5, FS_CardinalityType

\* What is said of one shell survives the steps of the others.
LEMMA OthersKept ==
  ASSUME TraceInv, NEW p \in TraceShells, StepOf(p), NEW q \in TraceShells \ {p}
  PROVE  PruneOK(q)' /\ RefsOK(q)' /\ RunOK(q)' /\ KeepOK(q)' /\ DiskTrue(q)'
<1>1. tshells'[q] = tshells[q] /\ prunes'[q] = prunes[q] /\ q \in TraceShells
  BY DEF StepOf
<1>2. \A f \in dir' : f.owner = q => f \in dir
  BY DEF StepOf
<1>3. TracesOK /\ PruneOK(q) /\ RefsOK(q) /\ RunOK(q) /\ KeepOK(q) /\ DiskTrue(q)
  BY DEF TraceInv
<1>4. PruneOK(q)'
  <2> SUFFICES ASSUME tshells[q].st = "prune"
               PROVE  PruneOK(q)'
    BY <1>1 DEF PruneOK
  <2>1. clock \in Nat /\ clock' \in Nat /\ clock' >= clock
    BY <1>3 DEF StepOf, TracesOK
  <2>2. prunes[q].upTo \in 0..clock /\ prunes[q].count \in Int
        /\ Cardinality(Before(prunes[q].upTo)) <= prunes[q].count
        /\ \A f \in dir : OwnFile(q, f) => f.at <= prunes[q].upTo
    BY <1>3 DEF PruneOK
  <2>3. PICK t \in 0..clock : t = prunes[q].upTo
    BY <2>2
  <2>4. Cardinality(Before(t)') <= Cardinality(Before(t)) /\ Cardinality(Before(t)) \in Nat /\ Cardinality(Before(t)') \in Nat
    BY <1>3, <2>3, PastShrinks
  <2>5. Cardinality(Before(t)') <= prunes[q].count
    BY <2>2, <2>3, <2>4
  <2>6. Before(t)' = Before(prunes[q].upTo)'
    BY <1>1, <2>3 DEF Before
  <2>7. prunes'[q].upTo = t /\ prunes'[q].upTo \in 0..clock' /\ prunes'[q].count \in Int /\ prunes'[q].count = prunes[q].count
    BY <1>1, <2>1, <2>2, <2>3
  <2>8. \A f \in dir' : OwnFile(q, f)' => f.at <= prunes'[q].upTo
    BY <1>1, <1>2, <2>2 DEF OwnFile
  <2> QED
    BY <2>5, <2>6, <2>7, <2>8 DEF PruneOK, Before
<1>5. RefsOK(q)'
  BY <1>1, <1>3 DEF RefsOK
<1>6. RunOK(q)'
  <2> SUFFICES ASSUME tshells[q].st = "run"
               PROVE  RunOK(q)'
    BY <1>1 DEF RunOK
  <2>1. \A s \in tshells[q].spool : Spool(q, s)' = Spool(q, s)
    BY <1>1 DEF Spool
  <2>2. \A s \in tshells[q].spool : Spool(q, s) \in spools => Spool(q, s) \in spools'
    <3> TAKE s \in tshells[q].spool
    <3>1. Spool(q, s).owner = q /\ Alive(q)
      BY DEF Spool, Alive
    <3> QED
      BY <3>1 DEF StepOf
  <2> QED
    BY <1>1, <1>3, <2>1, <2>2 DEF RunOK
<1>7. KeepOK(q)'
  <2>1. \A s : SourceTrue(q, s)' <=> SourceTrue(q, s)
    BY <1>1 DEF SourceTrue
  <2>2. \A s : FileTrue(q, s) => FileTrue(q, s)'
    BY <1>1, <1>2 DEF FileTrue, OwnFile
  <2> QED
    BY <1>1, <1>3, <2>1, <2>2 DEF KeepOK
<1>8. DiskTrue(q)'
  BY <1>1, <1>2, <1>3 DEF DiskTrue
<1> QED
  BY <1>4, <1>5, <1>6, <1>7, <1>8

\* The directory stays within its limit when what p owed it still owes.
LEMMA StaysBounded ==
  ASSUME TraceInv, NEW p \in TraceShells, StepOf(p),
         \A f \in dir' : f.owner = p /\ (f \in dir => Owed(f)) => Owed(f)'
  PROVE  DirBounded'
<1>0. TracesOK /\ clock \in Nat /\ clock' \in Nat /\ clock' >= clock
  BY DEF TraceInv, TracesOK, StepOf
<1>1. PICK t \in 0..clock : Bounded(t)
  BY DEF TraceInv, DirBounded
<1>2. Cardinality(Before(t)') <= Cardinality(Before(t)) /\ Cardinality(Before(t)) \in Nat /\ Cardinality(Before(t)') \in Nat
  BY <1>0, PastShrinks
<1>3. Cardinality(Before(t)') <= TraceCap
  BY <1>1, <1>2, TraceAssumption DEF Bounded
<1>4. ASSUME NEW f \in dir', f.at > t
      PROVE  Owed(f)'
  <2>1. CASE f.owner = p
    BY <1>1, <1>4, <2>1 DEF Bounded
  <2>2. CASE f.owner # p
    <3>1. f \in dir /\ Owed(f)
      BY <1>1, <1>4, <2>2 DEF Bounded, StepOf
    <3>2. tshells'[f.owner] = tshells[f.owner]
      BY <2>2, <3>1 DEF StepOf, Owed
    <3> QED
      BY <3>1, <3>2 DEF Owed
  <2> QED
    BY <2>1, <2>2
<1>5. t \in 0..clock'
  BY <1>0
<1> QED
  BY <1>3, <1>4, <1>5 DEF DirBounded, Bounded

\* A prune that ends has left no more than the limit of what it saw, its own files
\* among it.  If all of p's files are older than the moment up to which the
\* directory was known to be within the limit, that moment still serves, and
\* otherwise the moment of p's scan does.
LEMMA PruneEnds ==
  ASSUME TraceInv, NEW p \in TraceShells, StepOf(p), dir' \subseteq dir, NEW u \in 0..clock,
         Cardinality(Before(u)') <= TraceCap, \A f \in dir : OwnFile(p, f) => f.at <= u
  PROVE  DirBounded'
<1>0. TracesOK /\ clock \in Nat /\ clock' \in Nat /\ clock' >= clock /\ dir \subseteq TraceFiles
  BY DEF TraceInv, TracesOK, StepOf
<1>1. PICK t \in 0..clock : Bounded(t)
  BY DEF TraceInv, DirBounded
<1>2. Cardinality(Before(t)') <= Cardinality(Before(t)) /\ Cardinality(Before(t)) \in Nat /\ Cardinality(Before(t)') \in Nat
  BY <1>0, PastShrinks
<1>3. Cardinality(Before(t)') <= TraceCap
  BY <1>1, <1>2, TraceAssumption DEF Bounded
<1>4. ASSUME NEW f \in dir', f.at > t, ~OwnFile(p, f)
      PROVE  Owed(f)'
  <2>1. f \in dir /\ Owed(f)
    BY <1>1, <1>4 DEF Bounded
  <2>2. f.owner # p
    BY <1>4, <2>1 DEF Owed, OwnFile
  <2>3. tshells'[f.owner] = tshells[f.owner]
    BY <2>1, <2>2 DEF StepOf, Owed
  <2> QED
    BY <2>1, <2>3 DEF Owed
<1>5. \A f \in dir : f.at \in Nat
  BY <1>0 DEF TraceFiles
<1>6. CASE \A f \in dir' : OwnFile(p, f) => f.at <= t
  <2>1. \A f \in dir' : f.at > t => Owed(f)'
    BY <1>4, <1>5, <1>6
  <2>2. t \in 0..clock'
    BY <1>0
  <2> QED
    BY <1>3, <2>1, <2>2 DEF DirBounded, Bounded
<1>7. CASE \E f \in dir' : OwnFile(p, f) /\ ~(f.at <= t)
  <2>1. t < u
    BY <1>0, <1>5, <1>7
  <2>2. \A f \in dir' : f.at > u => Owed(f)'
    BY <1>0, <1>4, <1>5, <2>1
  <2>3. u \in 0..clock'
    BY <1>0
  <2> QED
    BY <2>2, <2>3 DEF DirBounded, Bounded
<1> QED
  BY <1>6, <1>7

\* Every file still has its name for itself and was written behind its command.
LEMMA FilesKept ==
  ASSUME TraceInv, NEW p \in TraceShells, StepOf(p),
         \A f \in dir' : f.owner = p => f.at <= clock' /\ Written(f)',
         \A f \in dir' \ dir, g \in dir' : f.owner = g.owner /\ f.cmd = g.cmd /\ f.s = g.s => f = g
  PROVE  DirFilesOK'
<1>0. DirFilesOK /\ clock \in Nat /\ clock' \in Nat /\ clock' >= clock /\ dir \subseteq TraceFiles
  BY DEF TraceInv, TracesOK, StepOf
<1>1. ASSUME NEW f \in dir', f.owner # p
      PROVE  f.at <= clock' /\ Written(f)'
  <2>1. f \in dir
    BY <1>1 DEF StepOf
  <2>2. f.at <= clock /\ Written(f) /\ f.at \in Nat /\ f.owner \in TraceShells \cup {"old"}
    BY <1>0, <2>1 DEF DirFilesOK, TraceFiles
  <2>3. f.owner # "old" => tshells'[f.owner] = tshells[f.owner]
    BY <1>1, <2>2 DEF StepOf
  <2> QED
    BY <1>0, <2>2, <2>3 DEF Written
<1>2. ASSUME NEW f \in dir', NEW g \in dir', f.owner = g.owner /\ f.cmd = g.cmd /\ f.s = g.s
      PROVE  f = g
  <2>1. CASE f \in dir /\ g \in dir
    BY <1>0, <1>2, <2>1 DEF DirFilesOK
  <2>2. CASE f \notin dir
    BY <1>2, <2>2
  <2>3. CASE g \notin dir
    BY <1>2, <2>3
  <2> QED
    BY <2>1, <2>2, <2>3
<1> QED
  BY <1>1, <1>2 DEF DirFilesOK

\* The parts, put together.
LEMMA StepKeeps ==
  ASSUME TraceInv, NEW p \in TraceShells, StepOf(p), DirFilesOK', DirBounded',
         PruneOK(p)', RefsOK(p)', RunOK(p)', KeepOK(p)', DiskTrue(p)'
  PROVE  TraceInv'
<1>1. \A q \in TraceShells \ {p} : PruneOK(q)' /\ RefsOK(q)' /\ RunOK(q)' /\ KeepOK(q)' /\ DiskTrue(q)'
  BY OthersKept
<1> QED
  BY <1>1 DEF TraceInv, StepOf

\* Nothing is written for a command before it is over: a command starts.
LEMMA CreateKeeps ==
  ASSUME TraceInv, NEW p \in TraceShells, create_trace_spool(p)
  PROVE  TraceInv'
<1>0. TracesOK /\ DirFilesOK /\ RefsOK(p) /\ DiskTrue(p) /\ tshells[p].st = "idle" /\ tshells[p] \in TraceRecords
  BY DEF TraceInv, TracesOK, create_trace_spool
<1>1. /\ TracesOK'
      /\ tshells'[p].st = "run" /\ tshells'[p].cmd = tshells[p].cmd + 1
      /\ tshells'[p].tee = tshells'[p].spool
      /\ \A s \in Fds : tshells'[p].wrote[s] = 0 /\ tshells'[p].total[s] = 0 /\ tshells'[p].stored[s] = 0
      /\ tshells'[p].records = tshells[p].records /\ tshells'[p].disk_traces = tshells[p].disk_traces
      /\ tshells'[p].said = tshells[p].said
      /\ \A q \in TraceShells \ {p} : tshells'[q] = tshells[q]
  BY <1>0, CreateType
<1>2. dir' = dir /\ clock' = clock /\ prunes' = prunes
  BY DEF create_trace_spool
<1>3. tshells[p].cmd \in Nat /\ tshells[p].records \in Seq(Nat) /\ \A x \in tshells[p].said : x.cmd \in Nat
  BY <1>0 DEF TraceRecords
<1>4. \A s \in tshells'[p].spool : Spool(p, s)' \in spools'
  <2>1. PICK streams \in {{}, Fds}, enabled \in BOOLEAN :
          LET c == tshells[p].cmd + 1
              mine == IF enabled THEN streams ELSE {}
              new == {[owner |-> p, cmd |-> c, s |-> s] : s \in mine}
          IN /\ spools' = (IF new = {} THEN spools ELSE prune_stale_trace_spools(p)) \cup new
             /\ tshells' = [tshells EXCEPT ![p] =
                  [@ EXCEPT !.st = "run", !.cmd = c, !.enabled = enabled, !.spool = mine, !.tee = mine,
                            !.left = IF enabled THEN MaxRaw ELSE 0,
                            !.wrote = Zero, !.total = Zero, !.stored = Zero]]
    BY DEF create_trace_spool
  <2> DEFINE mine == IF enabled THEN streams ELSE {}
             new == {[owner |-> p, cmd |-> tshells[p].cmd + 1, s |-> s] : s \in mine}
  <2>2. tshells'[p].spool = mine
    BY <1>0, <2>1 DEF TraceRecords, TracesOK
  <2>3. new \subseteq spools'
    BY <2>1
  <2>4. \A s \in mine : Spool(p, s)' \in new
    BY <1>1 DEF Spool
  <2> QED
    BY <2>2, <2>3, <2>4
<1>5. \A f \in spools : f.owner \in TraceShells \ {p} /\ Alive(f.owner) => f \in spools'
  BY DEF create_trace_spool, prune_stale_trace_spools
<1>6. StepOf(p)
  <2>1. clock \in Nat
    BY <1>0 DEF TracesOK
  <2> QED
    BY <1>1, <1>2, <1>5, <2>1 DEF StepOf
<1>7. DirFilesOK'
  <2>1. \A f \in dir' : f.owner = p => f.at <= clock' /\ Written(f)'
    <3> SUFFICES ASSUME NEW f \in dir, f.owner = p
                 PROVE  f.at <= clock' /\ Written(f)'
      BY <1>2
    <3>1. f.at <= clock /\ Written(f) /\ f.cmd \in Nat /\ p # "old"
      BY <1>0, TraceAssumption DEF DirFilesOK, TracesOK, TraceFiles
    <3> QED
      BY <1>1, <1>2, <1>3, <3>1 DEF Written
  <2> QED
    BY <1>2, <1>6, <2>1, FilesKept
<1>8. DirBounded'
  <2>1. \A f \in dir : f.owner = p => ~Owed(f)
    BY <1>0 DEF Owed
  <2> QED
    BY <1>2, <1>6, <2>1, StaysBounded
<1>9. PruneOK(p)' /\ KeepOK(p)'
  BY <1>1 DEF PruneOK, KeepOK
<1>10. RefsOK(p)'
  BY <1>0, <1>1, <1>3 DEF RefsOK
<1>11. RunOK(p)'
  <2>1. tshells'[p].spool \subseteq Fds
    BY <1>1 DEF TracesOK, TraceRecords
  <2> QED
    BY <1>1, <1>4, <2>1 DEF RunOK
<1>12. DiskTrue(p)'
  BY <1>0, <1>1, <1>2 DEF DiskTrue
<1> QED
  BY <1>6, <1>7, <1>8, <1>9, <1>10, <1>11, <1>12, StepKeeps

\* A chunk is counted by the reader and, while it is teed, by the spool.
LEMMA WriteKeeps ==
  ASSUME TraceInv, NEW p \in TraceShells, NEW s \in Fds, write(p, s)
  PROVE  TraceInv'
<1> DEFINE me == tshells[p]
           n == Chunk[s]
           teed == s \in me.tee
           some == IF teed THEN reserve(me.left, n) ELSE 0
<1>0. TracesOK /\ DirFilesOK /\ RefsOK(p) /\ RunOK(p) /\ DiskTrue(p) /\ me.st = "run" /\ me \in TraceRecords
  BY DEF TraceInv, TracesOK, write
<1>1. PICK fails \in BOOLEAN :
        /\ fails => some > 0
        /\ tshells' = [tshells EXCEPT ![p] =
               [me EXCEPT !.wrote[s] = @ + n, !.left = @ - some, !.total[s] = IF teed THEN @ + n ELSE @,
                          !.stored[s] = IF fails THEN @ ELSE @ + some, !.tee = IF fails THEN @ \ {s} ELSE @]]
  BY DEF write
<1> DEFINE wrote == [me.wrote EXCEPT ![s] = @ + n]
           total == [me.total EXCEPT ![s] = IF teed THEN @ + n ELSE @]
           stored == [me.stored EXCEPT ![s] = IF fails THEN @ ELSE @ + some]
           tee == IF fails THEN me.tee \ {s} ELSE me.tee
           you == [me EXCEPT !.wrote = wrote, !.left = me.left - some, !.total = total, !.stored = stored, !.tee = tee]
<1>2. n \in Nat /\ me.left \in Nat /\ me.wrote \in [Fds -> Nat] /\ me.total \in [Fds -> Nat]
      /\ me.stored \in [Fds -> Nat] /\ me.tee \in SUBSET Fds /\ me.cmd \in Nat
  BY <1>0, TraceAssumption DEF TraceRecords, Fds
<1>3. some \in Nat /\ some <= me.left /\ some <= n
  BY <1>2 DEF reserve, Least
<1>4. wrote \in [Fds -> Nat] /\ total \in [Fds -> Nat] /\ stored \in [Fds -> Nat] /\ tee \in SUBSET Fds /\ me.left - some \in Nat
  BY <1>2, <1>3
<1>5. tshells' = [tshells EXCEPT ![p] = you]
  BY <1>1
<1>6. \A r \in Fds : /\ wrote[r] = IF r = s THEN me.wrote[r] + n ELSE me.wrote[r]
                     /\ total[r] = IF r = s /\ teed THEN me.total[r] + n ELSE me.total[r]
                     /\ stored[r] = IF r = s /\ ~fails THEN me.stored[r] + some ELSE me.stored[r]
  BY <1>2
<1>7. \A r \in Fds : r \in tee <=> r \in me.tee /\ ~(fails /\ r = s)
  BY <1>2
<1> HIDE DEF wrote, total, stored, tee
<1>8. you \in TraceRecords
  BY <1>0, <1>4 DEF TraceRecords
<1>9. tshells'[p] = you /\ \A q \in TraceShells \ {p} : tshells'[q] = tshells[q]
  BY <1>0, <1>5 DEF TracesOK
<1>10. dir' = dir /\ clock' = clock /\ prunes' = prunes /\ spools' = spools
  BY DEF write
<1>11. tshells' \in [TraceShells -> TraceRecords]
  BY <1>0, <1>5, <1>8 DEF TracesOK
<1>12. StepOf(p)
  <2>1. TracesOK'
    BY <1>0, <1>10, <1>11 DEF TracesOK
  <2>2. clock \in Nat
    BY <1>0 DEF TracesOK
  <2> QED
    BY <1>9, <1>10, <2>1, <2>2 DEF StepOf
<1>13. /\ tshells'[p].st = "run" /\ tshells'[p].cmd = me.cmd /\ tshells'[p].records = me.records
       /\ tshells'[p].disk_traces = me.disk_traces /\ tshells'[p].said = me.said
       /\ tshells'[p].spool = me.spool /\ tshells'[p].enabled = me.enabled
       /\ tshells'[p].wrote = wrote /\ tshells'[p].total = total /\ tshells'[p].stored = stored
       /\ tshells'[p].tee = tee
  BY <1>0, <1>9 DEF TraceRecords
<1> HIDE DEF you
<1>14. DirFilesOK'
  <2>1. \A f \in dir' : f.owner = p => f.at <= clock' /\ Written(f)'
    BY <1>0, <1>10, <1>13 DEF DirFilesOK, Written
  <2> QED
    BY <1>10, <1>12, <2>1, FilesKept
<1>15. DirBounded'
  <2>1. \A f \in dir : f.owner = p => ~Owed(f)
    BY <1>0 DEF Owed
  <2> QED
    BY <1>10, <1>12, <2>1, StaysBounded
<1>16. PruneOK(p)' /\ KeepOK(p)' /\ RefsOK(p)' /\ DiskTrue(p)'
  BY <1>0, <1>10, <1>13 DEF PruneOK, KeepOK, RefsOK, DiskTrue
<1>17. RunOK(p)'
  <2>1. me.spool \in SUBSET Fds
    BY <1>0 DEF TraceRecords
  <2>2. ASSUME NEW r \in me.spool
        PROVE  /\ stored[r] <= total[r]
               /\ IF r \in tee THEN total[r] = wrote[r] ELSE stored[r] < total[r]
    <3>1. r \in Fds /\ me.stored[r] <= me.total[r]
          /\ IF r \in me.tee THEN me.total[r] = me.wrote[r] ELSE me.stored[r] < me.total[r]
      BY <1>0, <2>1, <2>2 DEF RunOK
    <3>2. CASE r # s
      BY <1>2, <1>6, <1>7, <3>1, <3>2
    <3>3. CASE r = s
      <4>1. CASE teed /\ fails
        BY <1>1, <1>2, <1>3, <1>6, <1>7, <3>1, <3>3, <4>1
      <4>2. CASE teed /\ ~fails
        BY <1>2, <1>3, <1>6, <1>7, <3>1, <3>3, <4>2
      <4>3. CASE ~teed
        BY <1>1, <1>2, <1>6, <1>7, <3>1, <3>3, <4>3
      <4> QED
        BY <4>1, <4>2, <4>3
    <3> QED
      BY <3>2, <3>3
  <2>3. tee \subseteq me.spool
    BY <1>0, <1>2, <1>4, <1>7 DEF RunOK
  <2>4. \A r \in me.spool : me.enabled => Spool(p, r)' \in spools'
    BY <1>0, <1>10, <1>13 DEF RunOK, Spool
  <2> QED
    BY <1>13, <2>2, <2>3, <2>4 DEF RunOK
<1> QED
  BY <1>12, <1>14, <1>15, <1>16, <1>17, StepKeeps

\* The readers end: a source that calls itself complete has all that was written.
LEMMA FinishKeeps ==
  ASSUME TraceInv, NEW p \in TraceShells, finish(p)
  PROVE  TraceInv'
<1> DEFINE old == tshells[p]
<1>t. TracesOK /\ DirFilesOK /\ RefsOK(p) /\ RunOK(p) /\ DiskTrue(p) /\ old \in TraceRecords
  BY DEF TraceInv, TracesOK
<1>0. TracesOK /\ DirFilesOK /\ RefsOK(p) /\ RunOK(p) /\ DiskTrue(p) /\ old.st = "run" /\ old \in TraceRecords
  <2>1. old.st = "run"
    BY SMTT(30) DEF finish
  <2> QED
    BY <1>t, <2>1
<1>1. PICK mark \in SUBSET Fds, fails \in {{}} \cup {{s} : s \in IF tshells[p].enabled THEN tshells[p].spool ELSE {}} :
        LET me == [tshells[p] EXCEPT !.spool = @ \ fails, !.mark = mark]
            wrote == [s \in Fds |-> IF s \in mark THEN Unseen ELSE me.wrote[s]]
        IN /\ spools' = spools \ {Spool(p, s) : s \in fails}
           /\ \E storage \in {me.enabled, FALSE} :
                tshells' = [tshells EXCEPT ![p] =
                  [Done(me) EXCEPT !.st = IF storage THEN "out" ELSE "off", !.room = MaxRaw, !.spool = me.spool,
                                   !.source = [s \in Fds |-> IF storage THEN Ended(me, s) ELSE Nothing],
                                   !.said = @ \cup {[cmd |-> me.cmd, wrote |-> wrote]}]]
  BY DEF finish
<1> DEFINE me == [tshells[p] EXCEPT !.spool = @ \ fails, !.mark = mark]
           wrote == [s \in Fds |-> IF s \in mark THEN Unseen ELSE me.wrote[s]]
<1>2. me \in TraceRecords /\ me.cmd = old.cmd /\ me.records = old.records /\ me.disk_traces = old.disk_traces
      /\ me.said = old.said /\ me.spool = old.spool \ fails /\ me.mark = mark /\ me.wrote = old.wrote
      /\ me.total = old.total /\ me.stored = old.stored /\ me.enabled = old.enabled
  <2>1. old.spool \ fails \in SUBSET Fds
    BY <1>0 DEF TraceRecords
  <2> QED
    BY <1>0, <2>1 DEF TraceRecords
<1>3. /\ spools' = spools \ {Spool(p, s) : s \in fails}
      /\ \E storage \in {me.enabled, FALSE} :
                tshells' = [tshells EXCEPT ![p] =
                  [Done(me) EXCEPT !.st = IF storage THEN "out" ELSE "off", !.room = MaxRaw, !.spool = me.spool,
                                   !.source = [s \in Fds |-> IF storage THEN Ended(me, s) ELSE Nothing],
                                   !.said = @ \cup {[cmd |-> me.cmd, wrote |-> wrote]}]]
  BY <1>1
<1> HIDE DEF me
<1>a. old.wrote \in [Fds -> Nat] /\ old.total \in [Fds -> Nat] /\ old.stored \in [Fds -> Nat] /\ old.cmd \in Nat
      /\ old.enabled \in BOOLEAN /\ me.spool \in SUBSET Fds
  BY <1>0, <1>2 DEF TraceRecords
<1>b. wrote \in [Fds -> Int] /\ \A s \in Fds : s \notin mark => wrote[s] = old.wrote[s]
  BY <1>2, <1>a DEF Unseen
<1>c. \A s \in Fds : Ended(me, s) \in Sources /\ (Ended(me, s).complete => wrote[s] = Ended(me, s).total)
  <2> SUFFICES ASSUME NEW s \in Fds
               PROVE  Ended(me, s) \in Sources /\ (Ended(me, s).complete => wrote[s] = Ended(me, s).total)
    OBVIOUS
  <2>1. CASE s \in me.spool
    <3>1. Ended(me, s) = [have |-> old.stored[s], total |-> old.total[s],
                          complete |-> old.enabled /\ s \notin mark /\ old.total[s] = old.stored[s]]
      BY <1>2, <2>1 DEF Ended, Source
    <3>2. old.total[s] = old.stored[s] => old.total[s] = old.wrote[s]
      BY <1>0, <1>2, <1>a, <2>1 DEF RunOK
    <3>3. PICK c \in BOOLEAN : c = (old.enabled /\ s \notin mark /\ old.total[s] = old.stored[s])
      OBVIOUS
    <3>4. Ended(me, s) = [have |-> old.stored[s], total |-> old.total[s], complete |-> c]
      BY <3>1, <3>3
    <3>5. Ended(me, s) \in Sources /\ Ended(me, s).complete = c /\ Ended(me, s).total = old.total[s]
      BY <1>a, <3>4 DEF Sources
    <3>6. c => wrote[s] = old.total[s]
      BY <1>b, <3>2, <3>3
    <3> QED
      BY <3>5, <3>6
  <2>2. CASE s \notin me.spool
    <3>1. Ended(me, s) = [have |-> Least(old.wrote[s], Kept), total |-> Least(old.wrote[s], Kept),
                          complete |-> s \notin mark /\ old.wrote[s] <= Kept]
      BY <1>2, <2>2 DEF Ended, Source
    <3>2. Least(old.wrote[s], Kept) \in Nat /\ (old.wrote[s] <= Kept => Least(old.wrote[s], Kept) = old.wrote[s])
      BY <1>a, TraceAssumption DEF Least
    <3>3. PICK c \in BOOLEAN : c = (s \notin mark /\ old.wrote[s] <= Kept)
      OBVIOUS
    <3>4. Ended(me, s) = [have |-> Least(old.wrote[s], Kept), total |-> Least(old.wrote[s], Kept), complete |-> c]
      BY <3>1, <3>3
    <3>5. Ended(me, s) \in Sources /\ Ended(me, s).complete = c /\ Ended(me, s).total = Least(old.wrote[s], Kept)
      BY <3>2, <3>4 DEF Sources
    <3>6. c => wrote[s] = Least(old.wrote[s], Kept)
      BY <1>b, <3>2, <3>3
    <3> QED
      BY <3>5, <3>6
  <2> QED
    BY <2>1, <2>2
<1>4. PICK storage \in {me.enabled, FALSE} :
        tshells' = [tshells EXCEPT ![p] =
                  [Done(me) EXCEPT !.st = IF storage THEN "out" ELSE "off", !.room = MaxRaw, !.spool = me.spool,
                                   !.source = [s \in Fds |-> IF storage THEN Ended(me, s) ELSE Nothing],
                                   !.said = @ \cup {[cmd |-> me.cmd, wrote |-> wrote]}]]
  BY <1>3
<1> DEFINE st == IF storage THEN "out" ELSE "off"
           source == [s \in Fds |-> IF storage THEN Ended(me, s) ELSE Nothing]
           new == [cmd |-> me.cmd, wrote |-> wrote]
           said == Done(me).said \cup {new}
           you == [Done(me) EXCEPT !.st = st, !.room = MaxRaw, !.spool = me.spool, !.source = source, !.said = said]
<1>5. tshells' = [tshells EXCEPT ![p] = you]
  BY <1>4
<1>6. Done(me) \in TraceRecords /\ Done(me).cmd = old.cmd /\ Done(me).records = old.records
      /\ Done(me).disk_traces = old.disk_traces /\ Done(me).said \subseteq old.said
  BY <1>2, DoneFacts
<1>7. st \in {"out", "off"} /\ source \in [Fds -> Sources] /\ (storage => \A s \in Fds : source[s] = Ended(me, s))
  <2>1. Nothing \in Sources
    BY DEF Nothing, Source, Sources
  <2> QED
    BY <1>c, <2>1
<1>8. new \in [cmd : Nat, wrote : [Fds -> Int]] /\ new.cmd = old.cmd /\ new.wrote = wrote
  BY <1>2, <1>a, <1>b
<1>9. said \in SUBSET [cmd : Nat, wrote : [Fds -> Int]]
  BY <1>6, <1>8 DEF TraceRecords
<1>s. st = "out" => storage
  OBVIOUS
<1> HIDE DEF wrote, new, st, source, said
<1>10. you \in TraceRecords
  BY <1>6, <1>7, <1>9, <1>a, TraceAssumption DEF TraceRecords, TraceStates
<1>11. tshells'[p] = you /\ \A q \in TraceShells \ {p} : tshells'[q] = tshells[q]
  BY <1>0, <1>5 DEF TracesOK
<1>12. tshells' \in [TraceShells -> TraceRecords]
  BY <1>0, <1>5, <1>10 DEF TracesOK
<1>13. dir' = dir /\ clock' = clock /\ prunes' = prunes
  BY DEF finish
<1>14. StepOf(p)
  <2>1. TracesOK'
    BY <1>0, <1>12, <1>13 DEF TracesOK
  <2>2. clock \in Nat
    BY <1>0 DEF TracesOK
  <2>3. \A f \in spools : f.owner \in TraceShells \ {p} => f \in spools'
    BY <1>3 DEF Spool
  <2> QED
    BY <1>11, <1>13, <2>1, <2>2, <2>3 DEF StepOf
<1>15. tshells'[p].st = st /\ tshells'[p].cmd = old.cmd /\ tshells'[p].records = old.records
       /\ tshells'[p].disk_traces = old.disk_traces /\ tshells'[p].said = said /\ tshells'[p].source = source
  BY <1>6, <1>11 DEF TraceRecords
<1> HIDE DEF you
<1>16. \A x \in said : x = new \/ x \in old.said
  BY <1>6 DEF said
<1>17. \A x \in old.said : x.cmd < old.cmd /\ x.cmd \in Nat
  BY <1>0 DEF RefsOK, TraceRecords
<1>18. DirFilesOK'
  <2>1. \A f \in dir' : f.owner = p => f.at <= clock' /\ Written(f)'
    <3> SUFFICES ASSUME NEW f \in dir, f.owner = p
                 PROVE  f.at <= clock' /\ Written(f)'
      BY <1>13
    <3>1. f.at <= clock /\ Written(f) /\ p # "old"
      BY <1>0, TraceAssumption DEF DirFilesOK
    <3> QED
      BY <1>0, <1>13, <1>15, <3>1 DEF Written
  <2> QED
    BY <1>13, <1>14, <2>1, FilesKept
<1>19. DirBounded'
  <2>1. \A f \in dir : f.owner = p => ~Owed(f)
    BY <1>0 DEF Owed
  <2> QED
    BY <1>13, <1>14, <2>1, StaysBounded
<1>20. PruneOK(p)' /\ RunOK(p)'
  BY <1>7, <1>15 DEF PruneOK, RunOK
<1>21. RefsOK(p)'
  <2>1. \A x \in said : x.cmd <= old.cmd
    BY <1>8, <1>16, <1>17, <1>a
  <2>2. \A k \in DOMAIN old.disk_traces : old.disk_traces[k].cmd = old.records[k] /\ old.records[k] <= old.cmd /\ old.records[k] < old.cmd
    BY <1>0 DEF RefsOK
  <2>3. Len(old.records) = Len(old.disk_traces)
    BY <1>0 DEF RefsOK
  <2> QED
    BY <1>7, <1>15, <2>1, <2>2, <2>3 DEF RefsOK
<1>22. KeepOK(p)'
  <2>1. CASE st = "off"
    BY <1>15, <2>1 DEF KeepOK
  <2>2. CASE st = "out"
    <3>1. \A s \in Fds : source[s].complete => wrote[s] = source[s].total
      BY <1>c, <1>7, <1>s, <2>2
    <3>2. \A x \in said : x.cmd = old.cmd => x = new
      BY <1>16, <1>17, <1>a
    <3>3. \A s \in Fds : SourceTrue(p, s)'
      BY <1>8, <1>15, <3>1, <3>2 DEF SourceTrue
    <3> QED
      BY <1>15, <2>2, <3>3 DEF KeepOK, Fds
  <2> QED
    BY <1>7, <2>1, <2>2
<1>23. DiskTrue(p)'
  <2> SUFFICES ASSUME NEW k \in DOMAIN old.disk_traces, NEW x \in said, NEW f \in dir,
                      f.owner = p, f.cmd = old.disk_traces[k].cmd, x.cmd = f.cmd,
                      old.disk_traces[k].status[f.s] = "complete"
               PROVE  f.bytes = x.wrote[f.s]
    BY <1>13, <1>15 DEF DiskTrue
  <2>1. old.disk_traces[k].cmd < old.cmd
    BY <1>0 DEF RefsOK
  <2>2. x \in old.said
    BY <1>8, <1>16, <1>a, <2>1
  <2> QED
    BY <1>0, <2>2 DEF DiskTrue
<1> QED
  BY <1>14, <1>18, <1>19, <1>20, <1>21, <1>22, <1>23, StepKeeps

\* A stream becomes a file: there was none of this name, and if it is called
\* complete it holds what the source had in total.
LEMMA PersistedKeeps ==
  ASSUME TraceInv, NEW p \in TraceShells, prunes' = prunes,
         NEW s \in Fds, NEW then \in TraceStates, Persisted(p, s, then),
         \/ s = "out" /\ then = "err" /\ tshells[p].st = "out"
         \/ s = "err" /\ then = "scan" /\ tshells[p].st = "err"
  PROVE  TraceInv'
<1> DEFINE me == tshells[p]
           n == Least(me.source[s].have, me.room)
           new == File(p, me.cmd, s, n, clock + 1)
           status == [me.status EXCEPT ![s] = Status(me, s)]
           source == [me.source EXCEPT ![s] = Nothing]
           you == [me EXCEPT !.st = then, !.room = me.room - n, !.status = status, !.source = source,
                             !.spool = me.spool \ {s}]
<1>0. TracesOK /\ DirFilesOK /\ RefsOK(p) /\ KeepOK(p) /\ DiskTrue(p) /\ me \in TraceRecords
      /\ me.st \in {"out", "err"} /\ p # "old"
  BY TraceAssumption DEF TraceInv, TracesOK
<1>1. dir' = dir \cup {new} /\ clock' = clock + 1 /\ spools' = spools \ {Spool(p, s)} /\ tshells' = [tshells EXCEPT ![p] = you]
  BY DEF Persisted
<1>2. me.room \in Nat /\ me.source \in [Fds -> Sources] /\ me.status \in [Fds -> Marks] /\ me.spool \in SUBSET Fds
      /\ me.cmd \in Nat /\ me.source[s] \in Sources
  BY <1>0 DEF TraceRecords
<1>3. me.source[s].have \in Nat /\ me.source[s].total \in Nat /\ me.source[s].complete \in BOOLEAN
  BY <1>2 DEF Sources
<1>4. n \in Nat /\ n <= me.room /\ me.room - n \in Nat
  BY <1>2, <1>3 DEF Least
<1>5. Status(me, s) \in Marks /\ (Status(me, s) = "complete" => me.source[s].complete /\ n = me.source[s].total)
  BY DEF Status, Marks
<1>6. status \in [Fds -> Marks] /\ source \in [Fds -> Sources] /\ status[s] = Status(me, s)
      /\ \A r \in Fds \ {s} : status[r] = me.status[r] /\ source[r] = me.source[r]
  <2>1. Nothing \in Sources
    BY DEF Nothing, Source, Sources
  <2> QED
    BY <1>2, <1>5, <2>1
<1>c. clock \in Nat
  BY <1>0 DEF TracesOK
<1>7. new \in TraceFiles /\ new.owner = p /\ new.cmd = me.cmd /\ new.s = s /\ new.bytes = n /\ new.at = clock + 1
  BY <1>2, <1>4, <1>c DEF File, TraceFiles
<1> HIDE DEF n, new, status, source
<1>8. you \in TraceRecords
  BY <1>0, <1>2, <1>4, <1>6 DEF TraceRecords
<1>9. tshells'[p] = you /\ \A q \in TraceShells \ {p} : tshells'[q] = tshells[q]
  BY <1>0, <1>1 DEF TracesOK
<1>10. tshells' \in [TraceShells -> TraceRecords]
  BY <1>0, <1>1, <1>8 DEF TracesOK
<1>11. TracesOK'
  <2>1. IsFiniteSet(dir')
    BY <1>0, <1>1, FS_AddElement DEF TracesOK
  <2> QED
    BY <1>0, <1>1, <1>7, <1>10, <1>c, <2>1 DEF TracesOK
<1>12. StepOf(p)
  <2>1. \A f \in spools : f.owner \in TraceShells \ {p} => f \in spools'
    BY <1>1 DEF Spool
  <2> QED
    BY <1>1, <1>7, <1>9, <1>11, <1>c, <2>1 DEF StepOf
<1>13. tshells'[p].st = then /\ tshells'[p].cmd = me.cmd /\ tshells'[p].records = me.records
       /\ tshells'[p].disk_traces = me.disk_traces /\ tshells'[p].said = me.said
       /\ tshells'[p].source = source /\ tshells'[p].status = status
  BY <1>0, <1>9 DEF TraceRecords
<1> HIDE DEF you
<1>14. ASSUME NEW f \in dir, f.owner = p
       PROVE  f.cmd \in Nat /\ f.s \in Fds /\ (f.cmd < me.cmd \/ (f.cmd = me.cmd /\ me.st = "err" /\ f.s = "out"))
  <2>1. Written(f) /\ f \in TraceFiles
    BY <1>0, <1>14 DEF DirFilesOK, TracesOK
  <2> QED
    BY <1>0, <1>14, <2>1 DEF Written, TraceFiles
<1>15. \A f \in dir : f.owner = p /\ f.cmd = me.cmd => f.s # s
  BY <1>2, <1>14
<1>16. DirFilesOK'
  <2>1. \A f \in dir' : f.owner = p => f.at <= clock' /\ Written(f)'
    <3> SUFFICES ASSUME NEW f \in dir', f.owner = p
                 PROVE  f.at <= clock' /\ Written(f)'
      OBVIOUS
    <3>1. CASE f = new
      BY <1>1, <1>7, <1>13, <1>c, <3>1 DEF Written
    <3>2. CASE f \in dir
      <4>1. f.at <= clock /\ f.at \in Nat
        BY <1>0, <3>2 DEF DirFilesOK, TracesOK, TraceFiles
      <4>2. f.cmd < me.cmd \/ (f.cmd = me.cmd /\ me.st = "err" /\ f.s = "out")
        BY <1>14, <3>2
      <4> QED
        BY <1>1, <1>13, <1>c, <4>1, <4>2 DEF Written
    <3> QED
      BY <1>1, <3>1, <3>2
  <2>2. \A f \in dir' \ dir, g \in dir' : f.owner = g.owner /\ f.cmd = g.cmd /\ f.s = g.s => f = g
    BY <1>1, <1>7, <1>15
  <2> QED
    BY <1>12, <2>1, <2>2, FilesKept
<1>17. DirBounded'
  <2>1. \A f \in dir' : f.owner = p /\ (f \in dir => Owed(f)) => Owed(f)'
    <3>1. \A f \in dir : Owed(f) /\ f.owner = p => Owed(f)'
      BY <1>13 DEF Owed
    <3>2. \A f \in dir' : f = new => Owed(f)'
      BY <1>7, <1>13 DEF Owed
    <3> QED
      BY <1>1, <3>1, <3>2
  <2> QED
    BY <1>12, <2>1, StaysBounded
<1>18. PruneOK(p)' /\ RunOK(p)' /\ RefsOK(p)'
  BY <1>0, <1>13 DEF PruneOK, RunOK, RefsOK
<1>19. FileTrue(p, s)'
  <2> SUFFICES ASSUME status[s] = "complete", NEW x \in me.said, NEW f \in dir',
                      x.cmd = me.cmd, f.owner = p, f.cmd = me.cmd, f.s = s
               PROVE  f.bytes = x.wrote[s]
    BY <1>13 DEF FileTrue, OwnFile
  <2>1. f = new
    BY <1>1, <1>15
  <2>2. SourceTrue(p, s)
    BY <1>0 DEF KeepOK, Fds
  <2> QED
    BY <1>5, <1>6, <1>7, <2>1, <2>2 DEF SourceTrue
<1>20. KeepOK(p)'
  <2>1. CASE s = "out"
    <3>1. SourceTrue(p, "err")'
      <4>1. SourceTrue(p, "err") /\ source["err"] = me.source["err"]
        BY <1>0, <1>6, <2>1 DEF KeepOK, Fds
      <4> QED
        BY <1>13, <4>1 DEF SourceTrue
    <3> QED
      BY <1>13, <1>19, <2>1, <3>1 DEF KeepOK
  <2>2. CASE s = "err"
    <3>1. FileTrue(p, "out")'
      <4>1. FileTrue(p, "out") /\ status["out"] = me.status["out"]
        BY <1>0, <1>6, <2>2 DEF KeepOK, Fds
      <4>2. \A f \in dir' : f.s = "out" => f \in dir
        BY <1>1, <1>7, <2>2
      <4> QED
        BY <1>13, <4>1, <4>2 DEF FileTrue, OwnFile
    <3> QED
      BY <1>13, <1>19, <2>2, <3>1 DEF KeepOK
  <2> QED
    BY <2>1, <2>2
<1>21. DiskTrue(p)'
  <2> SUFFICES ASSUME NEW k \in DOMAIN me.disk_traces, NEW x \in me.said, NEW f \in dir',
                      f.owner = p, f.cmd = me.disk_traces[k].cmd, x.cmd = f.cmd,
                      me.disk_traces[k].status[f.s] = "complete"
               PROVE  f.bytes = x.wrote[f.s]
    BY <1>13 DEF DiskTrue
  <2>1. me.disk_traces[k].cmd < me.cmd
    BY <1>0 DEF RefsOK
  <2>2. f \in dir
    BY <1>1, <1>2, <1>7, <2>1
  <2> QED
    BY <1>0, <2>2 DEF DiskTrue
<1> QED
  BY <1>12, <1>16, <1>17, <1>18, <1>20, <1>21, StepKeeps

\* A trace that is given up leaves no file and no reference.
LEMMA GiveUpKeeps ==
  ASSUME TraceInv, NEW p \in TraceShells, prunes' = prunes, GiveUp(p),
         tshells[p].st \in {"out", "err", "check"}
  PROVE  TraceInv'
<1> DEFINE me == tshells[p]
<1>0. TracesOK /\ DirFilesOK /\ RefsOK(p) /\ DiskTrue(p) /\ me \in TraceRecords /\ p # "old"
  BY TraceAssumption DEF TraceInv, TracesOK
<1>1. dir' = {f \in dir : ~OwnFile(p, f)} /\ clock' = clock /\ spools' = {f \in spools : f.owner # p}
      /\ tshells' = [tshells EXCEPT ![p] = Done(me)]
  BY DEF GiveUp
<1>2. Done(me) \in TraceRecords /\ Done(me).st = "idle" /\ Done(me).cmd = me.cmd /\ Done(me).records = me.records
         /\ Done(me).disk_traces = me.disk_traces /\ Done(me).said \subseteq me.said
  BY <1>0, DoneFacts
<1>3. tshells'[p] = Done(me) /\ \A q \in TraceShells \ {p} : tshells'[q] = tshells[q]
  BY <1>0, <1>1 DEF TracesOK
<1>4. tshells' \in [TraceShells -> TraceRecords]
  BY <1>0, <1>1, <1>2 DEF TracesOK
<1>5. TracesOK'
  <2>1. dir' \in SUBSET dir
    BY <1>1
  <2>2. IsFiniteSet(dir')
    BY <1>0, <2>1, FS_Subset DEF TracesOK
  <2> QED
    BY <1>0, <1>1, <1>4, <2>1, <2>2 DEF TracesOK
<1>6. StepOf(p)
  <2>1. clock \in Nat
    BY <1>0 DEF TracesOK
  <2> QED
    BY <1>1, <1>3, <1>5, <2>1 DEF StepOf
<1>7. DirFilesOK'
  <2>1. \A f \in dir' : f.owner = p => f.at <= clock' /\ Written(f)'
    <3> SUFFICES ASSUME NEW f \in dir, f.owner = p, f.cmd # me.cmd
                 PROVE  f.at <= clock' /\ Written(f)'
      BY <1>1 DEF OwnFile
    <3> QED
      BY <1>0, <1>1, <1>2, <1>3 DEF DirFilesOK, Written
  <2> QED
    BY <1>1, <1>6, <2>1, FilesKept
<1>8. DirBounded'
  <2>1. \A f \in dir' : f.owner = p => f \in dir /\ ~Owed(f)
    BY <1>1 DEF Owed, OwnFile
  <2> QED
    BY <1>6, <2>1, StaysBounded
<1>9. PruneOK(p)' /\ RunOK(p)' /\ KeepOK(p)'
  BY <1>2, <1>3 DEF PruneOK, RunOK, KeepOK
<1>10. RefsOK(p)' /\ DiskTrue(p)'
  BY <1>0, <1>1, <1>2, <1>3 DEF RefsOK, DiskTrue
<1> QED
  BY <1>6, <1>7, <1>8, <1>9, <1>10, StepKeeps

\* A command has two streams.
LEMMA FdsTwo == IsFiniteSet(Fds) /\ Cardinality(Fds) = 2
<1>1. IsFiniteSet({"out"}) /\ Cardinality({"out"}) = 1
  BY FS_Singleton
<1>2. Fds = {"out"} \cup {"err"} /\ "err" \notin {"out"}
  BY DEF Fds
<1> QED
  BY <1>1, <1>2, FS_AddElement

\* A step of a prune changes nothing else than the directory, the tally and where
\* the shell is.
LEMMA PruneStep ==
  ASSUME TraceInv, NEW p \in TraceShells, tshells[p].st \in {"scan", "prune"}, NEW st \in {"prune", "check"},
         NEW tally, tshells' = [tshells EXCEPT ![p].st = st], prunes' = [prunes EXCEPT ![p] = tally],
         dir' \in SUBSET dir, clock' = clock, spools' = spools
  PROVE  /\ StepOf(p) /\ DirFilesOK' /\ RefsOK(p)' /\ RunOK(p)' /\ KeepOK(p)' /\ DiskTrue(p)'
         /\ tshells'[p].st = st /\ tshells'[p].cmd = tshells[p].cmd /\ prunes'[p] = tally
<1> DEFINE me == tshells[p]
           you == [me EXCEPT !.st = st]
<1>0. TracesOK /\ DirFilesOK /\ RefsOK(p) /\ KeepOK(p) /\ DiskTrue(p) /\ me \in TraceRecords /\ p # "old"
  BY TraceAssumption DEF TraceInv, TracesOK
<1>1. you \in TraceRecords
  BY <1>0 DEF TraceRecords, TraceStates
<1>2. tshells' = [tshells EXCEPT ![p] = you]
  OBVIOUS
<1>3. tshells'[p] = you /\ \A q \in TraceShells \ {p} : tshells'[q] = tshells[q]
  BY <1>0, <1>2 DEF TracesOK
<1>4. prunes'[p] = tally /\ \A q \in TraceShells \ {p} : prunes'[q] = prunes[q]
  BY <1>0 DEF TracesOK
<1>5. TracesOK'
  <2>1. IsFiniteSet(dir')
    BY <1>0, FS_Subset DEF TracesOK
  <2>2. tshells' \in [TraceShells -> TraceRecords]
    BY <1>0, <1>1, <1>2 DEF TracesOK
  <2>3. prunes' = [q \in TraceShells |-> prunes'[q]]
    BY <1>0 DEF TracesOK
  <2> QED
    BY <1>0, <2>1, <2>2, <2>3 DEF TracesOK
<1>6. StepOf(p)
  <2>1. clock \in Nat
    BY <1>0 DEF TracesOK
  <2> QED
    BY <1>3, <1>4, <1>5, <2>1 DEF StepOf
<1>7. tshells'[p].st = st /\ tshells'[p].cmd = me.cmd /\ tshells'[p].records = me.records
       /\ tshells'[p].disk_traces = me.disk_traces /\ tshells'[p].said = me.said
       /\ tshells'[p].status = me.status
  BY <1>0, <1>3 DEF TraceRecords
<1> HIDE DEF you
<1>8. DirFilesOK'
  <2>1. \A f \in dir' : f.owner = p => f.at <= clock' /\ Written(f)'
    BY <1>0, <1>7 DEF DirFilesOK, Written
  <2> QED
    BY <1>6, <2>1, FilesKept
<1>9. RefsOK(p)' /\ RunOK(p)' /\ DiskTrue(p)'
  BY <1>0, <1>7 DEF RefsOK, RunOK, DiskTrue
<1>10. KeepOK(p)'
  <2>1. \A s : FileTrue(p, s) => FileTrue(p, s)'
    BY <1>7 DEF FileTrue, OwnFile
  <2>2. CASE me.st = "scan"
    BY <1>0, <1>7, <2>1, <2>2 DEF KeepOK
  <2>3. CASE me.st = "prune"
    BY <1>0, <1>7, <2>1, <2>3 DEF KeepOK
  <2> QED
    BY <2>2, <2>3
<1> QED
  BY <1>4, <1>6, <1>7, <1>8, <1>9, <1>10

\* The directory is read: all there is is older than the scan.
LEMMA ScanKeeps ==
  ASSUME TraceInv, NEW p \in TraceShells, scan(p)
  PROVE  TraceInv'
<1> DEFINE bytes == MapThenSumSet(LAMBDA f : f.bytes, dir)
           tally == Tally(clock, Cardinality(dir), bytes)
<1>0. TracesOK /\ DirFilesOK /\ tshells[p].st = "scan" /\ clock \in Nat /\ dir \subseteq TraceFiles /\ IsFiniteSet(dir)
  BY DEF TraceInv, TracesOK, scan
<1>1. dir' = dir /\ clock' = clock /\ spools' = spools
      /\ tshells' = [tshells EXCEPT ![p].st = IF TooMuch(tally) THEN "prune" ELSE "check"]
      /\ prunes' = [prunes EXCEPT ![p] = IF TooMuch(tally) THEN tally ELSE NoTally]
  BY DEF scan, Pruning
<1>2. tally.upTo = clock /\ tally.count = Cardinality(dir) /\ Cardinality(dir) \in Nat
  BY <1>0, FS_CardinalityType DEF Tally
<1>3. Before(clock) = dir /\ clock \in 0..clock /\ \A f \in dir : f.at <= clock
  BY <1>0 DEF Before, DirFilesOK
<1>4. Before(clock)' = dir
  BY <1>1, <1>3 DEF Before
<1> HIDE DEF tally
<1>5. CASE TooMuch(tally)
  <2>1. tshells' = [tshells EXCEPT ![p].st = "prune"] /\ prunes' = [prunes EXCEPT ![p] = tally]
    BY <1>1, <1>5
  <2>2. /\ StepOf(p) /\ DirFilesOK' /\ RefsOK(p)' /\ RunOK(p)' /\ KeepOK(p)' /\ DiskTrue(p)'
        /\ tshells'[p].st = "prune" /\ tshells'[p].cmd = tshells[p].cmd /\ prunes'[p] = tally
    BY <1>0, <1>1, <2>1, PruneStep
  <2>3. DirBounded'
    <3>1. \A f \in dir' : f.owner = p /\ (f \in dir => Owed(f)) => Owed(f)'
      BY <1>1, <2>2 DEF Owed
    <3> QED
      BY <2>2, <3>1, StaysBounded
  <2>4. PruneOK(p)'
    <3>1. Before(prunes[p].upTo)' = dir
      BY <1>1, <1>2, <1>3, <2>2 DEF Before
    <3> QED
      BY <1>1, <1>2, <1>3, <2>2, <3>1 DEF PruneOK
  <2> QED
    BY <2>2, <2>3, <2>4, StepKeeps
<1>6. CASE ~TooMuch(tally)
  <2>1. tshells' = [tshells EXCEPT ![p].st = "check"] /\ prunes' = [prunes EXCEPT ![p] = NoTally]
    BY <1>1, <1>6
  <2>2. /\ StepOf(p) /\ DirFilesOK' /\ RefsOK(p)' /\ RunOK(p)' /\ KeepOK(p)' /\ DiskTrue(p)'
        /\ tshells'[p].st = "check" /\ tshells'[p].cmd = tshells[p].cmd
    BY <1>0, <1>1, <2>1, PruneStep
  <2>3. Cardinality(dir) <= TraceCap
    BY <1>2, <1>6, TraceAssumption DEF TooMuch
  <2>4. DirBounded'
    <3>1. \A t \in 0..clock : t = clock => Cardinality(Before(t)') <= TraceCap
      BY <1>1, <1>3, <2>3 DEF Before
    <3>2. PICK u \in 0..clock : u = clock
      BY <1>3
    <3>3. Cardinality(Before(u)') <= TraceCap /\ \A f \in dir : OwnFile(p, f) => f.at <= u
      BY <1>3, <3>1, <3>2
    <3> QED
      BY <1>1, <2>2, <3>3, PruneEnds
  <2>5. PruneOK(p)'
    BY <2>2 DEF PruneOK
  <2> QED
    BY <2>2, <2>4, <2>5, StepKeeps
<1> QED
  BY <1>5, <1>6

\* The oldest of what it saw is gone.
LEMMA RemoveFileKeeps ==
  ASSUME TraceInv, NEW p \in TraceShells, remove_file(p)
  PROVE  TraceInv'
<1>0. TracesOK /\ DirFilesOK /\ PruneOK(p) /\ tshells[p].st = "prune" /\ clock \in Nat /\ dir \subseteq TraceFiles /\ IsFiniteSet(dir)
  BY DEF TraceInv, TracesOK, remove_file
<1>1. PICK f \in Removable(p) :
        /\ dir' = dir \ {f}
        /\ Pruning(p, Tally(prunes[p].upTo, prunes[p].count - 1, prunes[p].bytes - f.bytes))
  BY DEF remove_file
<1>2. PICK tally : tally = Tally(prunes[p].upTo, prunes[p].count - 1, prunes[p].bytes - f.bytes)
  OBVIOUS
<1>3. clock' = clock /\ spools' = spools /\ dir' \in SUBSET dir
      /\ tshells' = [tshells EXCEPT ![p].st = IF TooMuch(tally) THEN "prune" ELSE "check"]
      /\ prunes' = [prunes EXCEPT ![p] = IF TooMuch(tally) THEN tally ELSE NoTally]
  BY <1>1, <1>2 DEF remove_file, Pruning
<1>4. prunes[p].upTo \in 0..clock /\ prunes[p].count \in Int
      /\ Cardinality(Before(prunes[p].upTo)) <= prunes[p].count
      /\ \A g \in dir : OwnFile(p, g) => g.at <= prunes[p].upTo
  BY <1>0 DEF PruneOK
<1>5. PICK u \in 0..clock : u = prunes[p].upTo
  BY <1>4
<1>6. tally.upTo = u /\ tally.count = prunes[p].count - 1
  BY <1>2, <1>5 DEF Tally
<1>7. f \in Before(u) /\ Before(u)' = Before(u) \ {f}
  BY <1>1, <1>5 DEF Before, Removable
<1>8. IsFiniteSet(Before(u))
  <2>1. Before(u) \in SUBSET dir
    BY DEF Before
  <2> QED
    BY <1>0, <2>1, FS_Subset
<1>9. Cardinality(Before(u)) \in Nat /\ Cardinality(Before(u) \ {f}) = Cardinality(Before(u)) - 1
  BY <1>7, <1>8, FS_RemoveElement, FS_CardinalityType
<1>10. Cardinality(Before(u)') <= tally.count /\ Cardinality(Before(u)') \in Int
  BY <1>4, <1>5, <1>6, <1>7, <1>9
<1>11. CASE TooMuch(tally)
  <2>1. tshells' = [tshells EXCEPT ![p].st = "prune"] /\ prunes' = [prunes EXCEPT ![p] = tally]
    BY <1>3, <1>11
  <2>2. /\ StepOf(p) /\ DirFilesOK' /\ RefsOK(p)' /\ RunOK(p)' /\ KeepOK(p)' /\ DiskTrue(p)'
        /\ tshells'[p].st = "prune" /\ tshells'[p].cmd = tshells[p].cmd /\ prunes'[p] = tally
    BY <1>0, <1>3, <2>1, PruneStep
  <2>3. DirBounded'
    <3>1. \A g \in dir' : g.owner = p /\ (g \in dir => Owed(g)) => Owed(g)'
      BY <1>3, <2>2 DEF Owed
    <3> QED
      BY <2>2, <3>1, StaysBounded
  <2>4. PruneOK(p)'
    <3>1. Before(prunes[p].upTo)' = Before(u)'
      BY <1>6, <2>2 DEF Before
    <3>2. prunes'[p].upTo \in 0..clock' /\ prunes'[p].count \in Int
      BY <1>3, <1>4, <1>6, <2>2
    <3>3. Cardinality(Before(prunes[p].upTo)') <= prunes'[p].count
      BY <1>10, <2>2, <3>1
    <3>4. \A g \in dir' : OwnFile(p, g)' => g.at <= prunes'[p].upTo
      BY <1>3, <1>4, <1>5, <1>6, <2>2 DEF OwnFile
    <3> QED
      BY <3>2, <3>3, <3>4 DEF PruneOK
  <2> QED
    BY <2>2, <2>3, <2>4, StepKeeps
<1>12. CASE ~TooMuch(tally)
  <2>1. tshells' = [tshells EXCEPT ![p].st = "check"] /\ prunes' = [prunes EXCEPT ![p] = NoTally]
    BY <1>3, <1>12
  <2>2. /\ StepOf(p) /\ DirFilesOK' /\ RefsOK(p)' /\ RunOK(p)' /\ KeepOK(p)' /\ DiskTrue(p)'
        /\ tshells'[p].st = "check" /\ tshells'[p].cmd = tshells[p].cmd
    BY <1>0, <1>3, <2>1, PruneStep
  <2>3. Cardinality(Before(u)') <= TraceCap
    BY <1>4, <1>6, <1>10, <1>12, TraceAssumption DEF TooMuch
  <2>4. DirBounded'
    BY <1>3, <1>4, <1>5, <2>2, <2>3, PruneEnds
  <2>5. PruneOK(p)'
    BY <2>2 DEF PruneOK
  <2> QED
    BY <2>2, <2>4, <2>5, StepKeeps
<1> QED
  BY <1>11, <1>12

\* A prune that finds nothing to remove has left its own two files of what it saw.
LEMMA PruneEndKeeps ==
  ASSUME TraceInv, NEW p \in TraceShells, prune_trace_dir_protecting(p)
  PROVE  TraceInv'
<1>0. TracesOK /\ DirFilesOK /\ PruneOK(p) /\ tshells[p].st = "prune" /\ clock \in Nat /\ dir \subseteq TraceFiles /\ IsFiniteSet(dir)
  BY DEF TraceInv, TracesOK, prune_trace_dir_protecting
<1>1. dir' = dir /\ clock' = clock /\ spools' = spools /\ Removable(p) = {}
      /\ tshells' = [tshells EXCEPT ![p].st = "check"] /\ prunes' = [prunes EXCEPT ![p] = NoTally]
  BY DEF prune_trace_dir_protecting
<1>2. PICK u \in 0..clock : u = prunes[p].upTo
  BY <1>0 DEF PruneOK
<1>3. \A g \in dir : OwnFile(p, g) => g.at <= u
  BY <1>0, <1>2 DEF PruneOK
<1>4. \A g \in Before(u) : OwnFile(p, g)
  BY <1>1, <1>2 DEF Before, Removable
<1>5. Cardinality(Before(u)) <= 2
  <2> DEFINE h == [g \in Before(u) |-> g.s]
  <2>1. Before(u) \subseteq dir
    BY DEF Before
  <2>2. h \in [Before(u) -> Fds]
    BY <1>0, <2>1 DEF TraceFiles
  <2>3. ASSUME NEW g \in Before(u), NEW k \in Before(u), h[g] = h[k]
        PROVE  g = k
    BY <1>0, <1>4, <2>1, <2>3 DEF DirFilesOK, OwnFile
  <2>4. h \in Injection(Before(u), Fds)
    BY <2>2, <2>3 DEF Injection, IsInjective
  <2>5. IsFiniteSet(Fds) /\ Cardinality(Fds) = 2
    BY FdsTwo
  <2> HIDE DEF h
  <2> QED
    BY <2>4, <2>5, FS_Injection
<1>6. Cardinality(Before(u)') <= TraceCap
  <2>1. Before(u)' = Before(u) /\ IsFiniteSet(Before(u))
    <3>1. Before(u) \in SUBSET dir
      BY DEF Before
    <3> QED
      BY <1>0, <1>1, <3>1, FS_Subset DEF Before
  <2>2. Cardinality(Before(u)) \in Nat
    BY <2>1, FS_CardinalityType
  <2> QED
    BY <1>5, <2>1, <2>2, TraceAssumption
<1>7. /\ StepOf(p) /\ DirFilesOK' /\ RefsOK(p)' /\ RunOK(p)' /\ KeepOK(p)' /\ DiskTrue(p)'
      /\ tshells'[p].st = "check"
  BY <1>0, <1>1, PruneStep
<1>8. DirBounded'
  BY <1>1, <1>3, <1>6, <1>7, PruneEnds
<1>9. PruneOK(p)'
  BY <1>7 DEF PruneOK
<1> QED
  BY <1>7, <1>8, <1>9, StepKeeps

\* A ring takes one more at its end; what it had is moved by at most one place, by
\* as many in two rings of the same length.
RingShift(n) == IF n >= RingCap THEN 1 ELSE 0
LEMMA RingFacts ==
  ASSUME NEW S, NEW ring \in Seq(S), NEW x \in S
  PROVE  /\ Ring(ring, x) \in Seq(S)
         /\ Len(Ring(ring, x)) = Len(ring) + 1 - RingShift(Len(ring))
         /\ Ring(ring, x)[Len(Ring(ring, x))] = x
         /\ \A k \in 1..(Len(Ring(ring, x)) - 1) : Ring(ring, x)[k] = ring[k + RingShift(Len(ring))]
<1>1. CASE Len(ring) >= RingCap
  <2>0. ring # <<>> /\ Len(ring) \in Nat /\ Len(ring) > 0
    BY <1>1, TraceAssumption
  <2>a. Tail(ring) \in Seq(S)
    BY <2>0
  <2>1. PICK t \in Seq(S) : t = Tail(ring)
    BY <2>a
  <2>2. Len(t) = Len(ring) - 1 /\ \A k \in 1..Len(t) : t[k] = ring[k + 1]
    BY <2>0, <2>1
  <2>3. Ring(ring, x) = Append(t, x) /\ RingShift(Len(ring)) = 1
    BY <1>1, <2>1 DEF Ring, RingShift
  <2> QED
    BY <2>0, <2>2, <2>3
<1>2. CASE ~(Len(ring) >= RingCap)
  <2>1. Ring(ring, x) = Append(ring, x) /\ RingShift(Len(ring)) = 0
    BY <1>2 DEF Ring, RingShift
  <2> QED
    BY <2>1
<1> QED
  BY <1>1, <1>2

\* A reference is remembered whose files hold what their status says.
LEMMA RecordedKeeps ==
  ASSUME TraceInv, NEW p \in TraceShells, tshells[p].st \in {"check", "off"}, NEW status \in [Fds -> Marks],
         tshells' = [tshells EXCEPT ![p] = Recorded(tshells[p], status)],
         dir' = dir, clock' = clock, prunes' = prunes, \A f \in spools : f.owner # p => f \in spools',
         \A s \in Fds : status[s] = "complete" =>
           \A x \in tshells[p].said, f \in dir :
             x.cmd = tshells[p].cmd /\ OwnFile(p, f) /\ f.s = s => f.bytes = x.wrote[s]
  PROVE  TraceInv'
<1> DEFINE me == tshells[p]
           ref == [cmd |-> me.cmd, status |-> status]
           records == Ring(me.records, me.cmd)
           traces == Ring(me.disk_traces, ref)
           full == [me EXCEPT !.records = records, !.disk_traces = traces]
           d == RingShift(Len(me.records))
           last == Len(records)
<1>0. TracesOK /\ DirFilesOK /\ RefsOK(p) /\ DiskTrue(p) /\ me \in TraceRecords /\ p # "old" /\ clock \in Nat
  BY TraceAssumption DEF TraceInv, TracesOK
<1>1. me.cmd \in Nat /\ me.records \in Seq(Nat) /\ me.disk_traces \in Seq([cmd : Nat, status : [Fds -> Marks]])
  BY <1>0 DEF TraceRecords
<1>2. ref \in [cmd : Nat, status : [Fds -> Marks]] /\ ref.cmd = me.cmd /\ ref.status = status
  BY <1>1
<1>3. Len(me.records) = Len(me.disk_traces) /\ Len(me.records) \in Nat
  BY <1>0, <1>1 DEF RefsOK
<1> HIDE DEF ref
<1>4. /\ records \in Seq(Nat) /\ d \in {0, 1} /\ last = Len(me.records) + 1 - d /\ records[last] = me.cmd
      /\ \A k \in 1..(last - 1) : k + d \in 1..Len(me.records) /\ records[k] = me.records[k + d]
  <2> DEFINE S == Nat
  <2>1. PICK ring \in Seq(S), c \in S : ring = me.records /\ c = me.cmd
    BY <1>1
  <2> HIDE DEF S
  <2>2. /\ Ring(ring, c) \in Seq(S)
        /\ Len(Ring(ring, c)) = Len(ring) + 1 - RingShift(Len(ring))
        /\ Ring(ring, c)[Len(Ring(ring, c))] = c
        /\ \A k \in 1..(Len(Ring(ring, c)) - 1) :
             Ring(ring, c)[k] = ring[k + RingShift(Len(ring))]
    BY RingFacts
  <2>3. RingShift(Len(ring)) \in {0, 1}
    BY DEF RingShift
  <2>4. \A k \in 1..(Len(Ring(ring, c)) - 1) : k + RingShift(Len(ring)) \in 1..Len(ring)
    BY <2>2, <2>3
  <2> QED
    BY <2>1, <2>2, <2>3, <2>4, Zenon DEF S
<1>5. /\ traces \in Seq([cmd : Nat, status : [Fds -> Marks]]) /\ Len(traces) = last /\ traces[last] = ref
      /\ \A k \in 1..(last - 1) : traces[k] = me.disk_traces[k + d]
  <2> DEFINE S == [cmd : Nat, status : [Fds -> Marks]]
  <2>1. PICK ring \in Seq(S), x \in S : ring = me.disk_traces /\ x = ref
    BY <1>1, <1>2
  <2> HIDE DEF S
  <2>2. /\ Ring(ring, x) \in Seq(S)
        /\ Len(Ring(ring, x)) = Len(ring) + 1 - RingShift(Len(ring))
        /\ Ring(ring, x)[Len(Ring(ring, x))] = x
        /\ \A k \in 1..(Len(Ring(ring, x)) - 1) : Ring(ring, x)[k] = ring[k + RingShift(Len(ring))]
    BY RingFacts
  <2>3. Len(traces) = last
    BY <1>3, <1>4, <2>1, <2>2, Zenon
  <2> QED
    BY <1>3, <2>1, <2>2, <2>3, Zenon DEF S
<1> HIDE DEF records, traces, d, last
<1>6. full \in TraceRecords /\ full.cmd = me.cmd /\ full.records = records /\ full.disk_traces = traces /\ full.said = me.said
  BY <1>0, <1>4, <1>5 DEF TraceRecords
<1>7. tshells' = [tshells EXCEPT ![p] = Done(full)]
  BY DEF Recorded, records, traces, ref
<1> HIDE DEF full
<1>8. Done(full) \in TraceRecords /\ Done(full).st = "idle" /\ Done(full).cmd = me.cmd /\ Done(full).records = records
         /\ Done(full).disk_traces = traces /\ Done(full).said \subseteq me.said
  BY <1>6, DoneFacts
<1>9. tshells'[p] = Done(full) /\ \A q \in TraceShells \ {p} : tshells'[q] = tshells[q]
  BY <1>0, <1>7 DEF TracesOK
<1>10. StepOf(p)
  <2>1. tshells' \in [TraceShells -> TraceRecords]
    BY <1>0, <1>7, <1>8 DEF TracesOK
  <2>2. TracesOK'
    BY <1>0, <2>1 DEF TracesOK
  <2> QED
    BY <1>0, <1>9, <2>2 DEF StepOf
<1>11. DirFilesOK'
  <2>1. \A f \in dir' : f.owner = p => f.at <= clock' /\ Written(f)'
    BY <1>0, <1>8, <1>9 DEF DirFilesOK, Written
  <2> QED
    BY <1>10, <2>1, FilesKept
<1>12. DirBounded'
  <2>1. \A f \in dir' : f.owner = p => f \in dir /\ ~Owed(f)
    BY DEF Owed
  <2> QED
    BY <1>10, <2>1, StaysBounded
<1>13. PruneOK(p)' /\ RunOK(p)' /\ KeepOK(p)'
  BY <1>8, <1>9 DEF PruneOK, RunOK, KeepOK
<1>14. ASSUME NEW k \in DOMAIN traces
       PROVE  \/ k = last
              \/ k \in 1..(last - 1) /\ k + d \in DOMAIN me.disk_traces /\ traces[k] = me.disk_traces[k + d]
                 /\ records[k] = me.records[k + d]
  <2>1. k \in 1..last
    BY <1>5
  <2>2. CASE k # last
    <3>1. k \in 1..(last - 1)
      BY <1>3, <1>4, <2>1, <2>2
    <3>2. k + d \in 1..Len(me.records) /\ records[k] = me.records[k + d] /\ traces[k] = me.disk_traces[k + d]
      BY <1>4, <1>5, <3>1, Zenon
    <3>3. DOMAIN me.disk_traces = 1..Len(me.records)
      BY <1>1, <1>3
    <3> QED
      BY <3>1, <3>2, <3>3, Zenon
  <2> QED
    BY <2>2
<1>15. RefsOK(p)'
  <2>1. Len(records) = Len(traces)
    BY <1>5 DEF last
  <2>2. ASSUME NEW k \in DOMAIN traces
        PROVE  traces[k].cmd = records[k] /\ records[k] <= me.cmd
    <3>1. CASE k = last
      <4>1. traces[k] = ref /\ records[k] = me.cmd
        BY <1>4, <1>5, <3>1
      <4> QED
        BY <1>1, <1>2, <4>1
    <3>2. CASE k # last
      BY <1>0, <1>14, <3>2 DEF RefsOK
    <3> QED
      BY <3>1, <3>2
  <2>3. \A x \in me.said : x.cmd <= me.cmd
    BY <1>0 DEF RefsOK
  <2> QED
    BY <1>8, <1>9, <2>1, <2>2, <2>3 DEF RefsOK
<1>16. DiskTrue(p)'
  <2> SUFFICES ASSUME NEW k \in DOMAIN traces, NEW x \in me.said, NEW f \in dir,
                      f.owner = p, f.cmd = traces[k].cmd, x.cmd = f.cmd, traces[k].status[f.s] = "complete"
               PROVE  f.bytes = x.wrote[f.s]
    BY <1>8, <1>9 DEF DiskTrue
  <2>1. f.s \in Fds
    BY <1>0 DEF TracesOK, TraceFiles
  <2>2. CASE k = last
    BY <1>2, <1>5, <2>1, <2>2 DEF OwnFile
  <2>3. CASE k # last
    BY <1>0, <1>14, <2>3 DEF DiskTrue
  <2> QED
    BY <2>2, <2>3
<1> QED
  BY <1>10, <1>11, <1>12, <1>13, <1>15, <1>16, StepKeeps

\* Both ways a reference comes to be remembered, and the one in which it does not.
LEMMA RecordKeeps ==
  ASSUME TraceInv, NEW p \in TraceShells, record_trace_captured(p) \/ record_disabled(p)
  PROVE  TraceInv'
<1>0. KeepOK(p) /\ tshells[p] \in TraceRecords
  BY DEF TraceInv, TracesOK
<1>1. CASE record_trace_captured(p)
  <2>1. tshells[p].st = "check" /\ prunes' = prunes
    BY <1>1 DEF record_trace_captured
  <2>2. CASE GiveUp(p)
    BY <2>1, <2>2, GiveUpKeeps
  <2>3. CASE tshells' = [tshells EXCEPT ![p] = Recorded(@, @.status)] /\ UNCHANGED <<dir, clock, spools>>
    <3>1. FileTrue(p, "out") /\ FileTrue(p, "err")
      BY <1>0, <2>1 DEF KeepOK
    <3>2. PICK status \in [Fds -> Marks] : status = tshells[p].status
      BY <1>0 DEF TraceRecords
    <3>3. \A s \in Fds : status[s] = "complete" =>
           \A x \in tshells[p].said, f \in dir :
             x.cmd = tshells[p].cmd /\ OwnFile(p, f) /\ f.s = s => f.bytes = x.wrote[s]
      BY <3>1, <3>2 DEF FileTrue, Fds
    <3>4. tshells' = [tshells EXCEPT ![p] = Recorded(tshells[p], status)] /\ dir' = dir /\ clock' = clock /\ spools' = spools
      BY <2>3, <3>2
    <3> QED
      BY <2>1, <3>3, <3>4, RecordedKeeps
  <2> QED
    BY <1>1, <2>2, <2>3 DEF record_trace_captured
<1>2. CASE record_disabled(p)
  <2>1. PICK status \in [Fds -> Marks] : status = [s \in Fds |-> "disabled"]
    BY DEF Marks
  <2>2. tshells[p].st = "off" /\ dir' = dir /\ clock' = clock /\ prunes' = prunes
        /\ tshells' = [tshells EXCEPT ![p] = Recorded(tshells[p], status)]
        /\ \A f \in spools : f.owner # p => f \in spools'
    BY <1>2, <2>1 DEF record_disabled
  <2>3. \A s \in Fds : status[s] # "complete"
    BY <2>1
  <2> QED
    BY <2>2, <2>3, RecordedKeeps
<1> QED
  BY <1>1, <1>2

\* The type of a shell that remembers nothing.
LEMMA FreshType == Fresh \in TraceRecords /\ Fresh.records = <<>> /\ Fresh.disk_traces = <<>> /\ Fresh.said = {} /\ Fresh.st = "idle"
BY DEF Fresh, TraceRecords, TraceStates, Marks, Sources, Zero, Nothing, Source, Fds

\* A shell is killed: nothing prunes behind what it wrote.
LEMMA KilledKeeps ==
  ASSUME TraceInv, NEW p \in TraceShells, Killed(p)
  PROVE  TraceInv'
<1> DEFINE me == tshells[p]
           you == [Fresh EXCEPT !.st = "dead", !.cmd = me.cmd]
<1>0. TracesOK /\ DirFilesOK /\ me \in TraceRecords /\ p # "old" /\ clock \in Nat
  BY TraceAssumption DEF TraceInv, TracesOK
<1>1. dir' = dir /\ clock' = clock /\ spools' = spools /\ tshells' = [tshells EXCEPT ![p] = you]
      /\ prunes' = [prunes EXCEPT ![p] = NoTally]
  BY DEF Killed
<1>2. me.cmd \in Nat
  BY <1>0 DEF TraceRecords
<1>3. you \in TraceRecords /\ you.st = "dead" /\ you.cmd = me.cmd /\ you.records = <<>> /\ you.disk_traces = <<>> /\ you.said = {}
  BY <1>2, FreshType DEF TraceRecords, TraceStates
<1> HIDE DEF you
<1>4. tshells'[p] = you /\ \A q \in TraceShells \ {p} : tshells'[q] = tshells[q] /\ prunes'[q] = prunes[q]
  BY <1>0, <1>1 DEF TracesOK
<1>5. StepOf(p)
  <2>1. tshells' \in [TraceShells -> TraceRecords]
    BY <1>0, <1>1, <1>3 DEF TracesOK
  <2>2. prunes' = [q \in TraceShells |-> prunes'[q]]
    BY <1>0, <1>1 DEF TracesOK
  <2>3. TracesOK'
    BY <1>0, <1>1, <2>1, <2>2 DEF TracesOK
  <2> QED
    BY <1>0, <1>1, <1>4, <2>3 DEF StepOf
<1>6. DirFilesOK'
  <2>1. \A f \in dir' : f.owner = p => f.at <= clock' /\ Written(f)'
    BY <1>0, <1>1, <1>3, <1>4 DEF DirFilesOK, Written
  <2> QED
    BY <1>1, <1>5, <2>1, FilesKept
<1>7. DirBounded'
  <2>1. \A f \in dir' : f.owner = p /\ (f \in dir => Owed(f)) => Owed(f)'
    BY <1>1, <1>3, <1>4 DEF Owed
  <2> QED
    BY <1>5, <2>1, StaysBounded
<1>8. PruneOK(p)' /\ RunOK(p)' /\ KeepOK(p)' /\ RefsOK(p)' /\ DiskTrue(p)'
  BY <1>3, <1>4 DEF PruneOK, RunOK, KeepOK, RefsOK, DiskTrue
<1> QED
  BY <1>5, <1>6, <1>7, <1>8, StepKeeps

\* Before the first command there are the files of earlier shells.
LEMMA TraceStart == TraceInit => TraceInv
<1> SUFFICES ASSUME TraceInit
             PROVE  TraceInv
  OBVIOUS
<1>0. OldFiles \in Nat /\ OldFiles <= TraceCap /\ TraceCap \in Nat /\ clock = OldFiles /\ clock \in Nat
  BY TraceAssumption DEF TraceInit
<1>1. \A f \in dir : \E k \in 1..OldFiles :
        f = OldFile(k) /\ f.owner = "old" /\ f.cmd = k /\ f.s = "out" /\ f.at = k /\ f.bytes = 1
  BY DEF TraceInit, OldFile, File
<1>2. dir \subseteq TraceFiles
  BY <1>0, <1>1 DEF OldFile, File, TraceFiles, Fds
<1>3. \A p \in TraceShells : tshells[p] = Fresh /\ prunes[p] = NoTally
  BY DEF TraceInit
<1>4. IsFiniteSet(dir) /\ Cardinality(dir) <= OldFiles /\ Cardinality(dir) \in Nat
  <2> DEFINE h == [f \in dir |-> f.at]
  <2>1. h \in [dir -> 1..OldFiles]
    BY <1>1
  <2>2. \A f, g \in dir : h[f] = h[g] => f = g
    BY <1>1
  <2>3. h \in Injection(dir, 1..OldFiles)
    BY <2>1, <2>2 DEF Injection, IsInjective
  <2>4. IsFiniteSet(1..OldFiles) /\ Cardinality(1..OldFiles) = OldFiles
    BY <1>0, FS_Interval
  <2> HIDE DEF h
  <2>5. IsFiniteSet(dir) /\ Cardinality(dir) <= OldFiles
    BY <2>3, <2>4, FS_Injection
  <2> QED
    BY <2>5, FS_CardinalityType
<1>5. TracesOK
  <2>1. tshells \in [TraceShells -> TraceRecords]
    BY FreshType DEF TraceInit
  <2> QED
    BY <1>0, <1>2, <1>4, <2>1 DEF TracesOK, TraceInit
<1>6. DirFilesOK
  BY <1>0, <1>1 DEF DirFilesOK, Written
<1>7. DirBounded
  <2>1. \A f \in dir : f.at <= clock /\ f.at \in Nat
    BY <1>0, <1>1
  <2>2. Before(clock) = dir
    BY <2>1 DEF Before
  <2>3. Bounded(clock)
    BY <1>0, <1>4, <2>1, <2>2 DEF Bounded
  <2> QED
    BY <1>0, <2>3 DEF DirBounded
<1>8. \A p \in TraceShells : PruneOK(p) /\ RefsOK(p) /\ RunOK(p) /\ KeepOK(p) /\ DiskTrue(p)
  BY <1>3, FreshType DEF PruneOK, RefsOK, RunOK, KeepOK, DiskTrue
<1> QED
  BY <1>5, <1>6, <1>7, <1>8 DEF TraceInv

\* Every step keeps the invariant.
LEMMA TraceKeeps == TraceInv /\ [TraceNext]_traceVars => TraceInv'
<1>1. ASSUME TraceInv, UNCHANGED traceVars
      PROVE  TraceInv'
  <2>0. dir' = dir /\ clock' = clock /\ spools' = spools /\ tshells' = tshells /\ prunes' = prunes
    BY <1>1 DEF traceVars
  <2>1. TracesOK' /\ DirFilesOK'
    BY <1>1, <2>0 DEF TraceInv, TracesOK, DirFilesOK, Written
  <2>2. DirBounded'
    BY <1>1, <2>0 DEF TraceInv, DirBounded, Bounded, Before, Owed
  <2>3. ASSUME NEW p \in TraceShells
        PROVE  PruneOK(p)' /\ RefsOK(p)' /\ RunOK(p)' /\ KeepOK(p)' /\ DiskTrue(p)'
    <3>0. PruneOK(p) /\ RefsOK(p) /\ RunOK(p) /\ KeepOK(p) /\ DiskTrue(p)
      BY <1>1 DEF TraceInv
    <3>1. PruneOK(p)'
      BY <2>0, <3>0 DEF PruneOK, Before, OwnFile
    <3>2. RefsOK(p)' /\ DiskTrue(p)'
      BY <2>0, <3>0 DEF RefsOK, DiskTrue
    <3>3. RunOK(p)'
      BY <2>0, <3>0 DEF RunOK, Spool
    <3>4. KeepOK(p)'
      BY <2>0, <3>0 DEF KeepOK, SourceTrue, FileTrue, OwnFile
    <3> QED
      BY <3>1, <3>2, <3>3, <3>4
  <2> QED
    BY <2>1, <2>2, <2>3 DEF TraceInv
<1>2. ASSUME TraceInv, NEW p \in TraceShells, persist_stdout(p)
      PROVE  TraceInv'
  <2>1. tshells[p].st = "out" /\ prunes' = prunes /\ (Persisted(p, "out", "err") \/ GiveUp(p))
    BY <1>2 DEF persist_stdout
  <2>2. CASE Persisted(p, "out", "err")
    BY <1>2, <2>1, <2>2, PersistedKeeps DEF Fds, TraceStates
  <2>3. CASE GiveUp(p)
    BY <1>2, <2>1, <2>3, GiveUpKeeps
  <2> QED
    BY <2>1, <2>2, <2>3
<1>3. ASSUME TraceInv, NEW p \in TraceShells, persist_stderr(p)
      PROVE  TraceInv'
  <2>1. tshells[p].st = "err" /\ prunes' = prunes /\ (Persisted(p, "err", "scan") \/ GiveUp(p))
    BY <1>3 DEF persist_stderr
  <2>2. CASE Persisted(p, "err", "scan")
    BY <1>3, <2>1, <2>2, PersistedKeeps DEF Fds, TraceStates
  <2>3. CASE GiveUp(p)
    BY <1>3, <2>1, <2>3, GiveUpKeeps
  <2> QED
    BY <2>1, <2>2, <2>3
<1> QED
  BY <1>1, <1>2, <1>3, CreateKeeps, WriteKeeps, FinishKeeps, ScanKeeps, RemoveFileKeeps, PruneEndKeeps, RecordKeeps,
     KilledKeeps DEF TraceNext

\* What a reference gives is what the invariant says of its file.
LEMMA ReaderTrue ==
  ASSUME TraceInv, NEW p \in TraceShells, NEW x \in tshells[p].said, NEW s \in Fds,
         open_trace_reader(p, x.cmd, s).status = "complete"
  PROVE  open_trace_reader(p, x.cmd, s).bytes = x.wrote[s]
<1> DEFINE me == tshells[p]
           refs == {k \in DOMAIN me.disk_traces : me.disk_traces[k].cmd = x.cmd}
           status == me.disk_traces[CHOOSE k \in refs : TRUE].status[s]
           held == CHOOSE f \in dir : f.owner = p /\ f.cmd = x.cmd /\ f.s = s
<1>0. RefsOK(p) /\ DiskTrue(p) /\ me \in TraceRecords
  BY DEF TraceInv, TracesOK
<1>1. open_trace_reader(p, x.cmd, s) =
        IF refs # {}
        THEN IF status = "disabled" THEN [status |-> status, bytes |-> 0]
             ELSE IF There(p, x.cmd, s) THEN [status |-> status, bytes |-> held.bytes] ELSE [status |-> "missing", bytes |-> 0]
        ELSE IF x.cmd \in ToSet(me.records) THEN [status |-> "complete", bytes |-> 0]
        ELSE [status |-> "missing", bytes |-> 0]
  BY DEF open_trace_reader
<1>2. refs # {}
  <2> SUFFICES ASSUME refs = {}
               PROVE  FALSE
    OBVIOUS
  <2>1. x.cmd \in ToSet(me.records)
    <3> SUFFICES ASSUME x.cmd \notin ToSet(me.records)
                 PROVE  FALSE
      OBVIOUS
    <3> HIDE DEF refs, status, held
    <3>1. open_trace_reader(p, x.cmd, s) = [status |-> "missing", bytes |-> 0]
      BY <1>1
    <3> QED
      BY <3>1
  <2>2. me.records \in Seq(Nat) /\ me.disk_traces \in Seq([cmd : Nat, status : [Fds -> Marks]])
    BY <1>0 DEF TraceRecords
  <2>3. PICK k \in DOMAIN me.records : me.records[k] = x.cmd
    BY <2>1 DEF ToSet
  <2>4. k \in DOMAIN me.disk_traces /\ me.disk_traces[k].cmd = x.cmd
    BY <1>0, <2>2, <2>3 DEF RefsOK
  <2> QED
    BY <2>4
<1>3. PICK k \in refs : k = CHOOSE j \in refs : TRUE
  BY <1>2
<1> HIDE DEF refs
<1>4. me.disk_traces[k].status[s] = status
  BY <1>3
<1>5. status = "complete" /\ There(p, x.cmd, s) /\ open_trace_reader(p, x.cmd, s).bytes = held.bytes
  <2> HIDE DEF status, held
  <2>1. CASE status = "disabled"
    BY <1>1, <1>2, <2>1
  <2>2. CASE status # "disabled" /\ ~There(p, x.cmd, s)
    BY <1>1, <1>2, <2>2
  <2>3. CASE status # "disabled" /\ There(p, x.cmd, s)
    BY <1>1, <1>2, <2>3
  <2> QED
    BY <2>1, <2>2, <2>3
<1>6. held \in dir /\ held.owner = p /\ held.cmd = x.cmd /\ held.s = s
  BY <1>5 DEF There
<1>7. k \in DOMAIN me.disk_traces /\ me.disk_traces[k].cmd = x.cmd
  BY DEF refs
<1> HIDE DEF held, status
<1>8. held.bytes = x.wrote[s]
  BY <1>0, <1>4, <1>5, <1>6, <1>7 DEF DiskTrue
<1> QED
  BY <1>5, <1>8

\* The files younger than the moment are those of distinct streams of shells that
\* owe a prune.
LEMMA DirWithin ==
  ASSUME TraceInv
  PROVE  Cardinality(dir) <= TraceCap + 2 * Cardinality({p \in TraceShells : tshells[p].st \in {"err", "scan", "prune", "dead"}})
<1> DEFINE Owing == {p \in TraceShells : tshells[p].st \in {"err", "scan", "prune", "dead"}}
<1>0. TracesOK /\ DirFilesOK /\ clock \in Nat /\ dir \subseteq TraceFiles /\ IsFiniteSet(dir)
  BY DEF TraceInv, TracesOK
<1>1. PICK t \in 0..clock : Bounded(t)
  BY DEF TraceInv, DirBounded
<1> DEFINE young == {f \in dir : ~(f.at <= t)}
           h == [f \in young |-> <<f.owner, f.s>>]
<1>2. \A f \in young : f \in dir /\ Owed(f) /\ f.s \in Fds
  BY <1>0, <1>1 DEF Bounded, TraceFiles
<1>3. h \in [young -> Owing \X Fds]
  BY <1>2 DEF Owed
<1>4. \A f, g \in young : h[f] = h[g] => f = g
  BY <1>0, <1>2 DEF DirFilesOK, Owed
<1>5. h \in Injection(young, Owing \X Fds)
  BY <1>3, <1>4 DEF Injection, IsInjective
<1>6. IsFiniteSet(Owing) /\ Cardinality(Owing) \in Nat
  <2>1. Owing \in SUBSET TraceShells
    OBVIOUS
  <2> QED
    BY <2>1, TraceAssumption, FS_Subset, FS_CardinalityType
<1> HIDE DEF Owing, h
<1>7. IsFiniteSet(Owing \X Fds) /\ Cardinality(Owing \X Fds) = Cardinality(Owing) * 2
  BY <1>6, FdsTwo, FS_Product
<1>8. IsFiniteSet(young) /\ Cardinality(young) <= Cardinality(Owing) * 2
  BY <1>5, <1>7, FS_Injection
<1>9. IsFiniteSet(Before(t)) /\ Cardinality(Before(t)) <= TraceCap
  <2>1. Before(t) \in SUBSET dir
    BY DEF Before
  <2> QED
    BY <1>0, <1>1, <2>1, FS_Subset DEF Bounded
<1>10. dir = Before(t) \cup young /\ Before(t) \cap young = {}
  BY DEF Before
<1> HIDE DEF young
<1>11. Cardinality(dir) = Cardinality(Before(t)) + Cardinality(young) - Cardinality(Before(t) \cap young)
  BY <1>8, <1>9, <1>10, FS_Union
<1>12. Cardinality(dir) \in Nat /\ Cardinality(Before(t)) \in Nat /\ Cardinality(young) \in Nat /\ Cardinality(Before(t) \cap young) = 0
  BY <1>0, <1>8, <1>9, <1>10, FS_CardinalityType, FS_EmptySet
<1> QED
  BY <1>6, <1>8, <1>9, <1>11, <1>12, TraceAssumption DEF Owing

\* Whatever shells share a directory and whatever its limits: a reference whose
\* stream is said to be complete gives every byte the command wrote or nothing, no
\* spool in use is taken away, and the directory exceeds its limit only by the
\* files of shells that have not pruned since they wrote (state.rs,
\* open_trace_reader, prune_stale_trace_spools, persist_trace_segments_to_dir).
THEOREM TracesAlwaysTruthful == TraceSpec => []TraceTruthful
<1>1. TraceInv => TraceTruthful
  <2> SUFFICES ASSUME TraceInv
               PROVE  TraceTruthful
    OBVIOUS
  <2>1. \A p \in TraceShells : \A x \in tshells[p].said, s \in Fds :
          LET t == open_trace_reader(p, x.cmd, s) IN t.status = "complete" => t.bytes = x.wrote[s]
    BY ReaderTrue
  <2>2. \A p \in TraceShells : tshells[p].st = "run" /\ tshells[p].enabled => \A s \in tshells[p].spool : Spool(p, s) \in spools
    BY DEF TraceInv, RunOK
  <2>3. Cardinality(dir) <= TraceCap + 2 * Cardinality({p \in TraceShells : tshells[p].st \in {"err", "scan", "prune", "dead"}})
    BY DirWithin
  <2> QED
    BY <2>1, <2>2, <2>3 DEF TraceTruthful
<1> QED
  BY <1>1, TraceStart, TraceKeeps, PTL DEF TraceSpec

=============================================================================
