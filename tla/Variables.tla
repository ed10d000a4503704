----------------------------- MODULE Variables -----------------------------
(***************************************************************************)
(* Shell variables: the maps of ShellState that hold them                  *)
(* (crates/agsh-exec/src/state.rs), the builtins that change them          *)
(* (builtins.rs), function calls and prefix assignments that save and      *)
(* restore them (executor.rs), and the environment of a trusted project    *)
(* that `cd' applies and undoes.                                           *)
(*                                                                         *)
(* The code has shallow binding: one current binding per name, and whoever *)
(* shadows it keeps a snapshot and puts it back.  There are three keepers, *)
(* function scopes, regular builtins with prefix assignments, and the      *)
(* project environment, and only the first two nest.                       *)
(*                                                                         *)
(* An array is abstracted to one content.  The integer attribute and       *)
(* arithmetic only decide which value is stored, or that none is; `set -a' *)
(* only whether an assignment also exports.                                *)
(***************************************************************************)
EXTENDS Integers, Sequences

CONSTANTS
  Names,     \* variables
  Vals,      \* values
  NoVal,     \* no value
  Empty,     \* the empty string, and an array without elements
  None,      \* no prefix assignments, no project environment
  MaxCalls   \* bound: function calls and commands with prefix assignments

ASSUME VariablesAssumption ==
  /\ NoVal \notin Vals /\ Empty \in Vals
  /\ MaxCalls \in Nat

VARIABLES
  b,        \* the current binding of each name
  scopes,   \* local_scopes: what the locals of each function scope shadow
  calls,    \* function calls in progress
  prefix,   \* saved_assignments of the regular builtin that runs
  overlay,  \* active_env
  entered,  \* calls so far, up to MaxCalls
  broken,   \* history: a scope was left open, or a local shadows a prefix
  crossed   \* history: an environment was undone in another scope than it
            \* was applied in

vars == <<b, scopes, calls, prefix, overlay, entered, broken, crossed>>

Ids == 0..(MaxCalls + 1)
Project == MaxCalls + 1

\* The entries of one name in vars, env, arrays, assoc_arrays, opaque_env,
\* exported_vars and readonly_vars.  born is history: the frame its content was
\* written for, 0 for the globals, Project for the project environment.
Bindings == [var : Vals \cup {NoVal}, env : Vals \cup {NoVal},
             arr : Vals \cup {NoVal}, assoc : Vals \cup {NoVal},
             opaque : BOOLEAN, exported : BOOLEAN, readonly : BOOLEAN, born : Ids]

Saved == UNION {[S -> Bindings] : S \in SUBSET Names}
SavedPrefixes == [id : Ids, saved : Saved, ran : BOOLEAN]
Overlays == [saved : Saved, owner : UNION {[S -> Ids] : S \in SUBSET Names}]

ASSUME NoneAssumption == None \notin SavedPrefixes /\ None \notin Overlays

-----------------------------------------------------------------------------
(* One binding: the methods of ShellState. *)

Absent == [var |-> NoVal, env |-> NoVal, arr |-> NoVal, assoc |-> NoVal,
           opaque |-> FALSE, exported |-> FALSE, readonly |-> FALSE, born |-> 0]

\* Mutant: the environment entry survives when the name becomes an array.
KeepEnvMutant(x, v) ==
  IF x.readonly THEN x
  ELSE [x EXCEPT !.arr = v, !.var = NoVal, !.assoc = NoVal, !.opaque = FALSE]

SetArray(x, v) ==
  IF x.readonly THEN x
  ELSE [x EXCEPT !.arr = v, !.var = NoVal, !.assoc = NoVal, !.env = NoVal,
                 !.opaque = FALSE]

SetAssoc(x, v) ==
  IF x.readonly THEN x
  ELSE [x EXCEPT !.assoc = v, !.var = NoVal, !.arr = NoVal, !.env = NoVal,
                 !.opaque = FALSE]

DeclareArray(x) == SetArray(x, IF x.arr = NoVal THEN Empty ELSE x.arr)
DeclareAssoc(x) == SetAssoc(x, IF x.assoc = NoVal THEN Empty ELSE x.assoc)

\* Mutant: the readonly check is missing.
UncheckedMutant(x, v) ==
  CASE x.arr # NoVal -> SetArray(x, v)
    [] x.assoc # NoVal -> SetAssoc(x, v)
    [] OTHER -> [x EXCEPT !.var = v, !.opaque = FALSE,
                          !.env = IF x.exported THEN v ELSE @]

TrySetVar(x, v) ==
  CASE x.readonly -> x
    [] x.arr # NoVal -> SetArray(x, v)
    [] x.assoc # NoVal -> SetAssoc(x, v)
    [] OTHER -> [x EXCEPT !.var = v, !.opaque = FALSE,
                          !.env = IF x.exported THEN v ELSE @]

TryExportVar(x, v) ==
  IF x.readonly THEN x
  ELSE LET y == [TrySetVar(x, v) EXCEPT !.exported = TRUE]
       IN IF y.var = NoVal THEN y ELSE [y EXCEPT !.env = v]

MarkExported(x) ==
  LET y == [x EXCEPT !.exported = TRUE]
  IN CASE x.var # NoVal -> [y EXCEPT !.opaque = FALSE, !.env = x.var]
       [] x.opaque -> y
       [] OTHER -> [y EXCEPT !.env = NoVal]

Unexport(x) == [x EXCEPT !.exported = FALSE, !.env = NoVal, !.opaque = FALSE]
MarkReadonly(x) == [x EXCEPT !.readonly = TRUE]
Unset(x) == IF x.readonly THEN x ELSE Absent

-----------------------------------------------------------------------------
(* Frames *)

\* Who shadows whom: the scopes, then the builtin that runs.
Shadows == IF prefix = None THEN scopes ELSE Append(scopes, prefix)
FrameIds == [i \in DOMAIN Shadows |-> Shadows[i].id]

\* The frame that the current binding of n belongs to.
OwnerId(n) ==
  LET S == {i \in DOMAIN Shadows : n \in DOMAIN Shadows[i].saved}
  IN IF S = {} THEN 0
     ELSE Shadows[CHOOSE i \in S : \A j \in S : j <= i].id

Snapshot(saved, n) == [m \in DOMAIN saved \cup {n} |->
                         IF m = n /\ n \notin DOMAIN saved THEN b[n] ELSE saved[m]]
Restore(saved) == [n \in Names |-> IF n \in DOMAIN saved THEN saved[n] ELSE b[n]]

\* y is what an operation of frame i makes of x.
Written(x, y, i) == [y EXCEPT !.born = IF x.readonly THEN x.born ELSE i]

Idle == prefix = None
\* A regular builtin runs, with prefix assignments or without.
Builtin == IF Idle THEN TRUE ELSE ~prefix.ran
Ran == prefix' = IF Idle THEN None ELSE [prefix EXCEPT !.ran = TRUE]

history == <<entered, broken, crossed>>
Bind(n, x) == /\ b' = [b EXCEPT ![n] = x]
              /\ UNCHANGED <<scopes, calls, overlay, history>>

-----------------------------------------------------------------------------
(* Assignments and builtins on the current binding *)

\* What apply_assignment can make of a binding: an array, an element, a scalar,
\* exported under `set -a'; nothing when it is readonly.
Assigned(x, i) ==
  IF x.readonly THEN {}
  ELSE UNION {{Written(x, y, i) :
                 y \in {IF x.assoc # NoVal THEN SetAssoc(x, v) ELSE SetArray(x, v),
                        TrySetVar(x, v), TryExportVar(x, v)}} : v \in Vals}

\* n=v; an assignment that fails changes nothing
Assign(n) == /\ Idle
             /\ \E x \in Assigned(b[n], OwnerId(n)) : Bind(n, x)
             /\ UNCHANGED prefix

\* The prefix assignments of a special builtin stay, exported.
SpecialPrefix(n) == /\ Idle
                    /\ \E x \in Assigned(b[n], OwnerId(n)) : Bind(n, MarkExported(x))
                    /\ UNCHANGED prefix

\* read, for, select, getopts, let, (( )), ${n:=v}
SetVar(n) == /\ Builtin /\ Ran
             /\ \E v \in Vals : Bind(n, Written(b[n], TrySetVar(b[n], v), OwnerId(n)))

\* export n=v, agenv set; export n; export -n n; export -n n=v
Export(n) ==
  \/ /\ Builtin /\ Ran
     /\ \E v \in Vals : Bind(n, Written(b[n], TryExportVar(b[n], v), OwnerId(n)))
  \/ /\ Idle /\ UNCHANGED prefix
     /\ Bind(n, MarkExported(b[n])) \/ Bind(n, Unexport(b[n]))
  \/ /\ Idle /\ UNCHANGED prefix /\ ~b[n].readonly
     /\ \E v \in Vals : Bind(n, Written(b[n], Unexport(TrySetVar(b[n], v)), OwnerId(n)))

\* readonly n; readonly n=v
Readonly(n) ==
  /\ Idle /\ UNCHANGED prefix
  /\ \/ Bind(n, MarkReadonly(b[n]))
     \/ /\ ~b[n].readonly
        /\ \E v \in Vals :
             Bind(n, MarkReadonly(Written(b[n], TrySetVar(b[n], v), OwnerId(n))))

\* unset n, agenv unset, getopts; unset n[i]
UnsetName(n) ==
  /\ Builtin /\ Ran
  /\ \/ Bind(n, Written(b[n], Unset(b[n]), OwnerId(n)))
     \/ /\ ~b[n].readonly /\ b[n].arr # NoVal
        /\ \E v \in Vals : Bind(n, Written(b[n], [b[n] EXCEPT !.arr = v], OwnerId(n)))
     \/ /\ ~b[n].readonly /\ b[n].assoc # NoVal
        /\ \E v \in Vals : Bind(n, Written(b[n], [b[n] EXCEPT !.assoc = v], OwnerId(n)))

\* The options of local and declare.
Attributes(x) == {x, MarkExported(x), MarkReadonly(x), MarkReadonly(MarkExported(x))}

\* What local and declare make of a binding that is not readonly; an assignment
\* whose arithmetic fails leaves it as it is.
Declared(x, i) ==
  LET assigned == UNION {{Written(x, SetArray(x, v), i), Written(x, SetAssoc(x, v), i),
                          Written(x, TrySetVar(x, v), i)} : v \in Vals}
      options == {x, DeclareArray(x), DeclareAssoc(x)} \cup assigned
  IN {x} \cup (UNION {Attributes(y) : y \in options})

\* declare outside of functions, declare -g
Declare(n) ==
  /\ Builtin /\ Ran
  /\ \/ /\ ~b[n].readonly
        /\ \E x \in Declared(b[n], OwnerId(n)) : Bind(n, x)
     \/ /\ b[n].readonly
        /\ \E x \in Attributes(b[n]) : Bind(n, x)

\* Mutant: a second declaration in the same function shadows the first.
AlwaysSnapshotMutant(saved, n) ==
  [m \in DOMAIN saved \cup {n} |-> IF m = n THEN b[n] ELSE saved[m]]

Shadowed(saved, n) == Snapshot(saved, n)

\* local, and declare in a function
Local(n) ==
  /\ Builtin /\ Ran
  /\ scopes # <<>> /\ ~b[n].readonly
  /\ LET top == scopes[Len(scopes)]
         already == n \in DOMAIN top.saved
         x == IF already THEN b[n]
              ELSE [Absent EXCEPT !.exported = b[n].exported, !.born = top.id]
     IN /\ scopes' = [scopes EXCEPT ![Len(scopes)].saved = Shadowed(@, n)]
        /\ \E y \in Declared(x, IF already THEN OwnerId(n) ELSE top.id) :
             b' = [b EXCEPT ![n] = y]
        /\ broken' = (broken \/ (~already /\ ~Idle /\ n \in DOMAIN prefix.saved))
  /\ UNCHANGED <<calls, overlay, entered, crossed>>

-----------------------------------------------------------------------------
(* Function calls and prefix assignments *)

\* The bindings that the prefix assignments of a function call make: fresh,
\* exported.
FunctionPrefix(n, i) ==
  {MarkExported(x) :
     x \in Assigned([Absent EXCEPT !.exported = b[n].exported, !.born = i], i)}

\* Those of a regular builtin go over the ones it saves.
BuiltinPrefix(n, i) == {MarkExported(x) : x \in Assigned(b[n], i)}

\* A function is entered; if a prefix assignment hits a readonly name it is left
\* at once, which changes nothing.  If a redirection fails the scope stays.
Call(S) ==
  /\ Idle /\ entered < MaxCalls
  /\ \A n \in S : ~b[n].readonly
  /\ entered' = entered + 1
  /\ scopes' = Append(scopes, [id |-> entered', saved |-> [n \in S |-> b[n]]])
  /\ \E f \in [S -> UNION {FunctionPrefix(n, entered') : n \in S}] :
       /\ \A n \in S : f[n] \in FunctionPrefix(n, entered')
       /\ b' = [n \in Names |-> IF n \in S THEN f[n] ELSE b[n]]
  /\ \/ calls' = calls + 1 /\ UNCHANGED broken
     \/ calls' = calls /\ broken' = TRUE
  /\ UNCHANGED <<prefix, overlay, crossed>>

LeaveScope == SubSeq(scopes, 1, Len(scopes) - 1)

FunctionReturn ==
  /\ Idle /\ calls > 0
  /\ calls' = calls - 1
  /\ b' = Restore(scopes[Len(scopes)].saved)
  /\ scopes' = LeaveScope
  /\ UNCHANGED <<prefix, overlay, history>>

\* A regular builtin saves the names of its prefix assignments, exports them,
\* runs, and puts them back.  One that is readonly: nothing runs or changes.
BuiltinStart(S) ==
  /\ Idle /\ S # {} /\ entered < MaxCalls
  /\ \A n \in S : ~b[n].readonly
  /\ entered' = entered + 1
  /\ prefix' = [id |-> entered', saved |-> [n \in S |-> b[n]], ran |-> FALSE]
  /\ \E f \in [S -> UNION {BuiltinPrefix(n, entered') : n \in S}] :
       /\ \A n \in S : f[n] \in BuiltinPrefix(n, entered')
       /\ b' = [n \in Names |-> IF n \in S THEN f[n] ELSE b[n]]
  /\ UNCHANGED <<scopes, calls, overlay, broken, crossed>>

BuiltinEnd ==
  /\ ~Idle
  /\ b' = Restore(prefix.saved)
  /\ prefix' = None
  /\ UNCHANGED <<scopes, calls, overlay, history>>

-----------------------------------------------------------------------------
(* The project environment *)

\* deactivate_project_env on the bindings m.
Deactivated(m) == [n \in Names |-> IF overlay = None THEN m[n]
                                   ELSE IF n \in DOMAIN overlay.saved THEN overlay.saved[n]
                                   ELSE m[n]]
\* The environment is undone where another frame owns one of its names now, or
\* while a frame that has shadowed one of its values is still open.
Crosses == overlay # None /\ \E n \in DOMAIN overlay.saved :
             \/ overlay.owner[n] # OwnerId(n)
             \/ \E i \in DOMAIN Shadows : n \in DOMAIN Shadows[i].saved
                                          /\ Shadows[i].saved[n].born = Project

\* cd exports the names D, PWD and OLDPWD, which may be any here (trust and
\* start-up: none).  The environment in force is undone, and that of the new
\* directory, if it has a trusted one, is exported over the bindings.
ChangeDirectory(S, D) ==
  /\ Builtin /\ Ran
  /\ \E f \in [S -> Vals], d \in [D -> Vals] :
       LET moved == [n \in Names |-> IF n \in D
                       THEN Written(b[n], TryExportVar(b[n], d[n]), OwnerId(n)) ELSE b[n]]
           base == Deactivated(moved)
       IN /\ b' = [n \in Names |-> IF n \in S
                     THEN Written(base[n], TryExportVar(base[n], f[n]), Project) ELSE base[n]]
          /\ overlay' = IF S = {} THEN None
                        ELSE [saved |-> [n \in S |-> base[n]],
                              owner |-> [n \in S |-> OwnerId(n)]]
  /\ crossed' = (crossed \/ Crosses)
  /\ UNCHANGED <<scopes, calls, entered, broken>>

-----------------------------------------------------------------------------
\* A name is inherited as text, as bytes that are not text, or not at all; IFS is
\* set if it is not inherited.
Inherited == {Absent, [Absent EXCEPT !.exported = TRUE, !.opaque = TRUE]} \cup
  {[Absent EXCEPT !.exported = TRUE, !.var = v, !.env = v] : v \in Vals} \cup
  {[Absent EXCEPT !.var = v] : v \in Vals}

Init == /\ b \in [Names -> Inherited]
        /\ scopes = <<>> /\ calls = 0 /\ prefix = None /\ overlay = None
        /\ entered = 0 /\ broken = FALSE /\ crossed = FALSE

Next ==
  \/ \E n \in Names :
       \/ Assign(n) \/ SpecialPrefix(n) \/ SetVar(n) \/ Export(n) \/ Readonly(n)
       \/ UnsetName(n) \/ Declare(n) \/ Local(n)
  \/ \E S \in SUBSET Names : Call(S) \/ BuiltinStart(S)
  \/ \E S, D \in SUBSET Names : ChangeDirectory(S, D)
  \/ FunctionReturn \/ BuiltinEnd

Spec == Init /\ [][Next]_vars

-----------------------------------------------------------------------------
\* Every variable has its type, and every call in progress has its scope.
TypeOK ==
  /\ b \in [Names -> Bindings]
  /\ \A i \in DOMAIN scopes : scopes[i].id \in Ids /\ scopes[i].saved \in Saved
  /\ calls \in 0..Len(scopes)
  /\ prefix = None \/ (prefix.id \in Ids /\ prefix.saved \in Saved /\ prefix.ran \in BOOLEAN)
  /\ overlay = None \/ (overlay.saved \in Saved /\ overlay.owner \in [DOMAIN overlay.saved -> Ids])
  /\ entered \in 0..MaxCalls
  /\ broken \in BOOLEAN /\ crossed \in BOOLEAN

Consistent(x) ==
  /\ x.env = IF x.exported THEN x.var ELSE NoVal
  /\ x.opaque => x.exported /\ x.var = NoVal
  /\ x.arr = NoVal \/ (x.var = NoVal /\ x.assoc = NoVal)
  /\ x.var = NoVal \/ x.assoc = NoVal

\* A child process is given exactly the values of the exported variables
\* (configure_child_env), whatever mix of assignments, arrays, scopes and
\* project environments went before, and a name is one kind of variable.
ChildEnvironment == \A n \in Names : Consistent(b[n])

\* The bindings of frame i: the current one, or what the next frame inside
\* that shadows the name has saved.
FrameBinding(i, n) ==
  LET inner == {j \in DOMAIN Shadows : j > i /\ n \in DOMAIN Shadows[j].saved}
  IN IF inner = {} THEN b[n]
     ELSE Shadows[CHOOSE j \in inner : \A k \in inner : j <= k].saved[n]

Frames == [i \in 1..(Len(Shadows) + 1) |->
             [n \in IF i = 1 THEN Names ELSE DOMAIN Shadows[i - 1].saved |->
                FrameBinding(i - 1, n)]]

\* Saving and restoring gives dynamic scoping, with complete bindings
\* (declare_local, leave_function_scope, saved_assignments): a local or prefix
\* assignment is gone when its call ends and nothing else is, and readonly
\* bindings keep their content.  After a failed redirection of a function call,
\* or a local that shadows a prefix of its own command, nothing is claimed.
Scoping == INSTANCE VarScopes WITH
  frames <- Frames,
  project <- IF overlay = None THEN {} ELSE DOMAIN overlay.saved
ImplementsScopes == Scoping!Spec

\* Values stay in the frame they were written for: no local, prefix assignment
\* or project value outlives it, unless a project environment was undone in
\* another scope than it was applied in.
NoEscape ==
  ~broken /\ ~crossed =>
    \A i \in DOMAIN Frames : \A n \in DOMAIN Frames[i] :
      \/ Frames[i][n].born = IF i = 1 THEN 0 ELSE FrameIds[i - 1]
      \/ Frames[i][n].born = Project /\ overlay # None /\ n \in DOMAIN overlay.saved

\* The states a run follows: nothing is claimed of scopes after a defect that
\* broken records.
Unbroken == ~broken
=============================================================================
