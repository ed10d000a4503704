----------------------------- MODULE MCSession ------------------------------
(***************************************************************************)
(* One TLC instance for what an interactive session keeps: the fold and    *)
(* replay of its journal, the journal files of several shells, the         *)
(* interception and confinement of its commands, the line being edited, a  *)
(* file its agent tools patch and the traces of its commands.  A behaviour *)
(* is a behaviour of one of them; the variables of the others keep an      *)
(* initial or a fixed value.                                               *)
(***************************************************************************)
EXTENDS SessionFold, SessionJournal, Patch, Interception, TraceStore, TLC

VARIABLES
  which,   \* the component this behaviour is about
  line, accumulated, menu, hist_pos, stash, ghost, picker, result, keys, draft, opened, entered

editorVars == <<line, accumulated, menu, hist_pos, stash, ghost, picker, result, keys, draft, opened, entered>>
allVars == <<which, vars, journalVars, interceptVars, editorVars, patchVars, traceVars>>

Entry(command, cwd, code, age) == [command |-> command, cwd |-> cwd, code |-> code, age |-> age]
C(v, k) == [value |-> v, kind |-> k, append_space |-> k \notin {"dir", "name"}]
Editor == INSTANCE Editor WITH
  LowerOf <- "A" :> "a", Wrappers <- {<<"r">>}, Hour <- 1, Day <- 2,
  Typed <- {"a", " ", "/", "|"},
  History <- <<Entry(<<"a", "=", "b">>, "d", 0, 2), Entry(<<"a", " ", "|", "nl", "b">>, "d", 1, 1)>>,
  CommandNames <- <<<<"a", "b">>, <<"a", "b", "a">>>>, VariableNames <- <<<<"a">>>>,
  Listing <- <<>> :> <<C(<<"a", "/">>, "dir"), C(<<"a", "a">>, "file")>>
             @@ <<"a", "/">> :> <<C(<<"b">>, "file"), C(<<"b", "a">>, "file")>>,
  NameTakers <- {<<"x">>}, DirTakers <- {<<"a">>}, Specs <- <<"a", "b">> :> <<C(<<"a">>, "command")>>,
  Cols <- 5, MaxKeys <- 4, Initial <- {<<>>, <<"a", "b", " ">>, <<"a", "=">>, <<"b">>}

Hunk(n) == [k |-> "hunk", start |-> n]
Del(l) == [k |-> "del", l |-> l]
Add(l) == [k |-> "add", l |-> l]
Terminated(ls) == [lines |-> ls, ended |-> TRUE]
PatchDiffs == {<<Hunk(1), Del("a"), Add("b")>>}
PatchFirst == [text |-> Terminated(<<"a">>), mode |-> "644"]
PatchSaves == {Terminated(<<"a">>)}

Most == "out" :> 2 @@ "err" :> 1
\* The state of SessionFold in the behaviours of the other components.
Bare == [vars |-> [k \in Keys |-> NoVal], env |-> [k \in Keys |-> NoVal], exported |-> {},
         names |-> [n \in Names |-> NoVal], opts |-> [o \in Opts |-> FALSE], cwd |-> CHOOSE d \in Dirs : TRUE]
NoFold == base = Bare /\ Begin /\ dead = NoDeltas /\ edits = 0
NoInterception ==
  /\ record = <<>> /\ confine = <<>> /\ listed = <<>> /\ frame = <<>> /\ made = 0
  /\ env = 0 /\ before = 0 /\ over = FALSE /\ phase = "startup"
NoEditor ==
  /\ line = 0 /\ accumulated = 0 /\ menu = 0 /\ hist_pos = 0 /\ stash = 0 /\ ghost = 0 /\ picker = 0
  /\ result = 0 /\ keys = 0 /\ draft = 0 /\ opened = 0 /\ entered = 0
NoTraces ==
  /\ dir = {} /\ clock = 0 /\ spools = {} /\ tshells = [p \in TraceShells |-> Fresh]
  /\ prunes = [p \in TraceShells |-> NoTally] /\ tfaults = 0

SessionInit ==
  /\ JournalInit /\ PatchInit
  /\ \/ which = "fold" /\ Init /\ NoInterception /\ NoEditor /\ NoTraces
     \/ which \in {"journal", "patch"} /\ NoFold /\ NoInterception /\ NoEditor /\ NoTraces
     \/ which = "interception" /\ NoFold /\ InterceptInit /\ NoEditor /\ NoTraces
     \/ which = "editor" /\ NoFold /\ NoInterception /\ Editor!Init /\ NoTraces
     \/ which = "traces" /\ NoFold /\ NoInterception /\ NoEditor /\ TraceInit

\* The shells that journal are interchangeable, and so are those that trace: it is
\* enough to follow the behaviours in which they begin in one order.
JournalOrder == SetToSeq(Shells)
TraceOrder == SetToSeq(TraceShells)
InTurn(order, Begun(_)) == \A i, j \in DOMAIN order : i < j /\ Begun(order[j]) => Begun(order[i])
JournalsInTurn == InTurn(JournalOrder, LAMBDA s : pc[s] # "none")
TracesInTurn == InTurn(TraceOrder, LAMBDA p : tshells[p] # Fresh)

SessionNext ==
  \/ which = "fold" /\ Next /\ UNCHANGED <<which, journalVars, interceptVars, editorVars, patchVars, traceVars>>
  \/ which = "journal" /\ JournalNext /\ JournalsInTurn' /\ UNCHANGED <<which, vars, interceptVars, editorVars, patchVars, traceVars>>
  \/ which = "interception" /\ InterceptNext /\ UNCHANGED <<which, vars, journalVars, editorVars, patchVars, traceVars>>
  \/ which = "editor" /\ Editor!Next /\ UNCHANGED <<which, vars, journalVars, interceptVars, patchVars, traceVars>>
  \/ which = "patch" /\ PatchNext /\ UNCHANGED <<which, vars, journalVars, interceptVars, editorVars, traceVars>>
  \/ which = "traces" /\ TraceNext /\ TracesInTurn' /\ UNCHANGED <<which, vars, journalVars, interceptVars, editorVars, patchVars>>

SessionSpec == SessionInit /\ [][SessionNext]_allVars

-----------------------------------------------------------------------------
\* No key loses text the user typed (Editor.tla, EditorKeepsText).
EditorKeepsText == which = "editor" => Editor!EditorKeepsText
=============================================================================
