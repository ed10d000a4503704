------------------------------ MODULE Executor ------------------------------
(***************************************************************************)
(* How agsh runs a line: command lists, if, loops, case, functions,        *)
(* sourced files, subshells and trap handlers, and how exit, return,       *)
(* break, continue, errexit, errors and signals leave them                 *)
(* (crates/agsh-exec/src/executor.rs, state.rs, builtins.rs, and the main  *)
(* loop of crates/agsh/src/main.rs).                                       *)
(*                                                                         *)
(* The executor is a recursive function over the source text.  Here its    *)
(* calls in progress are the frames of `stack` and the result a call hands *)
(* to its caller is `val`.  A program is not fixed beforehand: every frame *)
(* picks its next command, operator or arm when it gets there, so one      *)
(* behaviour is one run of some program, and the only bound on programs is *)
(* the executor's own nesting limit.                                       *)
(*                                                                         *)
(* Exit statuses are "ok" (0) and "fail" (not 0).  A recoverable error     *)
(* ("io": failed redirection, missing command) becomes a status at the     *)
(* next pipeline item; a fatal one ("fatal": parse error, nesting limit)   *)
(* unwinds to the line.                                                    *)
(***************************************************************************)
EXTENDS Integers, Sequences, FiniteSets

CONSTANTS
  MaxExecDepth,   \* MAX_EXEC_DEPTH
  MaxItems,       \* bound: items of a for loop, further arms of a case or an if,
                  \* background items in a row
  MaxScopes,      \* bound: function scopes that failed redirections leave open
  Vocabularies    \* sets of commands, each the ones some programs are made of

ASSUME ExecutorAssumption ==
  /\ MaxExecDepth \in Nat \ {0} /\ MaxItems \in Nat /\ MaxScopes \in Nat

VARIABLES
  words,        \* the commands this behaviour's program is made of
  interactive,  \* prompt loop, or one script
  phase,        \* main: "prompt", "line", "ending", "exitTrap", "gone"
  sh,           \* ShellState
  stack,        \* calls in progress, the innermost last
  val,          \* what the last call returned, "none" while one is running
  interrupt,    \* the interrupt flag, shared by all clones of the state
  signal        \* the pending flag of the INT trap

vars == <<words, interactive, phase, sh, stack, val, interrupt, signal>>

Statuses == {"ok", "fail"}
Graphs == {"single", "list"}
Loops == {"while", "until", "for", "cfor", "select"}
Conditions == {"ERR", "INT", "EXIT"}

\* The control fields of ShellState, and three history fields the code does
\* not have: leak (a request missed the call it was meant for, or a scope was
\* left open, see LoopSkipped, ReturnSkipped, EnterLoop and RunFunction),
\* wantErr (an ERR trap was set outside of ERR handlers) and target (the stack
\* index of the outermost loop the pending break or continue is meant for).
States == [shouldExit : BOOLEAN, ret : Statuses \cup {"none"},
           loopKind : {"none", "break", "continue"}, levels : Nat,
           loopDepth : Nat, scopes : Nat, sources : Nat, execDepth : Nat,
           errexit : BOOLEAN, traps : SUBSET Conditions,
           leak : BOOLEAN, wantErr : BOOLEAN, target : Nat]

Fresh == [shouldExit |-> FALSE, ret |-> "none", loopKind |-> "none",
          levels |-> 0, loopDepth |-> 0, scopes |-> 0, sources |-> 0,
          execDepth |-> 0, errexit |-> FALSE, traps |-> {},
          leak |-> FALSE, wantErr |-> FALSE, target |-> 0]

\* A call in progress: its kind, where it is, the status it would return, the
\* items or arms left, and the parent's state while a subshell runs on a clone.
Frame(k, pc) == [k |-> k, pc |-> pc, st |-> "ok", n |-> 0, saved |-> Fresh]
Many(k, pc) == [Frame(k, pc) EXCEPT !.n = MaxItems]

Top == stack[Len(stack)]
Below == SubSeq(stack, 1, Len(stack) - 1)
Replace(f) == Append(Below, f)
TopIs(ks, pc) == stack # <<>> /\ Top.k \in ks /\ Top.pc = pc
Returned(ks, pc) == TopIs(ks, pc) /\ val # "none"
Min(a, b) == IF a < b THEN a ELSE b

-----------------------------------------------------------------------------
(* ShellState *)

LoopRequested(s) == s.loopKind # "none"
\* Mutant: the interrupt is forgotten.
NoInterruptMutant(s) == s.shouldExit \/ s.ret # "none"
\* The conditions after which a list, a file or a loop stops.
Stopping(s) == s.shouldExit \/ s.ret # "none" \/ interrupt
ListStopping(s) == Stopping(s) \/ LoopRequested(s)

EnterExec(s) == [s EXCEPT !.execDepth = @ + 1]
LeaveExec(s) == [s EXCEPT !.execDepth = @ - 1]
EnterLoop(s) == [s EXCEPT !.loopDepth = @ + 1, !.leak = @ \/ LoopRequested(s)]
LeaveLoop(s) == [s EXCEPT !.loopDepth = @ - 1]
EnterScope(s) == [s EXCEPT !.scopes = @ + 1]
LeaveScope(s) == [s EXCEPT !.scopes = @ - 1]
EnterSource(s) == [s EXCEPT !.sources = @ + 1]
LeaveSource(s) == [s EXCEPT !.sources = @ - 1]
SetTrap(s, c) == [s EXCEPT !.traps = @ \cup {c}]
ClearTrap(s, c) == [s EXCEPT !.traps = @ \ {c}]

LoopFrames(stk) == {i \in DOMAIN stk : stk[i].k \in Loops}
\* The loop a request for n levels is meant for.
TargetLoop(stk, n) ==
  CHOOSE i \in LoopFrames(stk) : Cardinality({j \in LoopFrames(stk) : j >= i}) = n

RequestLoopControl(s, kind, n) ==
  LET levels == Min(n, s.loopDepth)
  IN [s EXCEPT !.loopKind = kind, !.levels = levels,
               !.target = TargetLoop(stack, levels)]

\* Mutant: the levels are not counted down.
NoCountMutant(s) ==
  IF s.levels <= 1
  THEN [s EXCEPT !.loopKind = "none", !.levels = 0, !.target = 0]
  ELSE s

\* One loop has seen the request.
HandleLoopControl(s) ==
  IF s.levels <= 1
  THEN [s EXCEPT !.loopKind = "none", !.levels = 0, !.target = 0]
  ELSE [s EXCEPT !.levels = @ - 1]

\* Mutant: the return request is read but stays.
PeekReturnMutant(s) == s
TakeReturn(s) == [s EXCEPT !.ret = "none"]
ReturnStatus(s, v) == IF s.ret # "none" THEN s.ret ELSE v

\* A loop or a function is left without having served the request for it.
LoopSkipped(s) == [s EXCEPT !.leak = @ \/ LoopRequested(s)]
ReturnSkipped(s) == [s EXCEPT !.leak = @ \/ s.ret # "none"]

-----------------------------------------------------------------------------
(* Running a source text: empty text, a parse error, the nesting limit, or a *)
(* graph of one item or of several.                                          *)
Run(stk, s) ==
  \/ /\ val' \in {"ok", "fatal"}
     /\ stack' = stk /\ sh' = s
  \/ /\ s.execDepth < MaxExecDepth
     /\ \E k \in Graphs : stack' = Append(stk, Many(k, "item"))
     /\ sh' = EnterExec(s) /\ val' = "none"

\* The innermost call returns v and leaves the shell in state s.
Return(v, s) == stack' = Below /\ sh' = s /\ val' = v

\* The call returned an error: its caller is left as well.
Failed == val \in {"io", "fatal"}

Flip(v) == IF v = "ok" THEN "fail" ELSE "ok"
\* run_pipeline_item: recoverable errors become a status, `!` inverts one.
ItemStatuses == CASE val = "io" -> {"fail"}
                  [] val \in Statuses -> {val, Flip(val)}
                  [] OTHER -> {}

AtItem == TopIs(Graphs, "item") /\ val = "none"
ItemStarted == Replace([Top EXCEPT !.pc = "done", !.n = 0])
shellOnly == UNCHANGED <<words, interactive, phase, interrupt, signal>>

-----------------------------------------------------------------------------
(* Simple commands *)

\* A command that only has a status, or fails.
Plain == /\ AtItem
         /\ val' \in {"ok", "fail", "io", "fatal"} \cap words
         /\ stack' = ItemStarted /\ UNCHANGED sh /\ shellOnly

Builtin(c, v, s) == /\ AtItem /\ c \in words
                    /\ stack' = ItemStarted /\ val' = v /\ sh' = s /\ shellOnly

Exit == \E v \in Statuses : Builtin("exit", v, [sh EXCEPT !.shouldExit = TRUE])

ReturnBuiltin ==
  \/ /\ sh.scopes > 0 \/ sh.sources > 0
     /\ \E v \in Statuses : Builtin("return", v, [sh EXCEPT !.ret = v])
  \/ /\ sh.scopes = 0 /\ sh.sources = 0
     /\ Builtin("return", "fail", sh)

LoopControl ==
  \E kind \in {"break", "continue"}, n \in 1..2 :
    Builtin(kind, "ok", IF sh.loopDepth = 0 THEN sh
                        ELSE RequestLoopControl(sh, kind, n))

SetErrexit == \E on \in BOOLEAN : Builtin("set-e", "ok", [sh EXCEPT !.errexit = on])

InErrHandler == \E i \in DOMAIN stack : stack[i].k = "list" /\ stack[i].pc = "err"

Trap == \E c \in Conditions, on \in BOOLEAN :
  LET s == IF on THEN SetTrap(sh, c) ELSE ClearTrap(sh, c)
  IN Builtin("trap" \o c, "ok",
             IF c = "ERR" /\ ~InErrHandler THEN [s EXCEPT !.wantErr = on] ELSE s)

-----------------------------------------------------------------------------
(* Command lists *)

\* A graph of one item: no list, no traps.
SingleDone == /\ Returned({"single"}, "done")
              /\ \/ val = "fatal" /\ Return("fatal", LeaveExec(sh))
                 \/ \E r \in ItemStatuses : Return(r, LeaveExec(sh))
              /\ shellOnly

Operators == {"always", "and", "or", "end"}
ShouldRun(op, st) == \/ op = "always"
                     \/ op = "and" /\ st = "ok"
                     \/ op = "or" /\ st = "fail"

\* On to the next item that should run: the one after op or, past skipped ones,
\* a later one; or the list ends with status st.
Advance(f, op, st, s) ==
  \/ /\ op # "end"
     /\ stack' = Replace(f) /\ sh' = s /\ val' = "none"
  \/ /\ ~ShouldRun(op, st)
     /\ Return(st, LeaveExec(s))

\* A failed item that is no operand of && or || ends the list under errexit.
ErrexitOrAdvance(f, op, st, s) ==
  IF s.errexit /\ st = "fail" /\ op \notin {"and", "or"}
  THEN Return(st, LeaveExec(s))
  ELSE Advance(f, op, st, s)

\* The rest of a list's loop body once the signal traps have fired.
Boundary(st) ==
  \/ ListStopping(sh) /\ Return(st, LeaveExec(sh))
  \/ /\ ~ListStopping(sh)
     /\ \E op \in Operators :
          IF st = "fail" /\ op \notin {"and", "or"} /\ "ERR" \in sh.traps
          THEN Run(Replace([Top EXCEPT !.pc = "err", !.st = st]), ClearTrap(sh, "ERR"))
          ELSE ErrexitOrAdvance(Many("list", "item"), op, st, sh)

\* An item is done: fire_signal_traps, then the boundary.
ListItemDone ==
  /\ Returned({"list"}, "done")
  /\ \/ /\ val = "fatal" /\ Return("fatal", LeaveExec(sh))
        /\ UNCHANGED signal
     \/ \E r \in ItemStatuses :
          /\ signal' = FALSE
          /\ IF signal /\ "INT" \in sh.traps
             THEN Run(Replace([Top EXCEPT !.pc = "sig", !.st = r]), sh)
             ELSE Boundary(r)
  /\ UNCHANGED <<words, interactive, phase, interrupt>>

\* The handler of a trapped signal is done: the interrupt is cleared.  An error
\* in it ends the list, and what the item had requested is left pending.
SignalHandled ==
  /\ Returned({"list"}, "sig")
  /\ \/ /\ Failed /\ Return(val, LeaveExec(sh))
        /\ UNCHANGED interrupt
     \/ /\ ~Failed /\ interrupt' = FALSE
        /\ stack' = Replace([Top EXCEPT !.pc = "handled"])
        /\ val' = "none" /\ UNCHANGED sh
  /\ UNCHANGED <<words, interactive, phase, signal>>

AfterSignal == /\ TopIs({"list"}, "handled") /\ val = "none"
               /\ Boundary(Top.st) /\ shellOnly

\* Whatever the ERR handler did, and if it failed, the trap is put back.  What
\* the handler requested is not looked at before the next item has run; that
\* item is marked by its status "fail".
ErrHandled ==
  /\ Returned({"list"}, "err")
  /\ \E op \in {"always", "end"} :
       ErrexitOrAdvance([Many("list", "item") EXCEPT !.st = "fail"], op, Top.st,
                        SetTrap(sh, "ERR"))
  /\ shellOnly

\* `item &` is started and the list goes on without looking at anything, or it
\* cannot be started and the error ends the list.
Background ==
  /\ TopIs({"list"}, "item") /\ val = "none" /\ "background" \in words
  /\ Top.n > 0
  /\ \/ \E op \in Operators : Advance([Top EXCEPT !.n = @ - 1], op, "ok", sh)
     \/ \E error \in {"io", "fatal"} : Return(error, LeaveExec(sh))
  /\ shellOnly

-----------------------------------------------------------------------------
(* Compound commands.  Each starts as an item of a graph; its own            *)
(* redirections are opened first and may fail.                               *)

Start(k) == AtItem /\ k \in words
RedirectionFails(s) == val' \in {"io", "fatal"} /\ stack' = ItemStarted /\ sh' = s

RunIf == /\ Start("if")
         /\ \/ RedirectionFails(sh)
            \/ Run(Append(ItemStarted, Many("if", "cond")), sh)
         /\ shellOnly

\* After a condition: the body, the next condition, the else part or nothing.
\* A pending return is not looked at.
IfCondition ==
  /\ Returned({"if"}, "cond")
  /\ \/ Failed /\ Return(val, sh)
     \/ /\ ~Failed
        /\ sh.shouldExit \/ LoopRequested(sh)
        /\ Return(val, sh)
     \/ /\ ~Failed /\ ~sh.shouldExit /\ ~LoopRequested(sh)
        /\ \/ Run(Replace(Frame("if", "body")), sh)
           \/ /\ val = "fail" /\ Top.n > 0
              /\ Run(Replace([Top EXCEPT !.n = @ - 1]), sh)
           \/ val = "fail" /\ Return("ok", sh)
  /\ shellOnly

\* What is left of an if after its body, and a brace group.
PassOn == /\ Returned({"if"}, "body") \/ Returned({"brace"}, "body")
          /\ Return(val, sh) /\ shellOnly

RunBrace == /\ Start("brace")
            /\ \/ RedirectionFails(sh)
               \/ Run(Append(ItemStarted, Frame("brace", "body")), sh)
            /\ shellOnly

\* The first arm that matches, if one does; n arms may follow it.
RunCase == /\ Start("case")
           /\ \/ RedirectionFails(sh)
              \/ val' = "ok" /\ stack' = ItemStarted /\ UNCHANGED sh
              \/ Run(Append(ItemStarted, Many("case", "arm")), sh)
           /\ shellOnly

\* `;;` ends the case; `;&`, or `;;&` before a match, runs another arm whatever
\* the first one requested.
CaseArm ==
  /\ Returned({"case"}, "arm")
  /\ \/ Return(val, sh)
     \/ /\ ~Failed /\ Top.n > 0
        /\ Run(Replace([Top EXCEPT !.n = @ - 1]), sh)
  /\ shellOnly

\* A subshell works on a clone of the state.
RunSubshell == /\ Start("subshell")
               /\ \/ RedirectionFails(sh)
                  \/ Run(Append(ItemStarted, [Frame("subshell", "body") EXCEPT !.saved = sh]), sh)
               /\ shellOnly

SubshellDone == /\ Returned({"subshell"}, "body")
                /\ Return(val, Top.saved) /\ shellOnly

\* A function: positional parameters and a scope, prefix assignments, then the
\* redirections, whose failure returns before the scope is left.
RunFunction ==
  /\ Start("function")
  /\ \/ /\ sh.scopes < MaxScopes
        /\ RedirectionFails([EnterScope(sh) EXCEPT !.leak = TRUE])
     \/ /\ stack' = ItemStarted /\ val' = ReturnStatus(sh, "fail")
        /\ sh' = TakeReturn(LeaveScope(EnterScope(sh)))
     \/ Run(Append(ItemStarted, Frame("function", "body")), EnterScope(sh))
  /\ shellOnly

FunctionDone ==
  /\ Returned({"function"}, "body")
  /\ \/ Failed /\ Return(val, ReturnSkipped(LeaveScope(sh)))
     \/ ~Failed /\ Return(ReturnStatus(sh, val), TakeReturn(LeaveScope(sh)))
  /\ shellOnly

\* eval and source run their lines one after the other.
RunSource ==
  /\ \/ /\ Start("eval")
        /\ Run(Append(ItemStarted, Frame("eval", "line")), sh)
     \/ /\ Start("source")
        /\ \/ val' = "fail" /\ stack' = ItemStarted /\ UNCHANGED sh
           \/ Run(Append(ItemStarted, Frame("source", "line")), EnterSource(sh))
  /\ shellOnly

LineStops == ListStopping(sh) \/ (sh.errexit /\ val = "fail")

SourceLine ==
  /\ Returned({"eval", "source"}, "line")
  /\ \/ /\ ~Failed /\ ~LineStops
        /\ Run(stack, sh)
     \/ /\ Top.k = "eval" /\ Return(val, sh)
     \/ /\ Top.k = "source"
        /\ IF Failed THEN Return(val, ReturnSkipped(LeaveSource(sh)))
           ELSE Return(ReturnStatus(sh, val), TakeReturn(LeaveSource(sh)))
  /\ shellOnly

-----------------------------------------------------------------------------
(* Loops *)

\* The loop returns v.
LeaveWith(v, s) == Return(v, LeaveLoop(s))
Fails == Failed /\ LeaveWith(val, LoopSkipped(sh))

\* Mutant: a failed redirection returns before the loop is left.
LoopNotLeftMutant ==
  /\ \E k \in {"while", "until"} :
       /\ Start(k)
       /\ \/ RedirectionFails(EnterLoop(sh))
          \/ Run(Append(ItemStarted, Frame(k, "cond")), EnterLoop(sh))
  /\ shellOnly

RunWhile == /\ \E k \in {"while", "until"} :
                 /\ Start(k)
                 /\ \/ RedirectionFails(LeaveLoop(EnterLoop(sh)))
                    \/ Run(Append(ItemStarted, Frame(k, "cond")), EnterLoop(sh))
            /\ shellOnly

ShouldRunBody(k, v) == v = IF k = "while" THEN "ok" ELSE "fail"

\* After the condition.  Stopping comes first: a break or continue requested
\* there is then left to the loop around this one, or to nobody.
WhileCondition ==
  /\ Returned({"while", "until"}, "cond")
  /\ \/ Fails
     \/ /\ ~Failed /\ Stopping(sh)
        /\ LeaveWith(val, LoopSkipped(sh))
     \/ /\ ~Failed /\ ~Stopping(sh) /\ LoopRequested(sh)
        /\ IF sh.loopKind = "break"
           THEN LeaveWith(Top.st, HandleLoopControl(sh))
           ELSE Run(stack, HandleLoopControl(sh))
     \/ /\ ~Failed /\ ~Stopping(sh) /\ ~LoopRequested(sh)
        /\ IF ShouldRunBody(Top.k, val)
           THEN Run(Replace([Top EXCEPT !.pc = "body"]), sh)
           ELSE LeaveWith(Top.st, sh)
  /\ shellOnly

BodyStops(s) == Stopping(s) \/ (s.errexit /\ val = "fail")

\* After the body.  A break or continue is served first.
WhileBody ==
  /\ Returned({"while", "until"}, "body")
  /\ LET again(s) == Run(Replace([Top EXCEPT !.pc = "cond", !.st = val]), s)
     IN \/ Fails
        \/ /\ ~Failed /\ LoopRequested(sh)
           /\ IF sh.loopKind = "break"
              THEN LeaveWith(val, HandleLoopControl(sh))
              ELSE again(HandleLoopControl(sh))
        \/ /\ ~Failed /\ ~LoopRequested(sh)
           /\ IF BodyStops(sh) THEN LeaveWith(val, sh) ELSE again(sh)
  /\ shellOnly

\* for over words and select over lines: the next iteration, or none is left,
\* or the variable is readonly.  A select reads on until its input ends or fails.
Iterate(stk, f, s) ==
  \/ f.k = "for" /\ f.n > 0 /\ Run(Append(stk, [f EXCEPT !.n = @ - 1]), s)
  \/ f.k = "select" /\ Run(Append(stk, f), s)
  \/ /\ stack' = stk /\ sh' = LeaveLoop(s)
     /\ val' \in {f.st, "fail"} \cup (IF f.k = "select" THEN {"io", "fatal"} ELSE {})

RunFor ==
  /\ \E k \in {"for", "select"} :
       /\ Start(k)
       /\ \/ RedirectionFails(LeaveLoop(EnterLoop(sh)))
          \/ Iterate(ItemStarted, [Many(k, "body") EXCEPT
                                !.st = IF k = "select" THEN "fail" ELSE "ok"], EnterLoop(sh))
  /\ shellOnly

ForBody ==
  /\ Returned({"for", "select"}, "body")
  /\ LET next(s) == Iterate(Below, [Top EXCEPT !.st = val], s)
     IN \/ Fails
        \/ /\ ~Failed /\ LoopRequested(sh)
           /\ IF sh.loopKind = "break"
              THEN LeaveWith(val, HandleLoopControl(sh))
              ELSE next(HandleLoopControl(sh))
        \/ /\ ~Failed /\ ~LoopRequested(sh)
           /\ IF BodyStops(sh) THEN LeaveWith(val, sh) ELSE next(sh)
  /\ shellOnly

\* for ((init; cond; step)): the expressions may fail, and a continue still
\* meets the stop conditions.
Arithmetic(stk, f, s) ==
  \/ Run(Append(stk, f), s)
  \/ stack' = stk /\ sh' = LeaveLoop(s) /\ val' \in {f.st, "fatal"}

RunArithmeticFor ==
  /\ Start("cfor")
  /\ \/ RedirectionFails(LeaveLoop(EnterLoop(sh)))
     \/ Arithmetic(ItemStarted, Frame("cfor", "body"), EnterLoop(sh))
  /\ shellOnly

ArithmeticForBody ==
  /\ Returned({"cfor"}, "body")
  /\ LET h == IF LoopRequested(sh) THEN HandleLoopControl(sh) ELSE sh
     IN \/ Fails
        \/ /\ ~Failed
           /\ IF sh.loopKind = "break" \/ BodyStops(h)
              THEN LeaveWith(val, h)
              ELSE Arithmetic(Below, [Top EXCEPT !.st = val], h)
  /\ shellOnly

-----------------------------------------------------------------------------
(* The main loop, and signals *)

Idle == stack = <<>> /\ val # "none"

\* A line is read and run; a script is one line.
ReadLine == /\ phase = "prompt" /\ phase' = "line"
            /\ Run(<<>>, sh)
            /\ UNCHANGED <<words, interactive, interrupt, signal>>

EndOfInput == /\ phase = "prompt" /\ interactive /\ phase' = "ending"
              /\ UNCHANGED <<words, interactive, sh, stack, val, interrupt, signal>>

LineDone == /\ phase = "line" /\ Idle
            /\ phase' = IF interactive /\ ~sh.shouldExit THEN "prompt" ELSE "ending"
            /\ interrupt' = IF interactive THEN FALSE ELSE interrupt
            /\ val' = "none"
            /\ UNCHANGED <<words, interactive, sh, stack, signal>>

\* run_exit_trap: the trap is removed, its action run as a line.
ExitTrap == /\ phase = "ending"
            /\ IF "EXIT" \in sh.traps
               THEN phase' = "exitTrap" /\ Run(<<>>, ClearTrap(sh, "EXIT"))
               ELSE phase' = "gone" /\ UNCHANGED <<sh, stack, val>>
            /\ UNCHANGED <<words, interactive, interrupt, signal>>

Gone == /\ phase = "exitTrap" /\ Idle
        /\ phase' = "gone"
        /\ UNCHANGED <<words, interactive, sh, stack, val, interrupt, signal>>

\* SIGINT arrives.  Both handlers only set a flag; the one of the trap exists
\* once a trap has been set.
Interrupt == /\ phase # "gone" /\ "SIGINT" \in words
             /\ interrupt' = TRUE
             /\ signal' \in IF "INT" \in sh.traps THEN {TRUE} ELSE {signal, TRUE}
             /\ UNCHANGED <<words, interactive, phase, sh, stack, val>>

-----------------------------------------------------------------------------
Init == /\ words \in Vocabularies
        /\ interactive \in BOOLEAN /\ phase = "prompt"
        /\ sh = Fresh /\ stack = <<>> /\ val = "none"
        /\ interrupt = FALSE /\ signal = FALSE

Simple == Plain \/ Exit \/ ReturnBuiltin \/ LoopControl \/ SetErrexit \/ Trap
ListStep == \/ SingleDone \/ ListItemDone \/ SignalHandled \/ AfterSignal
            \/ ErrHandled \/ Background
CompoundStep == \/ RunIf \/ IfCondition \/ PassOn \/ RunBrace \/ RunCase \/ CaseArm
                \/ RunSubshell \/ SubshellDone \/ RunFunction \/ FunctionDone
                \/ RunSource \/ SourceLine
LoopStep == \/ RunWhile \/ WhileCondition \/ WhileBody \/ RunFor \/ ForBody
            \/ RunArithmeticFor \/ ArithmeticForBody
MainStep == ReadLine \/ EndOfInput \/ LineDone \/ ExitTrap \/ Gone

Step == Simple \/ ListStep \/ CompoundStep \/ LoopStep \/ MainStep
Next == Step \/ Interrupt

Spec == Init /\ [][Next]_vars

\* The executor runs on, and commands end; signals may or may not come.
FairSpec == Spec /\ WF_vars(Step)

-----------------------------------------------------------------------------
Count(ks) == Cardinality({i \in DOMAIN stack : stack[i].k \in ks})

\* enter_exec, enter_loop, enter_source and enter_function_scope are undone on
\* every way out (errors, exits, returns, breaks, interrupts, failed
\* redirections of compounds) and across the clones of subshells: the counters
\* of ShellState are the calls in progress, never more than the executor allows.
\* The one way out that forgets is a function whose redirection fails.
CountersMatch ==
  /\ sh.execDepth = Count(Graphs) /\ sh.execDepth <= MaxExecDepth
  /\ sh.loopDepth = Count(Loops)
  /\ sh.sources = Count({"source"})
  /\ sh.leak \/ sh.scopes = Count({"function"})

\* A break n leaves exactly the n innermost loops, however many functions,
\* handlers and other calls lie between them: the levels still to go are the
\* loops in progress from the one it is meant for.
BreakExact ==
  sh.loopKind = "break" /\ ~sh.leak =>
    sh.levels = Cardinality({i \in LoopFrames(stack) : i >= sh.target})

\* When the prompt is back, no request is pending and no scope is open: the next
\* line starts like the first.  A request whose loop or function was left by an
\* error or an interrupt, and a function whose redirection failed, leave one.
\* And the ERR trap is away only while its handler runs: no error, exit or return
\* inside the handler loses it, and no handler starts inside another.
PromptClean ==
  /\ phase = "prompt" /\ ~sh.leak =>
       sh.ret = "none" /\ sh.loopKind = "none" /\ sh.scopes = 0 /\ sh.loopDepth = 0
  /\ ("ERR" \in sh.traps) = sh.wantErr \/ InErrHandler

\* A select whose body asked for another line, with the interrupt pending.
SelectContinues ==
  interrupt /\ Returned({"select"}, "body") /\ sh.loopKind = "continue" /\ ForBody

\* An interrupted line ends: whatever loops, functions and handlers it is in,
\* the prompt comes back, unless a trap handler clears the interrupt.  The one
\* way on is a select: it serves a continue before it looks at the interrupt
\* (run_select_invocation_inner), so one that is continued for ever over an input
\* that does not end is not left.
InterruptEndsLine ==
  \/ (interrupt /\ phase = "line") ~> (~interrupt \/ phase # "line")
  \/ []<><<SelectContinues>>_vars
=============================================================================
