--------------------------- MODULE ExecutorProofs ---------------------------
(***************************************************************************)
(* CountersMatch, BreakExact and PromptClean of Executor, for programs of  *)
(* any commands, any nesting limit and any number of items.                *)
(*                                                                         *)
(* Every action hands a stack and a state on to Run or Return, or stores   *)
(* them, so all three follow from one relation between a stack and a state *)
(* (Match), kept by pushing, replacing and popping a frame.  A subshell    *)
(* puts an earlier state back: it matches the stack below the subshell.    *)
(***************************************************************************)
EXTENDS Executor, FiniteSetTheorems, SequenceTheorems, TLAPS

Values == Statuses \cup {"none", "io", "fatal"}
Compounds == {"if", "brace", "case", "subshell", "function", "eval", "source"}
Kinds == Graphs \cup Loops \cup Compounds
Places == {"item", "done", "sig", "handled", "err", "cond", "body", "arm", "line"}
Frames == [k : Kinds, pc : Places, st : Values, n : Nat, saved : States]

CountIn(stk, ks) == Cardinality({i \in DOMAIN stk : stk[i].k \in ks})
LoopsFrom(stk, t) == Cardinality({i \in DOMAIN stk : stk[i].k \in Loops /\ i >= t})
Handles(f) == f.k = "list" /\ f.pc = "err"
Handling(stk) == \E i \in DOMAIN stk : Handles(stk[i])
Returnable(stk) == \E i \in DOMAIN stk : stk[i].k \in {"function", "source"}

\* enter_exec and leave_exec, enter_source and leave_source.
DepthsMatch(stk, s) ==
  /\ s.execDepth = CountIn(stk, Graphs) /\ s.execDepth <= MaxExecDepth
  /\ s.sources = CountIn(stk, {"source"})
\* enter_loop and leave_loop; a request is for loops in progress, a break for
\* those from its target on.
LoopsMatch(stk, s) ==
  /\ s.loopDepth = CountIn(stk, Loops)
  /\ s.loopKind # "none" /\ ~s.leak => 1 <= s.levels /\ s.levels <= CountIn(stk, Loops)
  /\ s.loopKind = "break" /\ ~s.leak => s.levels = LoopsFrom(stk, s.target)
\* The scopes; a return is for a function or a file in progress.
ScopesMatch(stk, s) ==
  /\ s.scopes >= CountIn(stk, {"function"})
  /\ ~s.leak => s.scopes = CountIn(stk, {"function"})
  /\ s.ret # "none" /\ ~s.leak => Returnable(stk)
\* The ERR trap is away only while a handler runs, which had it set.
TrapsMatch(stk, s) ==
  /\ Handling(stk) => s.wantErr = TRUE
  /\ ~Handling(stk) => (s.wantErr = TRUE <=> "ERR" \in s.traps)

Match(stk, s) ==
  DepthsMatch(stk, s) /\ LoopsMatch(stk, s) /\ ScopesMatch(stk, s) /\ TrapsMatch(stk, s)

SavedMatch(stk) ==
  \A i \in DOMAIN stk : stk[i].k = "subshell" => Match(SubSeq(stk, 1, i - 1), stk[i].saved)

Sound(stk, s) ==
  /\ stk \in Seq(Frames) /\ s \in States
  /\ Match(stk, s) /\ SavedMatch(stk)

ExecInv ==
  /\ Sound(stack, sh) /\ val \in Values
  /\ phase \in {"prompt", "ending", "gone"} => stack = << >>

-----------------------------------------------------------------------------
(* One frame more or less *)

\* The parts of a stack with one more frame.
LEMMA AppendFrame ==
  ASSUME NEW T \in Seq(Frames), NEW f \in Frames
  PROVE  /\ Append(T, f) \in Seq(Frames) /\ Len(T) \in Nat /\ DOMAIN T = 1..Len(T)
         /\ DOMAIN Append(T, f) = 1..(Len(T) + 1) /\ Append(T, f)[Len(T) + 1] = f
         /\ \A i \in 1..Len(T) : Append(T, f)[i] = T[i]
         /\ Len(Append(T, f)) = Len(T) + 1
OBVIOUS

\* A set of positions with or without the new one.
LEMMA OneMore ==
  ASSUME NEW l \in Nat, NEW X \in SUBSET (1..l)
  PROVE  /\ Cardinality(X) \in Nat /\ IsFiniteSet(X)
         /\ Cardinality(X \cup {l + 1}) = Cardinality(X) + 1
<1>1. IsFiniteSet(1..l) BY FS_Interval
<1>2. IsFiniteSet(X) BY <1>1, FS_Subset
<1>3. Cardinality(X) \in Nat BY <1>2, FS_CardinalityType
<1>4. l + 1 \notin X OBVIOUS
<1> QED BY <1>2, <1>3, <1>4, FS_AddElement

\* The frames of some kinds.
LEMMA CountAppend ==
  ASSUME NEW T \in Seq(Frames), NEW f \in Frames, NEW ks
  PROVE  /\ CountIn(T, ks) \in Nat
         /\ CountIn(Append(T, f), ks) = IF f.k \in ks THEN CountIn(T, ks) + 1 ELSE CountIn(T, ks)
<1> DEFINE A == Append(T, f)
           l == Len(T)
           X == {i \in DOMAIN T : T[i].k \in ks}
           Y == {i \in DOMAIN A : A[i].k \in ks}
<1>1. /\ l \in Nat /\ DOMAIN T = 1..l /\ DOMAIN A = 1..(l + 1) /\ A[l + 1] = f
      /\ \A i \in 1..l : A[i] = T[i]
  BY AppendFrame
<1> HIDE DEF A, l
<1>2. X \in SUBSET (1..l) BY <1>1
<1>3. Y = IF f.k \in ks THEN X \cup {l + 1} ELSE X
  <2>1. 1..(l + 1) = (1..l) \cup {l + 1} BY <1>1
  <2> QED BY <1>1, <2>1
<1>4. CountIn(T, ks) = Cardinality(X) /\ CountIn(A, ks) = Cardinality(Y) BY DEF CountIn
<1> HIDE DEF X, Y
<1>5. CountIn(T, ks) \in Nat BY <1>1, <1>2, <1>4, OneMore
<1>6. CountIn(A, ks) = IF f.k \in ks THEN CountIn(T, ks) + 1 ELSE CountIn(T, ks)
  BY <1>1, <1>2, <1>3, <1>4, OneMore
<1> QED BY <1>5, <1>6 DEF A

\* The loops from a position on.
LEMMA LoopsAppend ==
  ASSUME NEW T \in Seq(Frames), NEW f \in Frames, NEW t \in Nat
  PROVE  /\ LoopsFrom(T, t) \in Nat
         /\ LoopsFrom(Append(T, f), t) = IF f.k \in Loops /\ Len(T) + 1 >= t
                                         THEN LoopsFrom(T, t) + 1 ELSE LoopsFrom(T, t)
         /\ Len(T) + 1 < t => LoopsFrom(Append(T, f), t) = 0
<1> DEFINE A == Append(T, f)
           l == Len(T)
           X == {i \in DOMAIN T : T[i].k \in Loops /\ i >= t}
           Y == {i \in DOMAIN A : A[i].k \in Loops /\ i >= t}
<1>1. /\ l \in Nat /\ DOMAIN T = 1..l /\ DOMAIN A = 1..(l + 1) /\ A[l + 1] = f
      /\ \A i \in 1..l : A[i] = T[i]
  BY AppendFrame
<1> HIDE DEF A, l
<1>2. X \in SUBSET (1..l) BY <1>1
<1>3. Y = IF f.k \in Loops /\ l + 1 >= t THEN X \cup {l + 1} ELSE X
  <2>1. 1..(l + 1) = (1..l) \cup {l + 1} BY <1>1
  <2> QED BY <1>1, <2>1
<1>4. l + 1 < t => Y = {} BY <1>1
<1>5. LoopsFrom(T, t) = Cardinality(X) /\ LoopsFrom(A, t) = Cardinality(Y) BY DEF LoopsFrom
<1> HIDE DEF X, Y
<1>6. LoopsFrom(T, t) \in Nat BY <1>1, <1>2, <1>5, OneMore
<1>7. LoopsFrom(A, t) = IF f.k \in Loops /\ l + 1 >= t
                        THEN LoopsFrom(T, t) + 1 ELSE LoopsFrom(T, t)
  BY <1>1, <1>2, <1>3, <1>5, OneMore
<1>8. l + 1 < t => LoopsFrom(A, t) = 0 BY <1>4, <1>5, FS_EmptySet
<1> QED BY <1>6, <1>7, <1>8 DEF A, l

\* Handlers, and calls a return can be for.
LEMMA ExistsAppend ==
  ASSUME NEW T \in Seq(Frames), NEW f \in Frames
  PROVE  /\ Handling(Append(T, f)) <=> Handling(T) \/ Handles(f)
         /\ Returnable(Append(T, f)) <=> Returnable(T) \/ f.k \in {"function", "source"}
<1> DEFINE A == Append(T, f)
           l == Len(T)
<1>1. /\ l \in Nat /\ DOMAIN T = 1..l /\ DOMAIN A = 1..(l + 1) /\ A[l + 1] = f
      /\ \A i \in 1..l : A[i] = T[i]
  BY AppendFrame
<1>2. 1..(l + 1) = (1..l) \cup {l + 1} BY <1>1
<1> HIDE DEF A, l
<1>3. Handling(A) <=> Handling(T) \/ Handles(f) BY <1>1, <1>2 DEF Handling
<1>4. Returnable(A) <=> Returnable(T) \/ f.k \in {"function", "source"}
  BY <1>1, <1>2 DEF Returnable
<1> QED BY <1>3, <1>4 DEF A

\* The states that subshells will put back.
LEMMA SavedAppend ==
  ASSUME NEW T \in Seq(Frames), NEW f \in Frames
  PROVE  SavedMatch(Append(T, f)) <=> SavedMatch(T) /\ (f.k = "subshell" => Match(T, f.saved))
<1> DEFINE A == Append(T, f)
           l == Len(T)
<1>1. /\ l \in Nat /\ DOMAIN T = 1..l /\ DOMAIN A = 1..(l + 1) /\ A[l + 1] = f
      /\ \A i \in 1..l : A[i] = T[i]
  BY AppendFrame
<1>2. 1..(l + 1) = (1..l) \cup {l + 1} BY <1>1
<1>3. \A i \in 1..l : SubSeq(A, 1, i - 1) = SubSeq(T, 1, i - 1)
  OBVIOUS
<1>4. SubSeq(A, 1, l) = T OBVIOUS
<1>5. l + 1 - 1 = l BY <1>1
<1> HIDE DEF A, l
<1>6. ASSUME SavedMatch(A) PROVE SavedMatch(T) /\ (f.k = "subshell" => Match(T, f.saved))
  <2>1. ASSUME NEW i \in DOMAIN T, T[i].k = "subshell" PROVE Match(SubSeq(T, 1, i - 1), T[i].saved)
    <3>1. i \in DOMAIN A /\ A[i] = T[i] /\ SubSeq(A, 1, i - 1) = SubSeq(T, 1, i - 1)
      BY <1>1, <1>2, <1>3
    <3>2. Match(SubSeq(A, 1, i - 1), A[i].saved) BY <1>6, <2>1, <3>1, Zenon DEF SavedMatch
    <3> QED BY <3>1, <3>2, Zenon
  <2>2. ASSUME f.k = "subshell" PROVE Match(T, f.saved)
    <3> DEFINE m == l + 1
    <3>1. m \in DOMAIN A /\ A[m] = f /\ SubSeq(A, 1, m - 1) = T BY <1>1, <1>2, <1>4, <1>5
    <3> HIDE DEF m
    <3>2. Match(SubSeq(A, 1, m - 1), A[m].saved) BY <1>6, <2>2, <3>1, Zenon DEF SavedMatch
    <3> QED BY <3>1, <3>2, Zenon
  <2> QED BY <2>1, <2>2, Zenon DEF SavedMatch
<1>7. ASSUME SavedMatch(T), f.k = "subshell" => Match(T, f.saved) PROVE SavedMatch(A)
  <2> SUFFICES ASSUME NEW i \in DOMAIN A, A[i].k = "subshell"
               PROVE  Match(SubSeq(A, 1, i - 1), A[i].saved)
    BY DEF SavedMatch
  <2>1. CASE i \in 1..l
    <3>1. i \in DOMAIN T /\ A[i] = T[i] /\ SubSeq(A, 1, i - 1) = SubSeq(T, 1, i - 1)
      BY <1>1, <1>3, <2>1
    <3>2. Match(SubSeq(T, 1, i - 1), T[i].saved) BY <1>7, <3>1, Zenon DEF SavedMatch
    <3> QED BY <3>1, <3>2, Zenon
  <2>2. CASE i = l + 1
    <3>1. Match(T, f.saved) BY <1>1, <1>7, <2>2
    <3>2. SubSeq(A, 1, i - 1) = T /\ A[i] = f BY <1>1, <1>4, <1>5, <2>2
    <3> QED BY <3>1, <3>2, Zenon
  <2> QED BY <1>1, <1>2, <2>1, <2>2
<1> QED BY <1>6, <1>7 DEF A

\* The innermost call and the calls below it.
LEMMA TopAndBelow ==
  ASSUME stack \in Seq(Frames), stack # << >>
  PROVE  Top \in Frames /\ Below \in Seq(Frames) /\ stack = Append(Below, Top)
<1>1. Len(stack) \in Nat /\ Len(stack) >= 1 OBVIOUS
<1>2. Top \in Frames BY <1>1 DEF Top
<1>3. Below \in Seq(Frames) /\ Len(Below) = Len(stack) - 1
      /\ \A i \in 1..(Len(stack) - 1) : Below[i] = stack[i]
  <2> DEFINE m == Len(stack) - 1
  <2>1. m \in Nat /\ m - 1 + 1 = m /\ \A i \in 1..m : stack[i] \in Frames BY <1>1
  <2> HIDE DEF m
  <2>2. /\ SubSeq(stack, 1, m) \in Seq(Frames)
        /\ Len(SubSeq(stack, 1, m)) = IF 1 <= m THEN m - 1 + 1 ELSE 0
        /\ \A i \in 1..(m - 1 + 1) : SubSeq(stack, 1, m)[i] = stack[1 + i - 1]
    BY <2>1, SubSeqProperties
  <2>3. Below = SubSeq(stack, 1, m) BY DEF Below, m
  <2>4. Len(Below) = m /\ \A i \in 1..m : Below[i] = stack[i] BY <2>1, <2>2, <2>3
  <2> QED BY <2>2, <2>3, <2>4 DEF m
<1>4. stack = Append(Below, Top)
  <2>1. Append(Below, Top) \in Seq(Frames) /\ Len(Append(Below, Top)) = Len(stack)
    BY <1>1, <1>2, <1>3
  <2>2. \A i \in 1..Len(stack) : Append(Below, Top)[i] = stack[i]
    BY <1>1, <1>2, <1>3 DEF Top
  <2> QED BY <2>1, <2>2, SeqEqual
<1> QED BY <1>2, <1>3, <1>4

\* Which counts a frame of each kind adds to.
LEMMA KindFacts ==
  ASSUME NEW T \in Seq(Frames), NEW f \in Frames
  PROVE  /\ CountIn(T, Graphs) \in Nat /\ CountIn(T, Loops) \in Nat
         /\ CountIn(T, {"source"}) \in Nat /\ CountIn(T, {"function"}) \in Nat
         /\ CountIn(Append(T, f), Graphs) =
              IF f.k \in Graphs THEN CountIn(T, Graphs) + 1 ELSE CountIn(T, Graphs)
         /\ CountIn(Append(T, f), Loops) =
              IF f.k \in Loops THEN CountIn(T, Loops) + 1 ELSE CountIn(T, Loops)
         /\ CountIn(Append(T, f), {"source"}) =
              IF f.k = "source" THEN CountIn(T, {"source"}) + 1 ELSE CountIn(T, {"source"})
         /\ CountIn(Append(T, f), {"function"}) =
              IF f.k = "function" THEN CountIn(T, {"function"}) + 1 ELSE CountIn(T, {"function"})
BY CountAppend

-----------------------------------------------------------------------------
(* The methods of ShellState *)

SameDepths(s, t) == t.execDepth = s.execDepth /\ t.sources = s.sources
SameLoops(s, t) == /\ t.loopDepth = s.loopDepth /\ t.loopKind = s.loopKind
                   /\ t.levels = s.levels /\ t.target = s.target
SameScopes(s, t) == t.scopes = s.scopes /\ t.ret = s.ret
SameTraps(s, t) == t.traps = s.traps /\ t.wantErr = s.wantErr
SameLeak(s, t) == t.leak = s.leak

\* enter_exec and leave_exec.
LEMMA ExecFacts ==
  ASSUME NEW s \in States
  PROVE  /\ LET t == EnterExec(s) IN
              /\ t \in States /\ t.execDepth = s.execDepth + 1 /\ t.sources = s.sources
              /\ SameLoops(s, t) /\ SameScopes(s, t) /\ SameTraps(s, t) /\ SameLeak(s, t)
         /\ LET t == LeaveExec(s) IN
              /\ s.execDepth >= 1 => t \in States
              /\ t.execDepth = s.execDepth - 1 /\ t.sources = s.sources
              /\ SameLoops(s, t) /\ SameScopes(s, t) /\ SameTraps(s, t) /\ SameLeak(s, t)
<1>1. LET t == EnterExec(s) IN
        /\ t \in States /\ t.execDepth = s.execDepth + 1 /\ t.sources = s.sources
        /\ SameLoops(s, t) /\ SameScopes(s, t) /\ SameTraps(s, t) /\ SameLeak(s, t)
  BY DEF EnterExec, States, SameLoops, SameScopes, SameTraps, SameLeak
<1>2. LET t == LeaveExec(s) IN
        /\ s.execDepth >= 1 => t \in States
        /\ t.execDepth = s.execDepth - 1 /\ t.sources = s.sources
        /\ SameLoops(s, t) /\ SameScopes(s, t) /\ SameTraps(s, t) /\ SameLeak(s, t)
  BY DEF LeaveExec, States, SameLoops, SameScopes, SameTraps, SameLeak
<1> QED BY <1>1, <1>2

\* enter_source and leave_source.
LEMMA SourceFacts ==
  ASSUME NEW s \in States
  PROVE  /\ LET t == EnterSource(s) IN
              /\ t \in States /\ t.sources = s.sources + 1 /\ t.execDepth = s.execDepth
              /\ SameLoops(s, t) /\ SameScopes(s, t) /\ SameTraps(s, t) /\ SameLeak(s, t)
         /\ LET t == LeaveSource(s) IN
              /\ s.sources >= 1 => t \in States
              /\ t.sources = s.sources - 1 /\ t.execDepth = s.execDepth
              /\ SameLoops(s, t) /\ SameScopes(s, t) /\ SameTraps(s, t) /\ SameLeak(s, t)
<1>1. LET t == EnterSource(s) IN
        /\ t \in States /\ t.sources = s.sources + 1 /\ t.execDepth = s.execDepth
        /\ SameLoops(s, t) /\ SameScopes(s, t) /\ SameTraps(s, t) /\ SameLeak(s, t)
  BY DEF EnterSource, States, SameLoops, SameScopes, SameTraps, SameLeak
<1>2. LET t == LeaveSource(s) IN
        /\ s.sources >= 1 => t \in States
        /\ t.sources = s.sources - 1 /\ t.execDepth = s.execDepth
        /\ SameLoops(s, t) /\ SameScopes(s, t) /\ SameTraps(s, t) /\ SameLeak(s, t)
  BY DEF LeaveSource, States, SameLoops, SameScopes, SameTraps, SameLeak
<1> QED BY <1>1, <1>2

\* enter_function_scope and leave_function_scope.
LEMMA ScopeFacts ==
  ASSUME NEW s \in States
  PROVE  /\ LET t == EnterScope(s) IN
              /\ t \in States /\ t.scopes = s.scopes + 1 /\ t.ret = s.ret
              /\ SameDepths(s, t) /\ SameLoops(s, t) /\ SameTraps(s, t) /\ SameLeak(s, t)
         /\ LET t == LeaveScope(s) IN
              /\ s.scopes >= 1 => t \in States
              /\ t.scopes = s.scopes - 1 /\ t.ret = s.ret
              /\ SameDepths(s, t) /\ SameLoops(s, t) /\ SameTraps(s, t) /\ SameLeak(s, t)
<1>1. LET t == EnterScope(s) IN
        /\ t \in States /\ t.scopes = s.scopes + 1 /\ t.ret = s.ret
        /\ SameDepths(s, t) /\ SameLoops(s, t) /\ SameTraps(s, t) /\ SameLeak(s, t)
  BY DEF EnterScope, States, SameDepths, SameLoops, SameTraps, SameLeak
<1>2. LET t == LeaveScope(s) IN
        /\ s.scopes >= 1 => t \in States
        /\ t.scopes = s.scopes - 1 /\ t.ret = s.ret
        /\ SameDepths(s, t) /\ SameLoops(s, t) /\ SameTraps(s, t) /\ SameLeak(s, t)
  BY DEF LeaveScope, States, SameDepths, SameLoops, SameTraps, SameLeak
<1> QED BY <1>1, <1>2

\* take_return_requested, and a function or file left without it.
LEMMA ReturnFacts ==
  ASSUME NEW s \in States
  PROVE  /\ LET t == TakeReturn(s) IN
              /\ t \in States /\ t.scopes = s.scopes /\ t.ret = "none"
              /\ SameDepths(s, t) /\ SameLoops(s, t) /\ SameTraps(s, t) /\ SameLeak(s, t)
         /\ LET t == ReturnSkipped(s) IN
              /\ t \in States /\ (t.leak <=> s.leak \/ s.ret # "none")
              /\ SameDepths(s, t) /\ SameLoops(s, t) /\ SameScopes(s, t) /\ SameTraps(s, t)
<1>1. LET t == TakeReturn(s) IN
        /\ t \in States /\ t.scopes = s.scopes /\ t.ret = "none"
        /\ SameDepths(s, t) /\ SameLoops(s, t) /\ SameTraps(s, t) /\ SameLeak(s, t)
  BY DEF TakeReturn, States, SameDepths, SameLoops, SameTraps, SameLeak
<1>2. LET t == ReturnSkipped(s) IN
        /\ t \in States /\ (t.leak <=> s.leak \/ s.ret # "none")
        /\ SameDepths(s, t) /\ SameLoops(s, t) /\ SameScopes(s, t) /\ SameTraps(s, t)
  BY DEF ReturnSkipped, States, SameDepths, SameLoops, SameScopes, SameTraps
<1> QED BY <1>1, <1>2

\* enter_loop and leave_loop, and a loop left without serving a request.
LEMMA LoopFacts ==
  ASSUME NEW s \in States
  PROVE  /\ LET t == EnterLoop(s) IN
              /\ t \in States /\ t.loopDepth = s.loopDepth + 1
              /\ t.loopKind = s.loopKind /\ t.levels = s.levels /\ t.target = s.target
              /\ (t.leak <=> s.leak \/ s.loopKind # "none")
              /\ SameDepths(s, t) /\ SameScopes(s, t) /\ SameTraps(s, t)
         /\ LET t == LeaveLoop(s) IN
              /\ s.loopDepth >= 1 => t \in States
              /\ t.loopDepth = s.loopDepth - 1
              /\ t.loopKind = s.loopKind /\ t.levels = s.levels /\ t.target = s.target
              /\ SameDepths(s, t) /\ SameScopes(s, t) /\ SameTraps(s, t) /\ SameLeak(s, t)
         /\ LET t == LoopSkipped(s) IN
              /\ t \in States /\ (t.leak <=> s.leak \/ s.loopKind # "none")
              /\ SameDepths(s, t) /\ SameLoops(s, t) /\ SameScopes(s, t) /\ SameTraps(s, t)
<1>1. LET t == EnterLoop(s) IN
        /\ t \in States /\ t.loopDepth = s.loopDepth + 1
        /\ t.loopKind = s.loopKind /\ t.levels = s.levels /\ t.target = s.target
        /\ (t.leak <=> s.leak \/ s.loopKind # "none")
        /\ SameDepths(s, t) /\ SameScopes(s, t) /\ SameTraps(s, t)
  <2>1. /\ DOMAIN EnterLoop(s) = DOMAIN s /\ EnterLoop(s).loopDepth = s.loopDepth + 1
        /\ EnterLoop(s).leak = (s.leak \/ s.loopKind # "none")
    BY DEF EnterLoop, LoopRequested, States
  <2>2. EnterLoop(s) \in States
    <3> DEFINE x == s.leak \/ LoopRequested(s)
               u == [s EXCEPT !.loopDepth = @ + 1]
    <3>1. x \in BOOLEAN /\ u \in States BY DEF States
    <3>2. EnterLoop(s) = [u EXCEPT !.leak = x] BY DEF EnterLoop, States
    <3> HIDE DEF x, u
    <3> QED BY <3>1, <3>2 DEF States
  <2>3. LET t == EnterLoop(s) IN
          /\ t.loopKind = s.loopKind /\ t.levels = s.levels /\ t.target = s.target
          /\ SameDepths(s, t) /\ SameScopes(s, t) /\ SameTraps(s, t)
    BY DEF EnterLoop, States, SameDepths, SameScopes, SameTraps
  <2> QED BY <2>1, <2>2, <2>3
<1>2. LET t == LeaveLoop(s) IN
        /\ s.loopDepth >= 1 => t \in States
        /\ t.loopDepth = s.loopDepth - 1
        /\ t.loopKind = s.loopKind /\ t.levels = s.levels /\ t.target = s.target
        /\ SameDepths(s, t) /\ SameScopes(s, t) /\ SameTraps(s, t) /\ SameLeak(s, t)
  BY DEF LeaveLoop, States, SameDepths, SameScopes, SameTraps, SameLeak
<1>3. LET t == LoopSkipped(s) IN
        /\ t \in States /\ (t.leak <=> s.leak \/ s.loopKind # "none")
        /\ SameDepths(s, t) /\ SameLoops(s, t) /\ SameScopes(s, t) /\ SameTraps(s, t)
  BY DEF LoopSkipped, LoopRequested, States, SameDepths, SameLoops, SameScopes, SameTraps
<1> QED BY <1>1, <1>2, <1>3

\* handle_loop_control.
LEMMA HandleFacts ==
  ASSUME NEW s \in States
  PROVE  LET t == HandleLoopControl(s) IN
           /\ t \in States /\ t.loopDepth = s.loopDepth
           /\ \/ s.levels <= 1 /\ t.loopKind = "none"
              \/ /\ s.levels > 1 /\ t.loopKind = s.loopKind /\ t.levels = s.levels - 1
                 /\ t.target = s.target
           /\ SameDepths(s, t) /\ SameScopes(s, t) /\ SameTraps(s, t) /\ SameLeak(s, t)
<1>1. s.levels \in Nat BY DEF States
<1>2. CASE s.levels <= 1
  BY <1>1, <1>2 DEF HandleLoopControl, States, SameDepths, SameScopes, SameTraps, SameLeak
<1>3. CASE s.levels > 1
  BY <1>1, <1>3 DEF HandleLoopControl, States, SameDepths, SameScopes, SameTraps, SameLeak
<1> QED BY <1>1, <1>2, <1>3

-----------------------------------------------------------------------------
(* A stack and a state that match, one frame more or less *)

\* Only the fields of ShellState that Match reads matter.
LEMMA MatchSame ==
  ASSUME NEW T, NEW s, NEW t, Match(T, s), SameDepths(s, t), SameLoops(s, t),
         SameScopes(s, t), SameTraps(s, t), SameLeak(s, t)
  PROVE  Match(T, t)
<1>1. DepthsMatch(T, t) BY DEF Match, DepthsMatch, SameDepths
<1>2. LoopsMatch(T, t) BY DEF Match, LoopsMatch, SameLoops, SameLeak
<1>3. ScopesMatch(T, t) BY DEF Match, ScopesMatch, SameScopes, SameLeak
<1>4. TrapsMatch(T, t) BY DEF Match, TrapsMatch, SameTraps
<1> QED BY <1>1, <1>2, <1>3, <1>4 DEF Match

\* A frame that no counter is about.
LEMMA NeutralFrame ==
  ASSUME NEW T \in Seq(Frames), NEW f \in Frames, NEW s \in States,
         f.k \in {"if", "brace", "case", "subshell", "eval"}
  PROVE  Match(Append(T, f), s) <=> Match(T, s)
<1>0. f.k \notin Graphs \cup Loops \cup {"source", "function"} /\ ~Handles(f)
      /\ s.target \in Nat
  BY DEF Graphs, Loops, Handles, States
<1>1. DepthsMatch(Append(T, f), s) <=> DepthsMatch(T, s) BY <1>0, KindFacts DEF DepthsMatch
<1>2. LoopsMatch(Append(T, f), s) <=> LoopsMatch(T, s)
  BY <1>0, KindFacts, LoopsAppend DEF LoopsMatch
<1>3. ScopesMatch(Append(T, f), s) <=> ScopesMatch(T, s)
  BY <1>0, KindFacts, ExistsAppend DEF ScopesMatch
<1>4. TrapsMatch(Append(T, f), s) <=> TrapsMatch(T, s) BY <1>0, ExistsAppend DEF TrapsMatch
<1> QED BY <1>1, <1>2, <1>3, <1>4 DEF Match

\* A frame is replaced by one of its kind; neither is a handler.
LEMMA SameKind ==
  ASSUME NEW T \in Seq(Frames), NEW f \in Frames, NEW g \in Frames, NEW s \in States,
         f.k = g.k, ~Handles(f), ~Handles(g), Match(Append(T, f), s)
  PROVE  Match(Append(T, g), s)
<1>0. s.target \in Nat BY DEF States
<1>1. DepthsMatch(Append(T, g), s) BY KindFacts DEF Match, DepthsMatch
<1>2. LoopsMatch(Append(T, g), s)
  <2>1. CountIn(Append(T, g), Loops) = CountIn(Append(T, f), Loops) BY KindFacts
  <2>2. LoopsFrom(Append(T, g), s.target) = LoopsFrom(Append(T, f), s.target)
    <3>1. LoopsFrom(Append(T, g), s.target) = IF g.k \in Loops /\ Len(T) + 1 >= s.target
            THEN LoopsFrom(T, s.target) + 1 ELSE LoopsFrom(T, s.target)
      BY <1>0, LoopsAppend
    <3>2. LoopsFrom(Append(T, f), s.target) = IF f.k \in Loops /\ Len(T) + 1 >= s.target
            THEN LoopsFrom(T, s.target) + 1 ELSE LoopsFrom(T, s.target)
      BY <1>0, LoopsAppend
    <3>3. (g.k \in Loops /\ Len(T) + 1 >= s.target) <=> (f.k \in Loops /\ Len(T) + 1 >= s.target)
      OBVIOUS
    <3> QED BY <3>1, <3>2, <3>3
  <2> QED BY <2>1, <2>2 DEF Match, LoopsMatch
<1>3. ScopesMatch(Append(T, g), s)
  <2>1. /\ CountIn(Append(T, g), {"function"}) = CountIn(Append(T, f), {"function"})
        /\ Returnable(Append(T, g)) <=> Returnable(Append(T, f))
    BY KindFacts, ExistsAppend
  <2> QED BY <2>1 DEF Match, ScopesMatch
<1>4. TrapsMatch(Append(T, g), s) BY ExistsAppend DEF Match, TrapsMatch
<1> QED BY <1>1, <1>2, <1>3, <1>4 DEF Match

\* A graph is entered.
LEMMA GraphEntered ==
  ASSUME NEW T \in Seq(Frames), NEW f \in Frames, NEW s \in States,
         f.k \in Graphs, ~Handles(f), Match(T, s), s.execDepth < MaxExecDepth
  PROVE  Match(Append(T, f), EnterExec(s))
<1> DEFINE t == EnterExec(s)
           A == Append(T, f)
<1>0. f.k \notin Loops \cup {"source", "function"} /\ s.target \in Nat /\ s.execDepth \in Nat
  BY DEF Graphs, Loops, States
<1>1. /\ t \in States /\ t.execDepth = s.execDepth + 1 /\ t.sources = s.sources
      /\ SameLoops(s, t) /\ SameScopes(s, t) /\ SameTraps(s, t) /\ SameLeak(s, t)
  BY ExecFacts
<1> HIDE DEF t
<1>2. DepthsMatch(A, t)
  BY <1>0, <1>1, KindFacts, ExecutorAssumption DEF Match, DepthsMatch
<1>3. LoopsMatch(A, t)
  <2>1. CountIn(A, Loops) = CountIn(T, Loops) /\ LoopsFrom(A, s.target) = LoopsFrom(T, s.target)
    BY <1>0, KindFacts, LoopsAppend
  <2> QED BY <1>1, <2>1 DEF Match, LoopsMatch, SameLoops, SameLeak
<1>4. ScopesMatch(A, t)
  <2>1. CountIn(A, {"function"}) = CountIn(T, {"function"}) /\ (Returnable(A) <=> Returnable(T))
    BY <1>0, KindFacts, ExistsAppend
  <2> QED BY <1>1, <2>1 DEF Match, ScopesMatch, SameScopes, SameLeak
<1>5. TrapsMatch(A, t) BY <1>1, ExistsAppend DEF Match, TrapsMatch, SameTraps
<1> QED BY <1>2, <1>3, <1>4, <1>5 DEF Match, t

\* A graph is left.
LEMMA GraphLeft ==
  ASSUME NEW T \in Seq(Frames), NEW f \in Frames, NEW s \in States,
         f.k \in Graphs, ~Handles(f), Match(Append(T, f), s)
  PROVE  LeaveExec(s) \in States /\ Match(T, LeaveExec(s))
<1> DEFINE t == LeaveExec(s)
           A == Append(T, f)
<1>0. f.k \notin Loops \cup {"source", "function"} /\ s.target \in Nat /\ s.execDepth \in Nat
  BY DEF Graphs, Loops, States
<1>1. /\ s.execDepth >= 1 => t \in States
      /\ t.execDepth = s.execDepth - 1 /\ t.sources = s.sources
      /\ SameLoops(s, t) /\ SameScopes(s, t) /\ SameTraps(s, t) /\ SameLeak(s, t)
  BY ExecFacts
<1> HIDE DEF t
<1>2. DepthsMatch(T, t) /\ s.execDepth >= 1
  BY <1>0, <1>1, KindFacts, ExecutorAssumption DEF Match, DepthsMatch
<1>3. LoopsMatch(T, t)
  <2>1. CountIn(A, Loops) = CountIn(T, Loops) /\ LoopsFrom(A, s.target) = LoopsFrom(T, s.target)
    BY <1>0, KindFacts, LoopsAppend
  <2> QED BY <1>1, <2>1 DEF Match, LoopsMatch, SameLoops, SameLeak
<1>4. ScopesMatch(T, t)
  <2>1. CountIn(A, {"function"}) = CountIn(T, {"function"}) /\ (Returnable(A) <=> Returnable(T))
    BY <1>0, KindFacts, ExistsAppend
  <2> QED BY <1>1, <2>1 DEF Match, ScopesMatch, SameScopes, SameLeak
<1>5. TrapsMatch(T, t) BY <1>1, ExistsAppend DEF Match, TrapsMatch, SameTraps
<1> QED BY <1>1, <1>2, <1>3, <1>4, <1>5 DEF Match, t

\* A loop is entered.
LEMMA LoopEntered ==
  ASSUME NEW T \in Seq(Frames), NEW f \in Frames, NEW s \in States, f.k \in Loops, Match(T, s)
  PROVE  Match(Append(T, f), EnterLoop(s))
<1> DEFINE t == EnterLoop(s)
           A == Append(T, f)
<1>0. f.k \notin Graphs \cup {"source", "function"} /\ ~Handles(f) /\ s.loopDepth \in Nat
  BY DEF Graphs, Loops, Handles, States
<1>1. /\ t \in States /\ t.loopDepth = s.loopDepth + 1 /\ t.loopKind = s.loopKind
      /\ (t.leak <=> s.leak \/ s.loopKind # "none")
      /\ SameDepths(s, t) /\ SameScopes(s, t) /\ SameTraps(s, t)
  BY LoopFacts
<1> HIDE DEF t
<1>2. DepthsMatch(A, t) BY <1>0, <1>1, KindFacts DEF Match, DepthsMatch, SameDepths
<1>3. LoopsMatch(A, t) BY <1>0, <1>1, KindFacts DEF Match, LoopsMatch
<1>4. ScopesMatch(A, t)
  <2>1. CountIn(A, {"function"}) = CountIn(T, {"function"}) /\ (Returnable(A) <=> Returnable(T))
    BY <1>0, KindFacts, ExistsAppend
  <2> QED BY <1>1, <2>1 DEF Match, ScopesMatch, SameScopes
<1>5. TrapsMatch(A, t) BY <1>0, <1>1, ExistsAppend DEF Match, TrapsMatch, SameTraps
<1> QED BY <1>2, <1>3, <1>4, <1>5 DEF Match, t

\* A loop is left when no request is pending: it was skipped (a leak), there was
\* none, or this loop has served it.
LEMMA LoopLeft ==
  ASSUME NEW T \in Seq(Frames), NEW f \in Frames, NEW s \in States, NEW h \in States,
         f.k \in Loops, Match(Append(T, f), s),
         h.loopDepth = s.loopDepth, SameDepths(s, h), SameScopes(s, h), SameTraps(s, h),
         ~h.leak => ~s.leak,
         \/ h.leak
         \/ h.loopKind = "none"
         \/ /\ s.loopKind # "none" /\ s.levels > 1 /\ h.loopKind = s.loopKind
            /\ h.levels = s.levels - 1 /\ h.target = s.target
  PROVE  LeaveLoop(h) \in States /\ Match(T, LeaveLoop(h))
<1> DEFINE t == LeaveLoop(h)
           A == Append(T, f)
<1>0. /\ f.k \notin Graphs \cup {"source", "function"} /\ ~Handles(f) /\ s.loopDepth \in Nat
      /\ s.target \in Nat /\ s.levels \in Nat /\ h.levels \in Nat /\ Len(T) \in Nat
  BY DEF Graphs, Loops, Handles, States
<1>1. /\ h.loopDepth >= 1 => t \in States
      /\ t.loopDepth = h.loopDepth - 1
      /\ t.loopKind = h.loopKind /\ t.levels = h.levels /\ t.target = h.target
      /\ SameDepths(h, t) /\ SameScopes(h, t) /\ SameTraps(h, t) /\ SameLeak(h, t)
  BY LoopFacts
<1> HIDE DEF t
<1>2. DepthsMatch(T, t) BY <1>0, <1>1, KindFacts DEF Match, DepthsMatch, SameDepths
<1>3. LoopsMatch(T, t) /\ h.loopDepth >= 1
  <2>1. s.loopDepth = CountIn(T, Loops) + 1 /\ CountIn(T, Loops) \in Nat
        /\ CountIn(A, Loops) = CountIn(T, Loops) + 1
    BY KindFacts DEF Match, LoopsMatch
  <2>2. t.loopDepth = CountIn(T, Loops) /\ h.loopDepth >= 1 BY <1>1, <2>1
  <2>3. CASE h.leak \/ h.loopKind = "none"
    BY <1>1, <2>2, <2>3 DEF LoopsMatch, SameLeak
  <2>4. CASE ~h.leak /\ h.loopKind # "none"
    <3>1. /\ s.loopKind # "none" /\ s.levels > 1 /\ h.loopKind = s.loopKind
          /\ h.levels = s.levels - 1 /\ h.target = s.target /\ ~s.leak
      BY <2>4
    <3>2. s.levels <= CountIn(T, Loops) + 1 BY <2>1, <3>1 DEF Match, LoopsMatch
    <3>3. s.loopKind = "break" => h.levels = LoopsFrom(T, s.target)
      <4>1. s.loopKind = "break" => s.levels = LoopsFrom(A, s.target)
        BY <3>1 DEF Match, LoopsMatch
      <4>2. /\ LoopsFrom(T, s.target) \in Nat
            /\ Len(T) + 1 >= s.target => LoopsFrom(A, s.target) = LoopsFrom(T, s.target) + 1
            /\ Len(T) + 1 < s.target => LoopsFrom(A, s.target) = 0
        BY <1>0, LoopsAppend
      <4> QED BY <1>0, <3>1, <4>1, <4>2
    <3> QED BY <1>0, <1>1, <2>1, <2>2, <3>1, <3>2, <3>3 DEF LoopsMatch, SameLeak
  <2> QED BY <2>2, <2>3, <2>4
<1>4. ScopesMatch(T, t)
  <2>1. CountIn(A, {"function"}) = CountIn(T, {"function"}) /\ (Returnable(A) <=> Returnable(T))
    BY <1>0, KindFacts, ExistsAppend
  <2> QED BY <1>1, <2>1 DEF Match, ScopesMatch, SameScopes, SameLeak
<1>5. TrapsMatch(T, t) BY <1>0, <1>1, ExistsAppend DEF Match, TrapsMatch, SameTraps
<1> QED BY <1>1, <1>2, <1>3, <1>4, <1>5 DEF Match, t

\* A loop goes on after it has served a continue.
LEMMA LoopServed ==
  ASSUME NEW T \in Seq(Frames), NEW s \in States, Match(T, s), s.loopKind # "break"
  PROVE  HandleLoopControl(s) \in States /\ Match(T, HandleLoopControl(s))
<1> DEFINE t == HandleLoopControl(s)
<1>1. /\ t \in States /\ t.loopDepth = s.loopDepth
      /\ \/ s.levels <= 1 /\ t.loopKind = "none"
         \/ /\ s.levels > 1 /\ t.loopKind = s.loopKind /\ t.levels = s.levels - 1
            /\ t.target = s.target
      /\ SameDepths(s, t) /\ SameScopes(s, t) /\ SameTraps(s, t) /\ SameLeak(s, t)
  BY HandleFacts
<1> HIDE DEF t
<1>2. s.levels \in Nat /\ s.loopDepth \in Nat BY DEF States
<1>3. DepthsMatch(T, t) BY <1>1 DEF Match, DepthsMatch, SameDepths
<1>4. LoopsMatch(T, t) BY <1>1, <1>2 DEF Match, LoopsMatch, SameLeak
<1>5. ScopesMatch(T, t) BY <1>1 DEF Match, ScopesMatch, SameScopes, SameLeak
<1>6. TrapsMatch(T, t) BY <1>1 DEF Match, TrapsMatch, SameTraps
<1> QED BY <1>1, <1>3, <1>4, <1>5, <1>6 DEF Match, t

\* A loop is left: with a request skipped, with none, or having served it.
LEMMA LoopEnds ==
  ASSUME NEW T \in Seq(Frames), NEW f \in Frames, NEW s \in States, f.k \in Loops,
         Match(Append(T, f), s)
  PROVE  /\ LeaveLoop(LoopSkipped(s)) \in States /\ Match(T, LeaveLoop(LoopSkipped(s)))
         /\ s.loopKind = "none" => LeaveLoop(s) \in States /\ Match(T, LeaveLoop(s))
         /\ s.loopKind # "none" => /\ LeaveLoop(HandleLoopControl(s)) \in States
                                   /\ Match(T, LeaveLoop(HandleLoopControl(s)))
<1>1. LeaveLoop(LoopSkipped(s)) \in States /\ Match(T, LeaveLoop(LoopSkipped(s)))
  <2> DEFINE h == LoopSkipped(s)
  <2>1. /\ h \in States /\ (h.leak <=> s.leak \/ s.loopKind # "none")
        /\ SameDepths(s, h) /\ SameLoops(s, h) /\ SameScopes(s, h) /\ SameTraps(s, h)
    BY LoopFacts
  <2> HIDE DEF h
  <2>2. /\ h.loopDepth = s.loopDepth /\ (~h.leak => ~s.leak)
        /\ h.leak \/ h.loopKind = "none"
    BY <2>1 DEF SameLoops
  <2>3. LeaveLoop(h) \in States /\ Match(T, LeaveLoop(h)) BY <2>1, <2>2, LoopLeft
  <2> QED BY <2>3 DEF h
<1>2. ASSUME s.loopKind = "none" PROVE LeaveLoop(s) \in States /\ Match(T, LeaveLoop(s))
  <2>1. SameDepths(s, s) /\ SameScopes(s, s) /\ SameTraps(s, s)
    BY DEF SameDepths, SameScopes, SameTraps
  <2> QED BY <1>2, <2>1, LoopLeft
<1>3. ASSUME s.loopKind # "none"
      PROVE  /\ LeaveLoop(HandleLoopControl(s)) \in States
             /\ Match(T, LeaveLoop(HandleLoopControl(s)))
  <2> DEFINE h == HandleLoopControl(s)
  <2>1. /\ h \in States /\ h.loopDepth = s.loopDepth
        /\ \/ s.levels <= 1 /\ h.loopKind = "none"
           \/ /\ s.levels > 1 /\ h.loopKind = s.loopKind /\ h.levels = s.levels - 1
              /\ h.target = s.target
        /\ SameDepths(s, h) /\ SameScopes(s, h) /\ SameTraps(s, h) /\ SameLeak(s, h)
    BY HandleFacts
  <2> HIDE DEF h
  <2>2. ~h.leak => ~s.leak BY <2>1 DEF SameLeak
  <2>3. LeaveLoop(h) \in States /\ Match(T, LeaveLoop(h)) BY <1>3, <2>1, <2>2, LoopLeft
  <2> QED BY <2>3 DEF h
<1> QED BY <1>1, <1>2, <1>3

\* A loop that was entered and left at once.
LEMMA LoopRefused ==
  ASSUME NEW T \in Seq(Frames), NEW s \in States, Match(T, s)
  PROVE  LeaveLoop(EnterLoop(s)) \in States /\ Match(T, LeaveLoop(EnterLoop(s)))
<1> DEFINE e == EnterLoop(s)
           t == LeaveLoop(e)
<1>1. /\ e \in States /\ e.loopDepth = s.loopDepth + 1
      /\ e.loopKind = s.loopKind /\ e.levels = s.levels /\ e.target = s.target
      /\ (e.leak <=> s.leak \/ s.loopKind # "none")
      /\ SameDepths(s, e) /\ SameScopes(s, e) /\ SameTraps(s, e)
  BY LoopFacts
<1> HIDE DEF e
<1>2. /\ e.loopDepth >= 1 => t \in States
      /\ t.loopDepth = e.loopDepth - 1
      /\ t.loopKind = e.loopKind /\ t.levels = e.levels /\ t.target = e.target
      /\ SameDepths(e, t) /\ SameScopes(e, t) /\ SameTraps(e, t) /\ SameLeak(e, t)
  BY <1>1, LoopFacts
<1> HIDE DEF t
<1>3. s.loopDepth \in Nat BY DEF States
<1>4. DepthsMatch(T, t) BY <1>1, <1>2 DEF Match, DepthsMatch, SameDepths
<1>5. LoopsMatch(T, t) BY <1>1, <1>2, <1>3 DEF Match, LoopsMatch, SameLeak
<1>6. ScopesMatch(T, t) BY <1>1, <1>2 DEF Match, ScopesMatch, SameScopes, SameLeak
<1>7. TrapsMatch(T, t) BY <1>1, <1>2 DEF Match, TrapsMatch, SameTraps
<1>8. t \in States BY <1>1, <1>2, <1>3
<1> QED BY <1>4, <1>5, <1>6, <1>7, <1>8 DEF Match, t, e

\* A function is entered, and left with its return taken or skipped.
LEMMA FunctionFrame ==
  ASSUME NEW T \in Seq(Frames), NEW f \in Frames, NEW s \in States, f.k = "function"
  PROVE  /\ Match(T, s) => Match(Append(T, f), EnterScope(s))
         /\ Match(Append(T, f), s) =>
              /\ TakeReturn(LeaveScope(s)) \in States /\ Match(T, TakeReturn(LeaveScope(s)))
              /\ ReturnSkipped(LeaveScope(s)) \in States
              /\ Match(T, ReturnSkipped(LeaveScope(s)))
<1> DEFINE A == Append(T, f)
<1>0. f.k \notin Graphs \cup Loops \cup {"source"} /\ ~Handles(f) /\ s.target \in Nat
      /\ s.scopes \in Nat
  BY DEF Graphs, Loops, Handles, States
<1>1. /\ CountIn(A, Graphs) = CountIn(T, Graphs) /\ CountIn(A, Loops) = CountIn(T, Loops)
      /\ CountIn(A, {"source"}) = CountIn(T, {"source"})
      /\ CountIn(A, {"function"}) = CountIn(T, {"function"}) + 1
      /\ CountIn(T, {"function"}) \in Nat
  BY <1>0, KindFacts
<1>2. LoopsFrom(A, s.target) = LoopsFrom(T, s.target) BY <1>0, LoopsAppend
<1>3. (Handling(A) <=> Handling(T)) /\ Returnable(A) BY <1>0, ExistsAppend
<1> HIDE DEF A
<1>4. ASSUME Match(T, s) PROVE Match(A, EnterScope(s))
  <2> DEFINE t == EnterScope(s)
  <2>1. /\ t \in States /\ t.scopes = s.scopes + 1 /\ t.ret = s.ret
        /\ SameDepths(s, t) /\ SameLoops(s, t) /\ SameTraps(s, t) /\ SameLeak(s, t)
    BY ScopeFacts
  <2> HIDE DEF t
  <2>2. DepthsMatch(A, t) BY <1>1, <1>4, <2>1 DEF Match, DepthsMatch, SameDepths
  <2>3. LoopsMatch(A, t) BY <1>1, <1>2, <1>4, <2>1 DEF Match, LoopsMatch, SameLoops, SameLeak
  <2>4. ScopesMatch(A, t) BY <1>0, <1>1, <1>3, <1>4, <2>1 DEF Match, ScopesMatch, SameLeak
  <2>5. TrapsMatch(A, t) BY <1>3, <1>4, <2>1 DEF Match, TrapsMatch, SameTraps
  <2> QED BY <2>2, <2>3, <2>4, <2>5 DEF Match, t
<1>5. ASSUME Match(A, s), NEW t, t.scopes = s.scopes - 1, SameDepths(s, t), SameLoops(s, t),
             SameTraps(s, t), ~t.leak => ~s.leak, t.leak \/ t.ret = "none"
      PROVE  Match(T, t)
  <2>1. DepthsMatch(T, t) BY <1>1, <1>5 DEF Match, DepthsMatch, SameDepths
  <2>2. LoopsMatch(T, t) BY <1>1, <1>2, <1>5 DEF Match, LoopsMatch, SameLoops
  <2>3. ScopesMatch(T, t) BY <1>0, <1>1, <1>5 DEF Match, ScopesMatch
  <2>4. TrapsMatch(T, t) BY <1>3, <1>5 DEF Match, TrapsMatch, SameTraps
  <2> QED BY <2>1, <2>2, <2>3, <2>4 DEF Match
<1>6. ASSUME Match(A, s)
      PROVE  /\ TakeReturn(LeaveScope(s)) \in States /\ Match(T, TakeReturn(LeaveScope(s)))
             /\ ReturnSkipped(LeaveScope(s)) \in States
             /\ Match(T, ReturnSkipped(LeaveScope(s)))
  <2> DEFINE l == LeaveScope(s)
             t == TakeReturn(l)
             u == ReturnSkipped(l)
  <2>1. s.scopes >= 1 BY <1>0, <1>1, <1>6 DEF Match, ScopesMatch
  <2>2. /\ l \in States /\ l.scopes = s.scopes - 1
        /\ SameDepths(s, l) /\ SameLoops(s, l) /\ SameTraps(s, l) /\ SameLeak(s, l)
    BY <2>1, ScopeFacts
  <2> HIDE DEF l
  <2>3. /\ t \in States /\ t.scopes = l.scopes /\ t.ret = "none"
        /\ SameDepths(l, t) /\ SameLoops(l, t) /\ SameTraps(l, t) /\ SameLeak(l, t)
        /\ u \in States /\ (u.leak <=> l.leak \/ l.ret # "none")
        /\ SameDepths(l, u) /\ SameLoops(l, u) /\ SameScopes(l, u) /\ SameTraps(l, u)
    BY <2>2, ReturnFacts
  <2> HIDE DEF t, u
  <2>4. /\ t.scopes = s.scopes - 1 /\ SameDepths(s, t) /\ SameLoops(s, t) /\ SameTraps(s, t)
        /\ (~t.leak => ~s.leak) /\ t.ret = "none"
    BY <2>2, <2>3 DEF SameDepths, SameLoops, SameTraps, SameLeak
  <2>5. /\ u.scopes = s.scopes - 1 /\ SameDepths(s, u) /\ SameLoops(s, u) /\ SameTraps(s, u)
        /\ (~u.leak => ~s.leak) /\ (u.leak \/ u.ret = "none")
    BY <2>2, <2>3 DEF SameDepths, SameLoops, SameScopes, SameTraps, SameLeak
  <2>6. Match(T, t) BY <1>5, <1>6, <2>4
  <2>7. Match(T, u) BY <1>5, <1>6, <2>5
  <2> QED BY <2>3, <2>6, <2>7 DEF t, u, l
<1> QED BY <1>4, <1>6 DEF A

\* A file is entered, and left with its return taken or skipped.
LEMMA SourceFrame ==
  ASSUME NEW T \in Seq(Frames), NEW f \in Frames, NEW s \in States, f.k = "source"
  PROVE  /\ Match(T, s) => Match(Append(T, f), EnterSource(s))
         /\ Match(Append(T, f), s) =>
              /\ TakeReturn(LeaveSource(s)) \in States /\ Match(T, TakeReturn(LeaveSource(s)))
              /\ ReturnSkipped(LeaveSource(s)) \in States
              /\ Match(T, ReturnSkipped(LeaveSource(s)))
<1> DEFINE A == Append(T, f)
<1>0. f.k \notin Graphs \cup Loops \cup {"function"} /\ ~Handles(f) /\ s.target \in Nat
      /\ s.sources \in Nat
  BY DEF Graphs, Loops, Handles, States
<1>1. /\ CountIn(A, Graphs) = CountIn(T, Graphs) /\ CountIn(A, Loops) = CountIn(T, Loops)
      /\ CountIn(A, {"function"}) = CountIn(T, {"function"})
      /\ CountIn(A, {"source"}) = CountIn(T, {"source"}) + 1
      /\ CountIn(T, {"source"}) \in Nat
  BY <1>0, KindFacts
<1>2. LoopsFrom(A, s.target) = LoopsFrom(T, s.target) BY <1>0, LoopsAppend
<1>3. (Handling(A) <=> Handling(T)) /\ Returnable(A) BY <1>0, ExistsAppend
<1> HIDE DEF A
<1>4. ASSUME Match(T, s) PROVE Match(A, EnterSource(s))
  <2> DEFINE t == EnterSource(s)
  <2>1. /\ t \in States /\ t.sources = s.sources + 1 /\ t.execDepth = s.execDepth
        /\ SameLoops(s, t) /\ SameScopes(s, t) /\ SameTraps(s, t) /\ SameLeak(s, t)
    BY SourceFacts
  <2> HIDE DEF t
  <2>2. DepthsMatch(A, t) BY <1>0, <1>1, <1>4, <2>1 DEF Match, DepthsMatch
  <2>3. LoopsMatch(A, t) BY <1>1, <1>2, <1>4, <2>1 DEF Match, LoopsMatch, SameLoops, SameLeak
  <2>4. ScopesMatch(A, t) BY <1>1, <1>3, <1>4, <2>1 DEF Match, ScopesMatch, SameScopes, SameLeak
  <2>5. TrapsMatch(A, t) BY <1>3, <1>4, <2>1 DEF Match, TrapsMatch, SameTraps
  <2> QED BY <2>2, <2>3, <2>4, <2>5 DEF Match, t
<1>5. ASSUME Match(A, s), NEW t, t.sources = s.sources - 1, t.execDepth = s.execDepth,
             t.scopes = s.scopes, SameLoops(s, t), SameTraps(s, t),
             ~t.leak => ~s.leak, t.leak \/ t.ret = "none"
      PROVE  Match(T, t)
  <2>1. DepthsMatch(T, t) BY <1>0, <1>1, <1>5 DEF Match, DepthsMatch
  <2>2. LoopsMatch(T, t) BY <1>1, <1>2, <1>5 DEF Match, LoopsMatch, SameLoops
  <2>3. ScopesMatch(T, t) BY <1>1, <1>5 DEF Match, ScopesMatch
  <2>4. TrapsMatch(T, t) BY <1>3, <1>5 DEF Match, TrapsMatch, SameTraps
  <2> QED BY <2>1, <2>2, <2>3, <2>4 DEF Match
<1>6. ASSUME Match(A, s)
      PROVE  /\ TakeReturn(LeaveSource(s)) \in States /\ Match(T, TakeReturn(LeaveSource(s)))
             /\ ReturnSkipped(LeaveSource(s)) \in States
             /\ Match(T, ReturnSkipped(LeaveSource(s)))
  <2> DEFINE l == LeaveSource(s)
             t == TakeReturn(l)
             u == ReturnSkipped(l)
  <2>1. s.sources >= 1 BY <1>0, <1>1, <1>6 DEF Match, DepthsMatch
  <2>2. /\ l \in States /\ l.sources = s.sources - 1 /\ l.execDepth = s.execDepth
        /\ SameLoops(s, l) /\ SameScopes(s, l) /\ SameTraps(s, l) /\ SameLeak(s, l)
    BY <2>1, SourceFacts
  <2> HIDE DEF l
  <2>3. /\ t \in States /\ t.scopes = l.scopes /\ t.ret = "none"
        /\ SameDepths(l, t) /\ SameLoops(l, t) /\ SameTraps(l, t) /\ SameLeak(l, t)
        /\ u \in States /\ (u.leak <=> l.leak \/ l.ret # "none")
        /\ SameDepths(l, u) /\ SameLoops(l, u) /\ SameScopes(l, u) /\ SameTraps(l, u)
    BY <2>2, ReturnFacts
  <2> HIDE DEF t, u
  <2>4. /\ t.sources = s.sources - 1 /\ t.execDepth = s.execDepth /\ t.scopes = s.scopes
        /\ SameLoops(s, t) /\ SameTraps(s, t) /\ (~t.leak => ~s.leak) /\ t.ret = "none"
    BY <2>2, <2>3 DEF SameDepths, SameLoops, SameTraps, SameLeak, SameScopes
  <2>5. /\ u.sources = s.sources - 1 /\ u.execDepth = s.execDepth /\ u.scopes = s.scopes
        /\ SameLoops(s, u) /\ SameTraps(s, u)
        /\ (~u.leak => ~s.leak) /\ (u.leak \/ u.ret = "none")
    BY <2>2, <2>3 DEF SameDepths, SameLoops, SameScopes, SameTraps, SameLeak
  <2>6. Match(T, t) BY <1>5, <1>6, <2>4
  <2>7. Match(T, u) BY <1>5, <1>6, <2>5
  <2> QED BY <2>3, <2>6, <2>7 DEF t, u, l
<1> QED BY <1>4, <1>6 DEF A

\* set_trap and clear_trap.
LEMMA TrapFacts ==
  ASSUME NEW s \in States, NEW c \in Conditions
  PROVE  /\ LET t == SetTrap(s, c) IN
              /\ t \in States /\ t.traps = s.traps \cup {c} /\ t.wantErr = s.wantErr
              /\ SameDepths(s, t) /\ SameLoops(s, t) /\ SameScopes(s, t) /\ SameLeak(s, t)
         /\ LET t == ClearTrap(s, c) IN
              /\ t \in States /\ t.traps = s.traps \ {c} /\ t.wantErr = s.wantErr
              /\ SameDepths(s, t) /\ SameLoops(s, t) /\ SameScopes(s, t) /\ SameLeak(s, t)
<1>1. LET t == SetTrap(s, c) IN
        /\ t \in States /\ t.traps = s.traps \cup {c} /\ t.wantErr = s.wantErr
        /\ SameDepths(s, t) /\ SameLoops(s, t) /\ SameScopes(s, t) /\ SameLeak(s, t)
  BY DEF SetTrap, States, SameDepths, SameLoops, SameScopes, SameLeak
<1>2. LET t == ClearTrap(s, c) IN
        /\ t \in States /\ t.traps = s.traps \ {c} /\ t.wantErr = s.wantErr
        /\ SameDepths(s, t) /\ SameLoops(s, t) /\ SameScopes(s, t) /\ SameLeak(s, t)
  BY DEF ClearTrap, States, SameDepths, SameLoops, SameScopes, SameLeak
<1> QED BY <1>1, <1>2

\* Traps of other conditions, and of ERR as wanted, leave a match.
LEMMA MatchTraps ==
  ASSUME NEW T, NEW s, NEW t, Match(T, s), SameDepths(s, t), SameLoops(s, t),
         SameScopes(s, t), SameLeak(s, t), TrapsMatch(T, t)
  PROVE  Match(T, t)
<1>1. DepthsMatch(T, t) BY DEF Match, DepthsMatch, SameDepths
<1>2. LoopsMatch(T, t) BY DEF Match, LoopsMatch, SameLoops, SameLeak
<1>3. ScopesMatch(T, t) BY DEF Match, ScopesMatch, SameScopes, SameLeak
<1> QED BY <1>1, <1>2, <1>3 DEF Match

\* The ERR handler starts: the trap is taken away.  It ends: the trap is put back.
LEMMA HandlerFrame ==
  ASSUME NEW T \in Seq(Frames), NEW f \in Frames, NEW g \in Frames, NEW s \in States,
         f.k = "list", g.k = "list", ~Handles(f), Handles(g)
  PROVE  /\ Match(Append(T, f), s) /\ "ERR" \in s.traps =>
              Match(Append(T, g), ClearTrap(s, "ERR"))
         /\ Match(Append(T, g), s) => Match(Append(T, f), SetTrap(s, "ERR"))
<1> DEFINE A == Append(T, f)
           B == Append(T, g)
<1>0. s.target \in Nat /\ "ERR" \in Conditions /\ "list" \notin Loops
  BY DEF States, Conditions, Loops
<1>1. /\ CountIn(A, Graphs) = CountIn(B, Graphs) /\ CountIn(A, Loops) = CountIn(B, Loops)
      /\ CountIn(A, {"source"}) = CountIn(B, {"source"})
      /\ CountIn(A, {"function"}) = CountIn(B, {"function"})
  BY KindFacts
<1>2. LoopsFrom(A, s.target) = LoopsFrom(B, s.target)
  BY <1>0, LoopsAppend
<1>3. /\ (Handling(A) <=> Handling(T)) /\ Handling(B) /\ (Returnable(A) <=> Returnable(B))
  BY ExistsAppend
<1> HIDE DEF A, B
<1>4. ASSUME NEW X, NEW Y, NEW t, {X, Y} = {A, B}, Match(X, s), TrapsMatch(Y, t), SameDepths(s, t),
             SameLoops(s, t), SameScopes(s, t), SameLeak(s, t)
      PROVE  Match(Y, t)
  <2>0. (X = A /\ Y = B) \/ (X = B /\ Y = A) BY <1>4
  <2>1. DepthsMatch(Y, t) BY <1>1, <1>4, <2>0 DEF Match, DepthsMatch, SameDepths
  <2>2. LoopsMatch(Y, t) BY <1>1, <1>2, <1>4, <2>0 DEF Match, LoopsMatch, SameLoops, SameLeak
  <2>3. ScopesMatch(Y, t) BY <1>1, <1>3, <1>4, <2>0 DEF Match, ScopesMatch, SameScopes, SameLeak
  <2> QED BY <1>4, <2>1, <2>2, <2>3 DEF Match
<1>5. ASSUME Match(A, s), "ERR" \in s.traps PROVE Match(B, ClearTrap(s, "ERR"))
  <2> DEFINE t == ClearTrap(s, "ERR")
  <2>1. /\ t.wantErr = s.wantErr
        /\ SameDepths(s, t) /\ SameLoops(s, t) /\ SameScopes(s, t) /\ SameLeak(s, t)
    BY <1>0, TrapFacts
  <2> HIDE DEF t
  <2>2. TrapsMatch(B, t) BY <1>3, <1>5, <2>1 DEF Match, TrapsMatch
  <2>3. Match(B, t) BY <1>4, <1>5, <2>1, <2>2
  <2> QED BY <2>3 DEF t
<1>6. ASSUME Match(B, s) PROVE Match(A, SetTrap(s, "ERR"))
  <2> DEFINE t == SetTrap(s, "ERR")
  <2>1. /\ t.wantErr = s.wantErr /\ t.traps = s.traps \cup {"ERR"}
        /\ SameDepths(s, t) /\ SameLoops(s, t) /\ SameScopes(s, t) /\ SameLeak(s, t)
    BY <1>0, TrapFacts
  <2> HIDE DEF t
  <2>2. TrapsMatch(A, t) BY <1>3, <1>6, <2>1 DEF Match, TrapsMatch
  <2>3. {B, A} = {A, B} OBVIOUS
  <2>4. Match(A, t) BY <1>4, <1>6, <2>1, <2>2, <2>3
  <2> QED BY <2>4 DEF t
<1> QED BY <1>5, <1>6 DEF A, B

-----------------------------------------------------------------------------
(* The loop a break is meant for *)

\* A set of positions has a last one.
LEMMA LastExists ==
  ASSUME NEW k \in Nat, NEW T \in SUBSET (1..k), T # {}
  PROVE  \E i \in T : \A j \in T : j <= i
<1> DEFINE U == {k - i : i \in T}
           R == {p \in Nat \X Nat : p[1] < p[2]}
<1>1. U \subseteq Nat /\ U # {}
  <2>1. \A i \in T : k - i \in Nat
    OBVIOUS
  <2>2. PICK t \in T : TRUE
    OBVIOUS
  <2>3. k - t \in U
    BY <2>2
  <2> QED
    BY <2>1, <2>3
<1>2. IsWellFoundedOn(R, Nat)
  BY NatLessThanWellFounded DEF OpToRel
<1> HIDE DEF R
<1>3. PICK x \in U : \A y \in U : ~ (<<y, x>> \in R)
  BY <1>1, <1>2, WFMin
<1>4. \A y \in U : ~(y < x)
  BY <1>1, <1>3 DEF R
<1>5. PICK i \in T : x = k - i
  BY <1>3
<1>6. \A j \in T : j <= i
  BY <1>4, <1>5
<1> QED
  BY <1>6

\* There is a loop with n loops from it on.
LEMMA TargetExists ==
  ASSUME NEW S \in Seq(Frames), NEW n \in 1..2, n <= CountIn(S, Loops)
  PROVE  TargetLoop(S, n) \in Nat /\ LoopsFrom(S, TargetLoop(S, n)) = n
<1> DEFINE F == LoopFrames(S)
           From(i) == {j \in F : j >= i}
           l == Len(S)
<1>1. F \in SUBSET (1..l) /\ l \in Nat BY DEF LoopFrames
<1>2. CountIn(S, Loops) = Cardinality(F) /\ \A t : LoopsFrom(S, t) = Cardinality(From(t))
  <2>1. F = {i \in DOMAIN S : S[i].k \in Loops} BY DEF LoopFrames
  <2>2. \A t : From(t) = {i \in DOMAIN S : S[i].k \in Loops /\ i >= t} BY <2>1
  <2> QED BY <2>1, <2>2 DEF CountIn, LoopsFrom
<1>3. TargetLoop(S, n) = CHOOSE i \in F : Cardinality(From(i)) = n BY DEF TargetLoop
<1> HIDE DEF F, l
<1>4a. \A j \in F : j \in Nat BY <1>1
<1>4. IsFiniteSet(F) /\ Cardinality(F) \in Nat
  BY <1>1, OneMore
<1>5. F # {} BY <1>2, FS_EmptySet
<1>6. PICK m \in F : \A j \in F : j <= m BY <1>1, <1>5, LastExists
<1>7. \E i \in F : Cardinality(From(i)) = n
  <2>1. CASE n = 1
    <3>1. From(m) = {m}
      <4>1. \A j \in F : j >= m <=> j = m BY <1>4a, <1>6
      <4> QED BY <1>6, <4>1
    <3> QED BY <2>1, <3>1, FS_Singleton
  <2>2. CASE n = 2
    <3> DEFINE G == F \ {m}
    <3>1. IsFiniteSet(G) /\ Cardinality(G) = Cardinality(F) - 1 BY <1>4, <1>6, FS_RemoveElement
    <3>2. G # {} BY <1>2, <1>4, <2>2, <3>1, FS_EmptySet
    <3>3. G \in SUBSET (1..l) BY <1>1
    <3> HIDE DEF G
    <3>4. PICK i \in G : \A j \in G : j <= i BY <1>1, <3>2, <3>3, LastExists
    <3>5. i \in F /\ i # m /\ From(i) = {i} \cup {m}
      <4>1. i \in F /\ i # m /\ \A j \in F : j = m \/ j <= i BY <3>4 DEF G
      <4>2. \A j \in F : j >= i <=> j = i \/ j = m BY <1>4a, <1>6, <4>1
      <4> QED BY <1>6, <4>1, <4>2
    <3>6. Cardinality({i} \cup {m}) = 2
      <4>1. IsFiniteSet({i}) /\ Cardinality({i}) = 1 BY FS_Singleton
      <4>2. m \notin {i} BY <3>5
      <4>3. Cardinality({i} \cup {m}) = Cardinality({i}) + 1 BY <4>1, <4>2, FS_AddElement
      <4>4. Cardinality({i} \cup {m}) = 1 + 1 BY <4>1, <4>3, Zenon
      <4> QED BY <4>4, SMT
    <3> QED BY <2>2, <3>5, <3>6
  <2>3. n = 1 \/ n = 2 OBVIOUS
  <2> QED BY <2>1, <2>2, <2>3
<1>8. TargetLoop(S, n) \in F /\ Cardinality(From(TargetLoop(S, n))) = n
  BY <1>3, <1>7
<1> QED BY <1>2, <1>4a, <1>8

-----------------------------------------------------------------------------
(* What the actions do with the stack *)

\* The stack and the state that a step leaves match, and so does its result.
Kept == Sound(stack', sh') /\ val' \in Values

\* New frames.
LEMMA NewFrame ==
  ASSUME NEW k \in Kinds, NEW pc \in Places
  PROVE  /\ Frame(k, pc) \in Frames /\ Frame(k, pc).k = k /\ Frame(k, pc).pc = pc
         /\ Many(k, pc) \in Frames /\ Many(k, pc).k = k /\ Many(k, pc).pc = pc
<1>1. Fresh \in States BY DEF Fresh, States, Statuses
<1>2. MaxItems \in Nat BY ExecutorAssumption
<1>3. "ok" \in Values BY DEF Values, Statuses
<1> QED BY <1>1, <1>2, <1>3 DEF Frame, Many, Frames

\* A frame with its place, status or count changed.
LEMMA ChangedFrame ==
  ASSUME NEW f \in Frames
  PROVE  /\ \A pc \in Places : 
              LET g == [f EXCEPT !.pc = pc] IN g \in Frames /\ g.k = f.k /\ g.pc = pc
         /\ \A st \in Values : 
              LET g == [f EXCEPT !.st = st] IN g \in Frames /\ g.k = f.k /\ g.pc = f.pc
         /\ \A pc \in Places : \A st \in Values : 
              LET g == [f EXCEPT !.pc = pc, !.st = st] IN g \in Frames /\ g.k = f.k /\ g.pc = pc
         /\ f.n > 0 => 
              LET g == [f EXCEPT !.n = @ - 1] IN g \in Frames /\ g.k = f.k /\ g.pc = f.pc
<1>1. \A pc \in Places : 
        LET g == [f EXCEPT !.pc = pc] IN g \in Frames /\ g.k = f.k /\ g.pc = pc
  BY DEF Frames
<1>2. \A st \in Values : 
        LET g == [f EXCEPT !.st = st] IN g \in Frames /\ g.k = f.k /\ g.pc = f.pc
  BY DEF Frames
<1>3. \A pc \in Places : \A st \in Values : 
        LET g == [f EXCEPT !.pc = pc, !.st = st] IN g \in Frames /\ g.k = f.k /\ g.pc = pc
  BY DEF Frames
<1>4. f.n > 0 => 
        LET g == [f EXCEPT !.n = @ - 1] IN g \in Frames /\ g.k = f.k /\ g.pc = f.pc
  BY DEF Frames
<1> QED BY <1>1, <1>2, <1>3, <1>4

\* The innermost call of a sound stack.
LEMMA SoundTop ==
  ASSUME NEW s, Sound(stack, s), stack # << >>
  PROVE  /\ Top \in Frames /\ Below \in Seq(Frames) /\ stack = Append(Below, Top)
         /\ s \in States /\ Match(Append(Below, Top), s) /\ SavedMatch(Below)
         /\ Top.k = "subshell" => Match(Below, Top.saved)
<1>1. Top \in Frames /\ Below \in Seq(Frames) /\ stack = Append(Below, Top)
  BY TopAndBelow DEF Sound
<1>2. Match(stack, s) /\ SavedMatch(stack) /\ s \in States BY DEF Sound
<1> DEFINE f == Top
           T == Below
<1> HIDE DEF f, T
<1>3. f \in Frames /\ T \in Seq(Frames) /\ stack = Append(T, f) BY <1>1 DEF f, T
<1>4. SavedMatch(T) /\ (f.k = "subshell" => Match(T, f.saved)) BY <1>2, <1>3, SavedAppend
<1> QED BY <1>1, <1>2, <1>4 DEF f, T

\* A frame put on a stack.
LEMMA SoundPush ==
  ASSUME NEW T \in Seq(Frames), SavedMatch(T), NEW f \in Frames, NEW s \in States,
         Match(Append(T, f), s), f.k = "subshell" => Match(T, f.saved)
  PROVE  Sound(Append(T, f), s)
<1>1. Append(T, f) \in Seq(Frames) BY AppendFrame
<1>2. SavedMatch(Append(T, f)) BY SavedAppend
<1> QED BY <1>1, <1>2 DEF Sound

\* A text is run.
LEMMA RunSound ==
  ASSUME NEW stk, NEW s, Sound(stk, s), Run(stk, s)
  PROVE  Kept
<1>1. CASE val' \in {"ok", "fatal"} /\ stack' = stk /\ sh' = s
  BY <1>1 DEF Kept, Values, Statuses
<1>2. CASE /\ s.execDepth < MaxExecDepth
           /\ \E k \in Graphs : stack' = Append(stk, Many(k, "item"))
           /\ sh' = EnterExec(s) /\ val' = "none"
  <2>1. PICK k \in Graphs : stack' = Append(stk, Many(k, "item")) BY <1>2
  <2> DEFINE f == Many(k, "item")
  <2>2. k \in Kinds /\ "item" \in Places BY DEF Kinds, Places
  <2>3. f \in Frames /\ f.k = k /\ f.pc = "item" BY <2>2, NewFrame
  <2> HIDE DEF f
  <2>4. f.k \in Graphs /\ f.k # "subshell" /\ ~Handles(f) BY <2>3 DEF Handles, Graphs
  <2>5. stk \in Seq(Frames) /\ s \in States /\ Match(stk, s) /\ SavedMatch(stk) BY DEF Sound
  <2>6. EnterExec(s) \in States BY <2>5, ExecFacts
  <2>7. Match(Append(stk, f), EnterExec(s)) BY <1>2, <2>3, <2>4, <2>5, GraphEntered
  <2>8. Sound(Append(stk, f), EnterExec(s)) BY <2>3, <2>4, <2>5, <2>6, <2>7, SoundPush
  <2>9. stack' = Append(stk, f) BY <2>1 DEF f
  <2> QED BY <1>2, <2>8, <2>9 DEF Kept, Values
<1> QED BY <1>1, <1>2 DEF Run

\* A call returns.
LEMMA ReturnSound ==
  ASSUME Sound(stack, sh), stack # << >>, NEW v \in Values, NEW s \in States,
         Match(Below, s), Return(v, s)
  PROVE  Kept
<1>1. Below \in Seq(Frames) /\ SavedMatch(Below) BY SoundTop
<1>2. Sound(Below, s) BY <1>1 DEF Sound
<1> QED BY <1>2 DEF Kept, Return

\* The innermost call goes on.
LEMMA ReplaceSound ==
  ASSUME Sound(stack, sh), stack # << >>, NEW g \in Frames, NEW s \in States,
         g.k # "subshell", Match(Append(Below, g), s)
  PROVE  Sound(Replace(g), s)
<1>1. Below \in Seq(Frames) /\ SavedMatch(Below) BY SoundTop
<1> QED BY <1>1, SoundPush DEF Replace

\* The same call, another place in it.
LEMMA MovedSound ==
  ASSUME Sound(stack, sh), stack # << >>, NEW g \in Frames, NEW s \in States,
         g.k = Top.k, g.k # "subshell", ~Handles(g), ~Handles(Top), Match(stack, s)
  PROVE  Sound(Replace(g), s)
<1>1. Top \in Frames /\ Below \in Seq(Frames) /\ stack = Append(Below, Top) BY SoundTop
<1>2. Match(Append(Below, Top), s) BY <1>1
<1>3. Match(Append(Below, g), s) BY <1>1, <1>2, SameKind
<1> QED BY <1>3, ReplaceSound

\* An item is started, in any state that matches.
LEMMA ItemSound ==
  ASSUME Sound(stack, sh), AtItem
  PROVE  /\ stack # << >>
         /\ ItemStarted \in Seq(Frames) /\ SavedMatch(ItemStarted)
         /\ \A s \in States : Match(stack, s) => Match(ItemStarted, s) /\ Sound(ItemStarted, s)
         /\ sh \in States /\ Match(stack, sh) /\ Match(ItemStarted, sh) /\ Sound(ItemStarted, sh)
<1> DEFINE g == [Top EXCEPT !.pc = "done", !.n = 0]
<1>1. stack # << >> /\ Top.k \in Graphs /\ Top.pc = "item" BY DEF AtItem, TopIs
<1>2. Top \in Frames BY <1>1, SoundTop
<1>3. g \in Frames /\ g.k = Top.k /\ g.pc = "done"
  <2>1. "done" \in Places /\ 0 \in Nat BY DEF Places
  <2> DEFINE f == Top
  <2> HIDE DEF f
  <2>3. f \in Frames BY <1>2 DEF f
  <2>4. LET h == [f EXCEPT !.pc = "done", !.n = 0] IN h \in Frames /\ h.k = f.k /\ h.pc = "done"
    BY <2>1, <2>3 DEF Frames
  <2> QED BY <2>4 DEF f
<1>4. ItemStarted = Replace(g) BY DEF ItemStarted
<1> HIDE DEF g
<1>5. g.k # "subshell" /\ ~Handles(g) /\ ~Handles(Top) BY <1>1, <1>3 DEF Handles, Graphs
<1>6. \A s \in States : Match(stack, s) => Sound(ItemStarted, s)
  BY <1>1, <1>3, <1>4, <1>5, MovedSound
<1>7. sh \in States /\ Match(stack, sh) BY DEF Sound
<1>8. Sound(ItemStarted, sh) BY <1>6, <1>7
<1> QED BY <1>1, <1>6, <1>7, <1>8 DEF Sound

-----------------------------------------------------------------------------
(* Simple commands *)

\* A builtin that leaves the shell in a state that matches.
LEMMA BuiltinKept ==
  ASSUME ExecInv, NEW c, NEW v \in Values, NEW s \in States, Match(stack, s), Builtin(c, v, s)
  PROVE  Kept /\ stack # << >> /\ phase' = phase
<1>1. Sound(stack, sh) /\ AtItem /\ stack' = ItemStarted /\ val' = v /\ sh' = s
  BY DEF ExecInv, Builtin
<1>2. Sound(ItemStarted, s) /\ stack # << >> BY <1>1, ItemSound
<1> QED BY <1>1, <1>2 DEF Kept, Builtin, shellOnly

\* exit and set -e: nothing the stack is matched with changes.
LEMMA ExitKept ==
  ASSUME ExecInv, Exit \/ SetErrexit
  PROVE  Kept /\ stack # << >> /\ phase' = phase
<1>1. sh \in States /\ Match(stack, sh) BY DEF ExecInv, Sound
<1>2. CASE Exit
  <2>1. PICK v \in Statuses : Builtin("exit", v, [sh EXCEPT !.shouldExit = TRUE])
    BY <1>2 DEF Exit
  <2> DEFINE t == [sh EXCEPT !.shouldExit = TRUE]
  <2>2. /\ t \in States /\ SameDepths(sh, t) /\ SameLoops(sh, t) /\ SameScopes(sh, t)
        /\ SameTraps(sh, t) /\ SameLeak(sh, t)
    BY <1>1 DEF States, SameDepths, SameLoops, SameScopes, SameTraps, SameLeak
  <2>3. v \in Values BY DEF Values
  <2>4. Builtin("exit", v, t) BY <2>1
  <2> HIDE DEF t
  <2>5. Match(stack, t) BY <1>1, <2>2, MatchSame
  <2> QED BY <2>2, <2>3, <2>4, <2>5, BuiltinKept
<1>3. CASE SetErrexit
  <2>1. PICK on \in BOOLEAN : Builtin("set-e", "ok", [sh EXCEPT !.errexit = on])
    BY <1>3 DEF SetErrexit
  <2> DEFINE t == [sh EXCEPT !.errexit = on]
  <2>2. /\ t \in States /\ SameDepths(sh, t) /\ SameLoops(sh, t) /\ SameScopes(sh, t)
        /\ SameTraps(sh, t) /\ SameLeak(sh, t)
    BY <1>1 DEF States, SameDepths, SameLoops, SameScopes, SameTraps, SameLeak
  <2>3. "ok" \in Values BY DEF Values, Statuses
  <2>4. Builtin("set-e", "ok", t) BY <2>1
  <2> HIDE DEF t
  <2>5. Match(stack, t) BY <1>1, <2>2, MatchSame
  <2> QED BY <2>2, <2>3, <2>4, <2>5, BuiltinKept
<1> QED BY <1>2, <1>3

\* A counted call is in progress.
LEMMA CountedExists ==
  ASSUME NEW S \in Seq(Frames), NEW ks, CountIn(S, ks) # 0
  PROVE  \E i \in DOMAIN S : S[i].k \in ks
<1> SUFFICES ASSUME \A i \in DOMAIN S : S[i].k \notin ks PROVE FALSE
  OBVIOUS
<1>1. {i \in DOMAIN S : S[i].k \in ks} = {} OBVIOUS
<1> QED BY <1>1, FS_EmptySet DEF CountIn

\* return is for a function or a file in progress, or an error.
LEMMA ReturnKept ==
  ASSUME ExecInv, ReturnBuiltin
  PROVE  Kept /\ stack # << >> /\ phase' = phase
<1>1. sh \in States /\ Match(stack, sh) /\ stack \in Seq(Frames) BY DEF ExecInv, Sound
<1>2. ASSUME NEW v \in Statuses, sh.scopes > 0 \/ sh.sources > 0,
             Builtin("return", v, [sh EXCEPT !.ret = v])
      PROVE  Kept /\ stack # << >> /\ phase' = phase
  <2> DEFINE t == [sh EXCEPT !.ret = v]
  <2>1. /\ t \in States /\ SameDepths(sh, t) /\ SameLoops(sh, t) /\ t.scopes = sh.scopes
        /\ SameTraps(sh, t) /\ SameLeak(sh, t)
    BY <1>1 DEF States, SameDepths, SameLoops, SameTraps, SameLeak
  <2>2. v \in Values BY DEF Values
  <2>3. Builtin("return", v, t) BY <1>2
  <2> HIDE DEF t
  <2>4. ~sh.leak => Returnable(stack)
    <3> SUFFICES ASSUME ~sh.leak PROVE Returnable(stack)
      OBVIOUS
    <3>1. CountIn(stack, {"function"}) # 0 \/ CountIn(stack, {"source"}) # 0
      BY <1>1, <1>2 DEF Match, ScopesMatch, DepthsMatch
    <3>2. \E i \in DOMAIN stack : stack[i].k \in {"function"} \/ stack[i].k \in {"source"}
      BY <1>1, <3>1, CountedExists
    <3> QED BY <3>2 DEF Returnable
  <2>5. DepthsMatch(stack, t) BY <1>1, <2>1 DEF Match, DepthsMatch, SameDepths
  <2>6. LoopsMatch(stack, t) BY <1>1, <2>1 DEF Match, LoopsMatch, SameLoops, SameLeak
  <2>7. ScopesMatch(stack, t) BY <1>1, <2>1, <2>4 DEF Match, ScopesMatch, SameLeak
  <2>8. TrapsMatch(stack, t) BY <1>1, <2>1 DEF Match, TrapsMatch, SameTraps
  <2>9. Match(stack, t) BY <2>5, <2>6, <2>7, <2>8 DEF Match
  <2> QED BY <2>1, <2>2, <2>3, <2>9, BuiltinKept
<1>3. ASSUME Builtin("return", "fail", sh)
      PROVE  Kept /\ stack # << >> /\ phase' = phase
  <2>1. "fail" \in Values BY DEF Values, Statuses
  <2> QED BY <1>1, <1>3, <2>1, BuiltinKept
<1> QED BY <1>2, <1>3 DEF ReturnBuiltin

\* break n and continue n are for the n innermost loops, or for all of them.
LEMMA LoopControlKept ==
  ASSUME ExecInv, LoopControl
  PROVE  Kept /\ stack # << >> /\ phase' = phase
<1>1. sh \in States /\ Match(stack, sh) /\ stack \in Seq(Frames) BY DEF ExecInv, Sound
<1>2. PICK kind \in {"break", "continue"}, n \in 1..2 :
        Builtin(kind, "ok", IF sh.loopDepth = 0 THEN sh ELSE RequestLoopControl(sh, kind, n))
  BY DEF LoopControl
<1>3. "ok" \in Values BY DEF Values, Statuses
<1>4. CASE sh.loopDepth = 0
  BY <1>1, <1>2, <1>3, <1>4, BuiltinKept
<1>5. CASE sh.loopDepth # 0
  <2> DEFINE levels == Min(n, sh.loopDepth)
             g == TargetLoop(stack, levels)
             t == RequestLoopControl(sh, kind, n)
  <2>1. sh.loopDepth = CountIn(stack, Loops) /\ sh.loopDepth \in Nat
    BY <1>1 DEF Match, LoopsMatch, States
  <2>2. levels \in 1..2 /\ levels <= CountIn(stack, Loops) BY <1>5, <2>1 DEF Min
  <2> HIDE DEF levels
  <2>3. g \in Nat /\ LoopsFrom(stack, g) = levels BY <1>1, <2>2, TargetExists
  <2>4. t = [sh EXCEPT !.loopKind = kind, !.levels = levels, !.target = g]
    BY DEF RequestLoopControl, levels
  <2> HIDE DEF g, t
  <2>5. /\ t \in States /\ t.loopDepth = sh.loopDepth /\ t.loopKind = kind
        /\ t.levels = levels /\ t.target = g
        /\ SameDepths(sh, t) /\ SameScopes(sh, t) /\ SameTraps(sh, t) /\ SameLeak(sh, t)
    <3>1. levels \in Nat /\ kind \in {"none", "break", "continue"} BY <2>2
    <3>2. t \in States BY <1>1, <2>3, <2>4, <3>1 DEF States
    <3>3. /\ t.loopDepth = sh.loopDepth /\ t.loopKind = kind /\ t.levels = levels
          /\ t.target = g
      BY <1>1, <2>4 DEF States
    <3>4. SameDepths(sh, t) /\ SameScopes(sh, t) /\ SameTraps(sh, t) /\ SameLeak(sh, t)
      BY <1>1, <2>4 DEF States, SameDepths, SameScopes, SameTraps, SameLeak
    <3> QED BY <3>2, <3>3, <3>4
  <2>6. DepthsMatch(stack, t) BY <1>1, <2>5 DEF Match, DepthsMatch, SameDepths
  <2>7. LoopsMatch(stack, t) BY <2>1, <2>2, <2>3, <2>5 DEF LoopsMatch
  <2>8. ScopesMatch(stack, t) BY <1>1, <2>5 DEF Match, ScopesMatch, SameScopes, SameLeak
  <2>9. TrapsMatch(stack, t) BY <1>1, <2>5 DEF Match, TrapsMatch, SameTraps
  <2>10. Match(stack, t) BY <2>6, <2>7, <2>8, <2>9 DEF Match
  <2>11. Builtin(kind, "ok", t) BY <1>2, <1>5 DEF t
  <2> QED BY <1>3, <2>5, <2>10, <2>11, BuiltinKept
<1> QED BY <1>4, <1>5

\* trap: outside of ERR handlers the ERR trap is set exactly when it is wanted.
LEMMA TrapKept ==
  ASSUME ExecInv, Trap
  PROVE  Kept /\ stack # << >> /\ phase' = phase
<1>1. sh \in States /\ Match(stack, sh) BY DEF ExecInv, Sound
<1>2. PICK c \in Conditions, on \in BOOLEAN :
        LET s == IF on THEN SetTrap(sh, c) ELSE ClearTrap(sh, c)
        IN Builtin("trap" \o c, "ok",
                   IF c = "ERR" /\ ~InErrHandler THEN [s EXCEPT !.wantErr = on] ELSE s)
  BY DEF Trap
<1> DEFINE s == IF on THEN SetTrap(sh, c) ELSE ClearTrap(sh, c)
           t == IF c = "ERR" /\ ~InErrHandler THEN [s EXCEPT !.wantErr = on] ELSE s
<1>3. "ok" \in Values BY DEF Values, Statuses
<1>4. Builtin("trap" \o c, "ok", t) BY <1>2
<1>5. /\ s \in States /\ s.traps = (IF on THEN sh.traps \cup {c} ELSE sh.traps \ {c})
      /\ s.wantErr = sh.wantErr
      /\ SameDepths(sh, s) /\ SameLoops(sh, s) /\ SameScopes(sh, s) /\ SameLeak(sh, s)
  BY <1>1, TrapFacts
<1>6. InErrHandler <=> Handling(stack) BY DEF InErrHandler, Handling, Handles
<1> HIDE DEF s
<1>7. CASE c = "ERR" /\ ~InErrHandler
  <2>1. t = [s EXCEPT !.wantErr = on] BY <1>7
  <2> HIDE DEF t
  <2>2. /\ t \in States /\ t.traps = s.traps /\ t.wantErr = on
        /\ SameDepths(s, t) /\ SameLoops(s, t) /\ SameScopes(s, t) /\ SameLeak(s, t)
    BY <1>5, <2>1 DEF States, SameDepths, SameLoops, SameScopes, SameLeak
  <2>3. SameDepths(sh, t) /\ SameLoops(sh, t) /\ SameScopes(sh, t) /\ SameLeak(sh, t)
    BY <1>5, <2>2 DEF SameDepths, SameLoops, SameScopes, SameLeak
  <2>4. TrapsMatch(stack, t) BY <1>5, <1>6, <1>7, <2>2 DEF TrapsMatch
  <2>5. Match(stack, t) BY <1>1, <2>3, <2>4, MatchTraps
  <2> QED BY <1>3, <1>4, <2>2, <2>5, BuiltinKept
<1>8. CASE ~(c = "ERR" /\ ~InErrHandler)
  <2>1. t = s BY <1>8
  <2> HIDE DEF t
  <2>2. TrapsMatch(stack, s) BY <1>1, <1>5, <1>6, <1>8 DEF Match, TrapsMatch
  <2>3. Match(stack, s) BY <1>1, <1>5, <2>2, MatchTraps
  <2> QED BY <1>3, <1>4, <1>5, <2>1, <2>3, BuiltinKept
<1> QED BY <1>7, <1>8

\* All simple commands.
LEMMA SimpleKept ==
  ASSUME ExecInv, Simple
  PROVE  Kept /\ stack # << >> /\ phase' = phase
<1>1. CASE Plain
  <2>1. Sound(stack, sh) /\ AtItem BY <1>1 DEF ExecInv, Plain
  <2>2. Sound(ItemStarted, sh) /\ stack # << >> BY <2>1, ItemSound
  <2>3. stack' = ItemStarted /\ sh' = sh /\ val' \in Values /\ phase' = phase
    BY <1>1 DEF Plain, shellOnly, Values, Statuses
  <2> QED BY <2>2, <2>3 DEF Kept
<1> QED BY <1>1, ExitKept, ReturnKept, LoopControlKept, TrapKept DEF Simple

-----------------------------------------------------------------------------
(* Command lists *)

\* A status an item ends with.
LEMMA ItemStatusValue ==
  ASSUME NEW r \in ItemStatuses
  PROVE  r \in Values
BY DEF ItemStatuses, Values, Statuses, Flip

\* A graph is left.
LEMMA LeaveGraphKept ==
  ASSUME Sound(stack, sh), stack # << >>, NEW g \in Frames, NEW s \in States, NEW v \in Values,
         g.k \in Graphs, ~Handles(g), Match(Append(Below, g), s), Return(v, LeaveExec(s))
  PROVE  Kept
<1>1. Below \in Seq(Frames) BY SoundTop
<1>2. LeaveExec(s) \in States /\ Match(Below, LeaveExec(s)) BY <1>1, GraphLeft
<1> QED BY <1>2, ReturnSound

\* A list goes on with its next item, or ends.
LEMMA AdvanceKept ==
  ASSUME Sound(stack, sh), stack # << >>, NEW g \in Frames, NEW s \in States, NEW v \in Values,
         NEW op, g.k = "list", ~Handles(g), Match(Append(Below, g), s)
  PROVE  Advance(g, op, v, s) \/ ErrexitOrAdvance(g, op, v, s) => Kept
<1>1. ASSUME Return(v, LeaveExec(s)) PROVE Kept
  <2>1. g.k \in Graphs BY DEF Graphs
  <2> QED BY <1>1, <2>1, LeaveGraphKept
<1>2. ASSUME stack' = Replace(g), sh' = s, val' = "none" PROVE Kept
  <2>1. Sound(Replace(g), s) BY ReplaceSound
  <2> QED BY <1>2, <2>1 DEF Kept, Values
<1>3. Advance(g, op, v, s) => Kept BY <1>1, <1>2 DEF Advance
<1> QED BY <1>1, <1>3 DEF ErrexitOrAdvance

\* The next item of a list.
LEMMA NextItem ==
  /\ Many("list", "item") \in Frames /\ Many("list", "item").k = "list"
  /\ ~Handles(Many("list", "item"))
<1>1. "list" \in Kinds /\ "item" \in Places BY DEF Kinds, Graphs, Places
<1>2. Many("list", "item") \in Frames /\ Many("list", "item").k = "list"
      /\ Many("list", "item").pc = "item"
  BY <1>1, NewFrame
<1> QED BY <1>2 DEF Handles

\* The boundary after an item: the list stops, the ERR handler starts, or it goes on.
LEMMA BoundaryKept ==
  ASSUME Sound(stack, sh), stack # << >>, Top.k = "list", ~Handles(Top), NEW st \in Values,
         Boundary(st)
  PROVE  Kept
<1>1. /\ Top \in Frames /\ Below \in Seq(Frames) /\ stack = Append(Below, Top)
      /\ sh \in States /\ Match(Append(Below, Top), sh)
  BY SoundTop
<1>2. ASSUME Return(st, LeaveExec(sh)) PROVE Kept
  <2>1. Top.k \in Graphs BY DEF Graphs
  <2> QED BY <1>1, <1>2, <2>1, LeaveGraphKept
<1>3. ASSUME "ERR" \in sh.traps,
             Run(Replace([Top EXCEPT !.pc = "err", !.st = st]), ClearTrap(sh, "ERR"))
      PROVE  Kept
  <2> DEFINE g == [Top EXCEPT !.pc = "err", !.st = st]
  <2>1. "err" \in Places /\ "ERR" \in Conditions BY DEF Places, Conditions
  <2>2. g \in Frames /\ g.k = "list" /\ g.pc = "err" BY <1>1, <2>1, ChangedFrame
  <2> HIDE DEF g
  <2>3. Handles(g) /\ g.k # "subshell" BY <2>2 DEF Handles
  <2>4. ClearTrap(sh, "ERR") \in States BY <1>1, <2>1, TrapFacts
  <2>5. Match(Append(Below, g), ClearTrap(sh, "ERR")) BY <1>1, <1>3, <2>2, <2>3, HandlerFrame
  <2>6. Sound(Replace(g), ClearTrap(sh, "ERR")) BY <2>2, <2>3, <2>4, <2>5, ReplaceSound
  <2>7. Run(Replace(g), ClearTrap(sh, "ERR")) BY <1>3 DEF g
  <2> QED BY <2>6, <2>7, RunSound
<1>4. ASSUME NEW op, ErrexitOrAdvance(Many("list", "item"), op, st, sh) PROVE Kept
  <2> DEFINE g == Many("list", "item")
  <2>1. g \in Frames /\ g.k = "list" /\ ~Handles(g) BY NextItem
  <2>2. ErrexitOrAdvance(g, op, st, sh) BY <1>4
  <2> HIDE DEF g
  <2>3. Match(Append(Below, g), sh) BY <1>1, <2>1, SameKind
  <2> QED BY <1>1, <2>1, <2>2, <2>3, AdvanceKept
<1> QED BY <1>2, <1>3, <1>4 DEF Boundary

\* An item of a list is done.
LEMMA ListItemDoneKept ==
  ASSUME ExecInv, ListItemDone
  PROVE  Kept /\ stack # << >> /\ phase' = phase
<1>1. Sound(stack, sh) /\ stack # << >> /\ Top.k = "list" /\ Top.pc = "done" /\ phase' = phase
  BY DEF ExecInv, ListItemDone, Returned, TopIs
<1>2. Top \in Frames /\ sh \in States /\ Match(stack, sh) /\ Match(Append(Below, Top), sh)
      /\ ~Handles(Top) /\ Top.k \in Graphs
  BY <1>1, SoundTop DEF Sound, Handles, Graphs
<1>3. CASE val = "fatal" /\ Return("fatal", LeaveExec(sh))
  <2>1. "fatal" \in Values BY DEF Values
  <2> QED BY <1>1, <1>2, <1>3, <2>1, LeaveGraphKept
<1>4. ASSUME NEW r \in ItemStatuses, Run(Replace([Top EXCEPT !.pc = "sig", !.st = r]), sh)
      PROVE  Kept
  <2> DEFINE g == [Top EXCEPT !.pc = "sig", !.st = r]
  <2>1. "sig" \in Places /\ r \in Values BY ItemStatusValue DEF Places
  <2>2. g \in Frames /\ g.k = Top.k /\ g.pc = "sig"
    <3>1. Top \in Frames BY <1>2
    <3> QED BY <2>1, <3>1 DEF Frames
  <2>3. Run(Replace(g), sh) BY <1>4
  <2> HIDE DEF g
  <2>4. ~Handles(g) /\ g.k # "subshell" BY <1>1, <2>2 DEF Handles
  <2>5. Sound(Replace(g), sh) BY <1>1, <1>2, <2>2, <2>4, MovedSound
  <2> QED BY <2>3, <2>5, RunSound
<1>5. ASSUME NEW r \in ItemStatuses, Boundary(r) PROVE Kept
  <2>1. r \in Values BY ItemStatusValue
  <2> QED BY <1>1, <1>2, <1>5, <2>1, BoundaryKept
<1> QED BY <1>1, <1>3, <1>4, <1>5 DEF ListItemDone

\* The handler of a signal is done, and the boundary after it.
LEMMA SignalHandledKept ==
  ASSUME ExecInv, SignalHandled \/ AfterSignal
  PROVE  Kept /\ stack # << >> /\ phase' = phase
<1>1. Sound(stack, sh) /\ stack # << >> /\ Top.k = "list" /\ Top.pc \in {"sig", "handled"}
      /\ val \in Values /\ phase' = phase
  BY DEF ExecInv, SignalHandled, AfterSignal, Returned, TopIs, shellOnly
<1>2. Top \in Frames /\ sh \in States /\ Match(stack, sh) /\ Match(Append(Below, Top), sh)
      /\ ~Handles(Top) /\ Top.k \in Graphs /\ Top.st \in Values
  BY <1>1, SoundTop DEF Sound, Handles, Graphs, Frames
<1>3. CASE Return(val, LeaveExec(sh))
  BY <1>1, <1>2, <1>3, LeaveGraphKept
<1>4. CASE stack' = Replace([Top EXCEPT !.pc = "handled"]) /\ val' = "none" /\ sh' = sh
  <2> DEFINE g == [Top EXCEPT !.pc = "handled"]
  <2>1. "handled" \in Places BY DEF Places
  <2>2. g \in Frames /\ g.k = Top.k /\ g.pc = "handled" BY <1>2, <2>1, ChangedFrame
  <2>3. stack' = Replace(g) BY <1>4
  <2> HIDE DEF g
  <2>4. ~Handles(g) /\ g.k # "subshell" BY <1>1, <2>2 DEF Handles
  <2>5. Sound(Replace(g), sh) BY <1>1, <1>2, <2>2, <2>4, MovedSound
  <2> QED BY <1>1, <1>4, <2>3, <2>5 DEF Kept, Values
<1>5. CASE AfterSignal
  <2>1. Boundary(Top.st) BY <1>5 DEF AfterSignal
  <2> QED BY <1>1, <1>2, <2>1, BoundaryKept
<1> QED BY <1>1, <1>3, <1>4, <1>5 DEF SignalHandled

\* The ERR handler is done: the trap is back.
LEMMA ErrHandledKept ==
  ASSUME ExecInv, ErrHandled
  PROVE  Kept /\ stack # << >> /\ phase' = phase
<1>1. Sound(stack, sh) /\ stack # << >> /\ Top.k = "list" /\ Top.pc = "err" /\ phase' = phase
  BY DEF ExecInv, ErrHandled, Returned, TopIs, shellOnly
<1>2. Top \in Frames /\ sh \in States /\ Below \in Seq(Frames) /\ Match(Append(Below, Top), sh)
      /\ Handles(Top) /\ Top.st \in Values
  BY <1>1, SoundTop DEF Handles, Frames
<1> DEFINE g == [Many("list", "item") EXCEPT !.st = "fail"]
<1>3. PICK op \in {"always", "end"} : ErrexitOrAdvance(g, op, Top.st, SetTrap(sh, "ERR"))
  BY DEF ErrHandled
<1>4. g \in Frames /\ g.k = "list" /\ ~Handles(g)
  <2> DEFINE f == Many("list", "item")
  <2>1. f \in Frames /\ f.k = "list" /\ ~Handles(f) BY NextItem
  <2>2. "fail" \in Values BY DEF Values, Statuses
  <2>3. g = [f EXCEPT !.st = "fail"] OBVIOUS
  <2> HIDE DEF f
  <2>4. g \in Frames /\ g.k = f.k /\ g.pc = f.pc BY <2>1, <2>2, <2>3 DEF Frames
  <2> QED BY <2>1, <2>4 DEF Handles
<1> HIDE DEF g
<1>5. "ERR" \in Conditions BY DEF Conditions
<1>6. SetTrap(sh, "ERR") \in States BY <1>2, <1>5, TrapFacts
<1>7. Match(Append(Below, g), SetTrap(sh, "ERR")) BY <1>1, <1>2, <1>4, HandlerFrame
<1>8. Kept BY <1>1, <1>2, <1>3, <1>4, <1>6, <1>7, AdvanceKept
<1> QED BY <1>1, <1>8

\* `item &`.
LEMMA BackgroundKept ==
  ASSUME ExecInv, Background
  PROVE  Kept /\ stack # << >> /\ phase' = phase
<1>1. Sound(stack, sh) /\ stack # << >> /\ Top.k = "list" /\ Top.pc = "item" /\ Top.n > 0
      /\ phase' = phase
  BY DEF ExecInv, Background, TopIs, shellOnly
<1>2. Top \in Frames /\ sh \in States /\ Below \in Seq(Frames) /\ Match(Append(Below, Top), sh)
      /\ ~Handles(Top) /\ Top.k \in Graphs
  BY <1>1, SoundTop DEF Handles, Graphs
<1>3. ASSUME NEW op \in Operators, Advance([Top EXCEPT !.n = @ - 1], op, "ok", sh) PROVE Kept
  <2> DEFINE g == [Top EXCEPT !.n = @ - 1]
  <2>1. g \in Frames /\ g.k = Top.k /\ g.pc = Top.pc BY <1>1, <1>2, ChangedFrame
  <2>2. Advance(g, op, "ok", sh) /\ "ok" \in Values BY <1>3 DEF Values, Statuses
  <2> HIDE DEF g
  <2>3. ~Handles(g) /\ g.k = "list" BY <1>1, <2>1 DEF Handles
  <2>4. Match(Append(Below, g), sh) BY <1>2, <2>1, <2>3, SameKind
  <2> QED BY <1>1, <1>2, <2>1, <2>2, <2>3, <2>4, AdvanceKept
<1>4. ASSUME NEW error \in {"io", "fatal"}, Return(error, LeaveExec(sh)) PROVE Kept
  <2>1. error \in Values BY DEF Values
  <2> QED BY <1>1, <1>2, <1>4, <2>1, LeaveGraphKept
<1> QED BY <1>1, <1>3, <1>4 DEF Background

\* All steps of lists.
LEMMA ListKept ==
  ASSUME ExecInv, ListStep
  PROVE  Kept /\ stack # << >> /\ phase' = phase
<1>1. CASE SingleDone
  <2>1. Sound(stack, sh) /\ stack # << >> /\ Top.k = "single" /\ phase' = phase
    BY <1>1 DEF ExecInv, SingleDone, Returned, TopIs, shellOnly
  <2>2. Top \in Frames /\ sh \in States /\ Match(Append(Below, Top), sh)
        /\ ~Handles(Top) /\ Top.k \in Graphs
    BY <2>1, SoundTop DEF Handles, Graphs
  <2>3. PICK v \in Values : Return(v, LeaveExec(sh))
    BY <1>1, ItemStatusValue DEF SingleDone, Values
  <2>4. Kept BY <2>1, <2>2, <2>3, LeaveGraphKept
  <2> QED BY <2>1, <2>4
<1> QED BY <1>1, ListItemDoneKept, SignalHandledKept, ErrHandledKept, BackgroundKept DEF ListStep

-----------------------------------------------------------------------------
(* Compound commands *)

Neutral == {"if", "brace", "case", "subshell", "eval"}

\* A compound whose redirection fails, or that is done at once.
LEMMA RefusedKept ==
  ASSUME Sound(stack, sh), AtItem, NEW s \in States, Match(ItemStarted, s),
         stack' = ItemStarted, sh' = s, val' \in Values
  PROVE  Kept
<1>1. ItemStarted \in Seq(Frames) /\ SavedMatch(ItemStarted) BY ItemSound
<1>2. Sound(ItemStarted, s) BY <1>1 DEF Sound
<1> QED BY <1>2 DEF Kept

\* A compound is entered.
LEMMA EnteredKept ==
  ASSUME Sound(stack, sh), AtItem, NEW f \in Frames, NEW s \in States,
         Match(Append(ItemStarted, f), s), f.k = "subshell" => Match(ItemStarted, f.saved),
         Run(Append(ItemStarted, f), s)
  PROVE  Kept
<1>1. ItemStarted \in Seq(Frames) /\ SavedMatch(ItemStarted) BY ItemSound
<1>2. Sound(Append(ItemStarted, f), s) BY <1>1, SoundPush
<1> QED BY <1>2, RunSound

\* if, a brace group, case and eval are entered.
LEMMA NeutralEntered ==
  ASSUME Sound(stack, sh), AtItem, NEW k \in Neutral \ {"subshell"}, NEW pc \in Places
  PROVE  /\ Run(Append(ItemStarted, Frame(k, pc)), sh) => Kept
         /\ Run(Append(ItemStarted, Many(k, pc)), sh) => Kept
<1>1. k \in Kinds BY DEF Neutral, Kinds, Compounds
<1>2. /\ Frame(k, pc) \in Frames /\ Frame(k, pc).k = k
      /\ Many(k, pc) \in Frames /\ Many(k, pc).k = k
  BY <1>1, NewFrame
<1>3. ItemStarted \in Seq(Frames) /\ sh \in States /\ Match(ItemStarted, sh) BY ItemSound
<1>4. ASSUME NEW f \in Frames, f.k = k, Run(Append(ItemStarted, f), sh) PROVE Kept
  <2>1. Match(Append(ItemStarted, f), sh) BY <1>3, <1>4, NeutralFrame DEF Neutral
  <2>2. f.k # "subshell" BY <1>4
  <2> QED BY <1>3, <1>4, <2>1, <2>2, EnteredKept
<1> QED BY <1>2, <1>4

\* A neutral call goes on or returns.
LEMMA NeutralTop ==
  ASSUME Sound(stack, sh), stack # << >>, Top.k \in Neutral
  PROVE  /\ \A g \in Frames : g.k = Top.k /\ g.k # "subshell" /\ Run(Replace(g), sh) => Kept
         /\ \A v \in Values : Return(v, sh) => Kept
<1>1. /\ Top \in Frames /\ Below \in Seq(Frames) /\ sh \in States
      /\ Match(Append(Below, Top), sh)
  BY SoundTop
<1>2. Match(Below, sh) BY <1>1, NeutralFrame DEF Neutral
<1>3. ASSUME NEW g \in Frames, g.k = Top.k, g.k # "subshell", Run(Replace(g), sh) PROVE Kept
  <2>1. Match(Append(Below, g), sh) BY <1>1, <1>2, <1>3, NeutralFrame DEF Neutral
  <2>2. Sound(Replace(g), sh) BY <1>1, <1>3, <2>1, ReplaceSound
  <2> QED BY <1>3, <2>2, RunSound
<1>4. ASSUME NEW v \in Values, Return(v, sh) PROVE Kept
  BY <1>1, <1>2, <1>4, ReturnSound
<1> QED BY <1>3, <1>4

\* if, brace groups, case and eval are started.
LEMMA NeutralStarted ==
  ASSUME ExecInv, RunIf \/ RunBrace \/ RunCase
  PROVE  Kept /\ stack # << >> /\ phase' = phase
<1>1. Sound(stack, sh) /\ AtItem /\ phase' = phase
  BY DEF ExecInv, RunIf, RunBrace, RunCase, Start, shellOnly
<1>2. stack # << >> /\ sh \in States /\ Match(ItemStarted, sh) BY <1>1, ItemSound
<1>3. ASSUME stack' = ItemStarted, sh' = sh, val' \in {"ok", "io", "fatal"} PROVE Kept
  <2>1. val' \in Values BY <1>3 DEF Values, Statuses
  <2> QED BY <1>1, <1>2, <1>3, <2>1, RefusedKept
<1>4. RedirectionFails(sh) => Kept BY <1>3 DEF RedirectionFails
<1>5. /\ "if" \in Neutral \ {"subshell"} /\ "brace" \in Neutral \ {"subshell"}
      /\ "case" \in Neutral \ {"subshell"}
      /\ "cond" \in Places /\ "body" \in Places /\ "arm" \in Places
  BY DEF Neutral, Places
<1>6. CASE RunIf BY <1>1, <1>2, <1>4, <1>5, <1>6, NeutralEntered DEF RunIf
<1>7. CASE RunBrace BY <1>1, <1>2, <1>4, <1>5, <1>7, NeutralEntered DEF RunBrace
<1>8. CASE RunCase BY <1>1, <1>2, <1>3, <1>4, <1>5, <1>8, NeutralEntered DEF RunCase
<1> QED BY <1>6, <1>7, <1>8

\* What if, brace groups and case do after a part.
LEMMA NeutralKept ==
  ASSUME ExecInv, IfCondition \/ PassOn \/ CaseArm
  PROVE  Kept /\ stack # << >> /\ phase' = phase
<1>1. /\ Sound(stack, sh) /\ stack # << >> /\ Top.k \in {"if", "brace", "case"}
      /\ val \in Values /\ phase' = phase
  BY DEF ExecInv, IfCondition, PassOn, CaseArm, Returned, TopIs, shellOnly
<1>2. Top.k \in Neutral /\ Top.k # "subshell" BY <1>1 DEF Neutral
<1>3. Top \in Frames BY <1>1, SoundTop
<1>4. ASSUME NEW v \in Values, Return(v, sh) PROVE Kept BY <1>1, <1>2, <1>4, NeutralTop
<1>5. ASSUME Top.n > 0, Run(Replace([Top EXCEPT !.n = @ - 1]), sh) PROVE Kept
  <2> DEFINE g == [Top EXCEPT !.n = @ - 1]
  <2>1. g \in Frames /\ g.k = Top.k BY <1>3, <1>5, ChangedFrame
  <2>2. Run(Replace(g), sh) BY <1>5
  <2> HIDE DEF g
  <2> QED BY <1>1, <1>2, <2>1, <2>2, NeutralTop
<1>6. CASE IfCondition
  <2>1. Top.k = "if" BY <1>6 DEF IfCondition, Returned, TopIs
  <2>2. ASSUME Run(Replace(Frame("if", "body")), sh) PROVE Kept
    <3>1. "if" \in Kinds /\ "body" \in Places BY DEF Kinds, Compounds, Places
    <3>2. Frame("if", "body") \in Frames /\ Frame("if", "body").k = "if" BY <3>1, NewFrame
    <3> QED BY <1>1, <1>2, <2>1, <2>2, <3>2, NeutralTop
  <2>3. "ok" \in Values BY DEF Values, Statuses
  <2> QED BY <1>1, <1>4, <1>5, <1>6, <2>2, <2>3 DEF IfCondition
<1>7. CASE PassOn BY <1>1, <1>4, <1>7 DEF PassOn
<1>8. CASE CaseArm BY <1>1, <1>4, <1>5, <1>8 DEF CaseArm
<1> QED BY <1>6, <1>7, <1>8

\* A subshell keeps the state of its parent, and puts it back.
LEMMA SubshellKept ==
  ASSUME ExecInv, RunSubshell \/ SubshellDone
  PROVE  Kept /\ stack # << >> /\ phase' = phase
<1>1. CASE RunSubshell
  <2>1. Sound(stack, sh) /\ AtItem /\ phase' = phase
    BY <1>1 DEF ExecInv, RunSubshell, Start, shellOnly
  <2>2. stack # << >> /\ sh \in States /\ Match(ItemStarted, sh) /\ ItemStarted \in Seq(Frames)
    BY <2>1, ItemSound
  <2>3. ASSUME RedirectionFails(sh) PROVE Kept
    <3>1. val' \in Values /\ stack' = ItemStarted /\ sh' = sh
      BY <2>3 DEF RedirectionFails, Values
    <3> QED BY <2>1, <2>2, <3>1, RefusedKept
  <2> DEFINE f == [Frame("subshell", "body") EXCEPT !.saved = sh]
  <2>4. ASSUME Run(Append(ItemStarted, f), sh) PROVE Kept
    <3>1. f \in Frames /\ f.k = "subshell" /\ f.saved = sh
      <4> DEFINE h == Frame("subshell", "body")
      <4>1. "subshell" \in Kinds /\ "body" \in Places BY DEF Kinds, Compounds, Places
      <4>2. h \in Frames /\ h.k = "subshell" BY <4>1, NewFrame
      <4>3. f = [h EXCEPT !.saved = sh] OBVIOUS
      <4> HIDE DEF h, f
      <4> QED BY <2>2, <4>2, <4>3 DEF Frames
    <3> HIDE DEF f
    <3>2. Match(Append(ItemStarted, f), sh) BY <2>2, <3>1, NeutralFrame
    <3> QED BY <2>1, <2>2, <2>4, <3>1, <3>2, EnteredKept
  <2> QED BY <1>1, <2>1, <2>2, <2>3, <2>4 DEF RunSubshell
<1>2. CASE SubshellDone
  <2>1. /\ Sound(stack, sh) /\ stack # << >> /\ Top.k = "subshell" /\ val \in Values
        /\ phase' = phase /\ Return(val, Top.saved)
    BY <1>2 DEF ExecInv, SubshellDone, Returned, TopIs, shellOnly
  <2>2. Top \in Frames /\ Match(Below, Top.saved) BY <2>1, SoundTop
  <2>3. Top.saved \in States BY <2>2 DEF Frames
  <2>4. Kept BY <2>1, <2>2, <2>3, ReturnSound
  <2> QED BY <2>1, <2>4
<1> QED BY <1>1, <1>2

\* A function whose redirection fails leaves its scope; one without a body does not.
LEMMA FunctionRefused ==
  ASSUME NEW T \in Seq(Frames), NEW s \in States, Match(T, s)
  PROVE  /\ LET t == [EnterScope(s) EXCEPT !.leak = TRUE] IN t \in States /\ Match(T, t)
         /\ LET t == TakeReturn(LeaveScope(EnterScope(s))) IN t \in States /\ Match(T, t)
<1> DEFINE e == EnterScope(s)
           u == [e EXCEPT !.leak = TRUE]
           l == LeaveScope(e)
           t == TakeReturn(l)
<1>0. s.scopes \in Nat BY DEF States
<1>1. /\ e \in States /\ e.scopes = s.scopes + 1 /\ e.ret = s.ret
      /\ SameDepths(s, e) /\ SameLoops(s, e) /\ SameTraps(s, e) /\ SameLeak(s, e)
  BY ScopeFacts
<1> HIDE DEF e
<1>2. /\ u \in States /\ u.leak = TRUE /\ u.scopes = e.scopes
      /\ SameDepths(e, u) /\ SameLoops(e, u) /\ SameTraps(e, u)
  BY <1>1 DEF States, SameDepths, SameLoops, SameTraps
<1>3. /\ l \in States /\ l.scopes = e.scopes - 1 /\ l.ret = e.ret
      /\ SameDepths(e, l) /\ SameLoops(e, l) /\ SameTraps(e, l) /\ SameLeak(e, l)
  BY <1>0, <1>1, ScopeFacts
<1> HIDE DEF l
<1>4. /\ t \in States /\ t.scopes = l.scopes /\ t.ret = "none"
      /\ SameDepths(l, t) /\ SameLoops(l, t) /\ SameTraps(l, t) /\ SameLeak(l, t)
  BY <1>3, ReturnFacts
<1> HIDE DEF u, t
<1>5. CountIn(T, {"function"}) \in Nat
  <2>1. PICK k : k \in Kinds BY DEF Kinds, Graphs
  <2>2. "body" \in Places BY DEF Places
  <2>3. Frame(k, "body") \in Frames BY <2>1, <2>2, NewFrame
  <2> QED BY <2>3, KindFacts
<1>6. Match(T, u)
  <2>1. DepthsMatch(T, u) BY <1>1, <1>2 DEF Match, DepthsMatch, SameDepths
  <2>2. LoopsMatch(T, u) BY <1>1, <1>2 DEF Match, LoopsMatch, SameLoops
  <2>3. ScopesMatch(T, u) BY <1>0, <1>1, <1>2, <1>5 DEF Match, ScopesMatch
  <2>4. TrapsMatch(T, u) BY <1>1, <1>2 DEF Match, TrapsMatch, SameTraps
  <2> QED BY <2>1, <2>2, <2>3, <2>4 DEF Match
<1>7. Match(T, t)
  <2>0. t.scopes = s.scopes BY <1>0, <1>1, <1>3, <1>4
  <2>1. DepthsMatch(T, t) BY <1>1, <1>3, <1>4 DEF Match, DepthsMatch, SameDepths
  <2>2. LoopsMatch(T, t) BY <1>1, <1>3, <1>4 DEF Match, LoopsMatch, SameLoops, SameLeak
  <2>3. ScopesMatch(T, t) BY <1>1, <1>3, <1>4, <2>0 DEF Match, ScopesMatch, SameLeak
  <2>4. TrapsMatch(T, t) BY <1>1, <1>3, <1>4 DEF Match, TrapsMatch, SameTraps
  <2> QED BY <2>1, <2>2, <2>3, <2>4 DEF Match
<1> QED BY <1>2, <1>4, <1>6, <1>7 DEF e, l, u, t

\* The status a function or a file returns with.
LEMMA ReturnStatusValue ==
  ASSUME NEW s \in States, NEW v \in Values
  PROVE  ReturnStatus(s, v) \in Values
BY DEF ReturnStatus, States, Values

\* Functions.
LEMMA FunctionKept ==
  ASSUME ExecInv, RunFunction \/ FunctionDone
  PROVE  Kept /\ stack # << >> /\ phase' = phase
<1>1. CASE RunFunction
  <2>1. Sound(stack, sh) /\ AtItem /\ phase' = phase
    BY <1>1 DEF ExecInv, RunFunction, Start, shellOnly
  <2>2. stack # << >> /\ sh \in States /\ Match(ItemStarted, sh) /\ ItemStarted \in Seq(Frames)
    BY <2>1, ItemSound
  <2>3. ASSUME RedirectionFails([EnterScope(sh) EXCEPT !.leak = TRUE]) PROVE Kept
    <3> DEFINE t == [EnterScope(sh) EXCEPT !.leak = TRUE]
    <3>1. t \in States /\ Match(ItemStarted, t) BY <2>2, FunctionRefused
    <3>2. val' \in Values /\ stack' = ItemStarted /\ sh' = t
      BY <2>3 DEF RedirectionFails, Values
    <3> HIDE DEF t
    <3> QED BY <2>1, <3>1, <3>2, RefusedKept
  <2>4. ASSUME stack' = ItemStarted, val' = ReturnStatus(sh, "fail"),
               sh' = TakeReturn(LeaveScope(EnterScope(sh)))
        PROVE  Kept
    <3> DEFINE t == TakeReturn(LeaveScope(EnterScope(sh)))
    <3>1. t \in States /\ Match(ItemStarted, t) BY <2>2, FunctionRefused
    <3>2. "fail" \in Values BY DEF Values, Statuses
    <3>3. val' \in Values BY <2>2, <2>4, <3>2, ReturnStatusValue
    <3>4. sh' = t BY <2>4
    <3> HIDE DEF t
    <3> QED BY <2>1, <2>4, <3>1, <3>3, <3>4, RefusedKept
  <2>5. ASSUME Run(Append(ItemStarted, Frame("function", "body")), EnterScope(sh)) PROVE Kept
    <3> DEFINE f == Frame("function", "body")
    <3>1. "function" \in Kinds /\ "body" \in Places BY DEF Kinds, Compounds, Places
    <3>2. f \in Frames /\ f.k = "function" BY <3>1, NewFrame
    <3>3. Run(Append(ItemStarted, f), EnterScope(sh)) BY <2>5
    <3> HIDE DEF f
    <3>4. EnterScope(sh) \in States BY <2>2, ScopeFacts
    <3>5. Match(Append(ItemStarted, f), EnterScope(sh)) BY <2>2, <3>2, FunctionFrame
    <3>6. f.k # "subshell" BY <3>2
    <3> QED BY <2>1, <3>2, <3>3, <3>4, <3>5, <3>6, EnteredKept
  <2> QED BY <1>1, <2>1, <2>2, <2>3, <2>4, <2>5 DEF RunFunction
<1>2. CASE FunctionDone
  <2>1. /\ Sound(stack, sh) /\ stack # << >> /\ Top.k = "function" /\ val \in Values
        /\ phase' = phase
    BY <1>2 DEF ExecInv, FunctionDone, Returned, TopIs, shellOnly
  <2>2. Top \in Frames /\ Below \in Seq(Frames) /\ sh \in States /\ Match(Append(Below, Top), sh)
    BY <2>1, SoundTop
  <2>3. /\ TakeReturn(LeaveScope(sh)) \in States /\ Match(Below, TakeReturn(LeaveScope(sh)))
        /\ ReturnSkipped(LeaveScope(sh)) \in States
        /\ Match(Below, ReturnSkipped(LeaveScope(sh)))
    BY <2>1, <2>2, FunctionFrame
  <2>4. ReturnStatus(sh, val) \in Values BY <2>1, <2>2, ReturnStatusValue
  <2>5. CASE Return(val, ReturnSkipped(LeaveScope(sh))) BY <2>1, <2>3, <2>5, ReturnSound
  <2>6. CASE Return(ReturnStatus(sh, val), TakeReturn(LeaveScope(sh)))
    BY <2>1, <2>3, <2>4, <2>6, ReturnSound
  <2> QED BY <1>2, <2>1, <2>5, <2>6 DEF FunctionDone
<1> QED BY <1>1, <1>2

\* eval and source.
LEMMA SourceKept ==
  ASSUME ExecInv, RunSource \/ SourceLine
  PROVE  Kept /\ stack # << >> /\ phase' = phase
<1>1. CASE RunSource
  <2>1. Sound(stack, sh) /\ AtItem /\ phase' = phase
    BY <1>1 DEF ExecInv, RunSource, Start, shellOnly
  <2>2. stack # << >> /\ sh \in States /\ Match(ItemStarted, sh) /\ ItemStarted \in Seq(Frames)
    BY <2>1, ItemSound
  <2>3. "line" \in Places /\ "eval" \in Neutral \ {"subshell"} BY DEF Places, Neutral
  <2>4. ASSUME Run(Append(ItemStarted, Frame("eval", "line")), sh) PROVE Kept
    BY <2>1, <2>3, <2>4, NeutralEntered
  <2>5. ASSUME val' = "fail", stack' = ItemStarted, sh' = sh PROVE Kept
    <3>1. val' \in Values BY <2>5 DEF Values, Statuses
    <3> QED BY <2>1, <2>2, <2>5, <3>1, RefusedKept
  <2>6. ASSUME Run(Append(ItemStarted, Frame("source", "line")), EnterSource(sh)) PROVE Kept
    <3> DEFINE f == Frame("source", "line")
    <3>1. "source" \in Kinds BY DEF Kinds, Compounds
    <3>2. f \in Frames /\ f.k = "source" BY <2>3, <3>1, NewFrame
    <3>3. Run(Append(ItemStarted, f), EnterSource(sh)) BY <2>6
    <3> HIDE DEF f
    <3>4. EnterSource(sh) \in States BY <2>2, SourceFacts
    <3>5. Match(Append(ItemStarted, f), EnterSource(sh)) BY <2>2, <3>2, SourceFrame
    <3>6. f.k # "subshell" BY <3>2
    <3> QED BY <2>1, <3>2, <3>3, <3>4, <3>5, <3>6, EnteredKept
  <2> QED BY <1>1, <2>1, <2>2, <2>4, <2>5, <2>6 DEF RunSource
<1>2. CASE SourceLine
  <2>1. /\ Sound(stack, sh) /\ stack # << >> /\ Top.k \in {"eval", "source"} /\ val \in Values
        /\ phase' = phase
    BY <1>2 DEF ExecInv, SourceLine, Returned, TopIs, shellOnly
  <2>2. Top \in Frames /\ Below \in Seq(Frames) /\ sh \in States /\ Match(Append(Below, Top), sh)
    BY <2>1, SoundTop
  <2>3. ASSUME Run(stack, sh) PROVE Kept BY <2>1, <2>3, RunSound
  <2>4. ASSUME Top.k = "eval", Return(val, sh) PROVE Kept
    <3>1. Top.k \in Neutral BY <2>4 DEF Neutral
    <3> QED BY <2>1, <2>4, <3>1, NeutralTop
  <2>5. ASSUME Top.k = "source",
               \/ Return(val, ReturnSkipped(LeaveSource(sh)))
               \/ Return(ReturnStatus(sh, val), TakeReturn(LeaveSource(sh)))
        PROVE  Kept
    <3>1. /\ TakeReturn(LeaveSource(sh)) \in States /\ Match(Below, TakeReturn(LeaveSource(sh)))
          /\ ReturnSkipped(LeaveSource(sh)) \in States
          /\ Match(Below, ReturnSkipped(LeaveSource(sh)))
      BY <2>2, <2>5, SourceFrame
    <3>2. ReturnStatus(sh, val) \in Values BY <2>1, <2>2, ReturnStatusValue
    <3> QED BY <2>1, <2>5, <3>1, <3>2, ReturnSound
  <2> QED BY <1>2, <2>1, <2>3, <2>4, <2>5 DEF SourceLine
<1> QED BY <1>1, <1>2

\* All steps of compound commands.
LEMMA CompoundKept ==
  ASSUME ExecInv, CompoundStep
  PROVE  Kept /\ stack # << >> /\ phase' = phase
BY NeutralStarted, NeutralKept, SubshellKept, FunctionKept, SourceKept DEF CompoundStep

-----------------------------------------------------------------------------
(* Loops *)

\* The innermost call is a loop: how it may end and go on.
LEMMA LoopTop ==
  ASSUME Sound(stack, sh), stack # << >>, Top.k \in Loops, val \in Values
  PROVE  /\ Top \in Frames /\ Below \in Seq(Frames) /\ SavedMatch(Below) /\ sh \in States
         /\ Top.st \in Values /\ Match(stack, sh)
         /\ Fails => Kept
         /\ \A v \in Values : LeaveWith(v, LoopSkipped(sh)) => Kept
         /\ sh.loopKind = "none" =>
              /\ LeaveLoop(sh) \in States /\ Match(Below, LeaveLoop(sh))
              /\ \A v \in Values : LeaveWith(v, sh) => Kept
         /\ sh.loopKind # "none" =>
              /\ LeaveLoop(HandleLoopControl(sh)) \in States
              /\ Match(Below, LeaveLoop(HandleLoopControl(sh)))
              /\ \A v \in Values : LeaveWith(v, HandleLoopControl(sh)) => Kept
         /\ sh.loopKind # "break" =>
              HandleLoopControl(sh) \in States /\ Match(stack, HandleLoopControl(sh))
         /\ \A g \in Frames : g.k = Top.k =>
              /\ Match(Append(Below, g), sh)
              /\ \A s \in States : Match(stack, s) => Match(Append(Below, g), s)
              /\ \A s \in States : Match(stack, s) /\ Run(Replace(g), s) => Kept
<1>1. /\ Top \in Frames /\ Below \in Seq(Frames) /\ stack = Append(Below, Top)
      /\ sh \in States /\ Match(Append(Below, Top), sh) /\ SavedMatch(Below)
  BY SoundTop
<1>2. Match(stack, sh) /\ stack \in Seq(Frames) BY DEF Sound
<1>3. Top.st \in Values BY <1>1 DEF Frames
<1>4. /\ LeaveLoop(LoopSkipped(sh)) \in States /\ Match(Below, LeaveLoop(LoopSkipped(sh)))
      /\ sh.loopKind = "none" => LeaveLoop(sh) \in States /\ Match(Below, LeaveLoop(sh))
      /\ sh.loopKind # "none" => /\ LeaveLoop(HandleLoopControl(sh)) \in States
                                 /\ Match(Below, LeaveLoop(HandleLoopControl(sh)))
  BY <1>1, LoopEnds
<1>5. ASSUME NEW v \in Values, NEW s, LeaveLoop(s) \in States, Match(Below, LeaveLoop(s)),
             LeaveWith(v, s)
      PROVE  Kept
  BY <1>5, ReturnSound DEF LeaveWith
<1>6. \A v \in Values : LeaveWith(v, LoopSkipped(sh)) => Kept BY <1>4, <1>5
<1>7. Fails => Kept BY <1>6 DEF Fails
<1>8. sh.loopKind = "none" => \A v \in Values : LeaveWith(v, sh) => Kept BY <1>4, <1>5
<1>9. sh.loopKind # "none" => \A v \in Values : LeaveWith(v, HandleLoopControl(sh)) => Kept
  BY <1>4, <1>5
<1>10. sh.loopKind # "break" =>
         HandleLoopControl(sh) \in States /\ Match(stack, HandleLoopControl(sh))
  BY <1>1, <1>2, LoopServed
<1>11. ASSUME NEW g \in Frames, g.k = Top.k, NEW s \in States, Match(stack, s)
       PROVE  Match(Append(Below, g), s) /\ (Run(Replace(g), s) => Kept)
  <2>1. g.k # "subshell" /\ ~Handles(g) /\ ~Handles(Top) BY <1>11 DEF Handles, Loops
  <2>2. Match(Append(Below, Top), s) BY <1>1, <1>11
  <2>3. Match(Append(Below, g), s) BY <1>1, <1>11, <2>1, <2>2, SameKind
  <2>4. Sound(Replace(g), s) BY <1>11, <2>1, <2>3, ReplaceSound
  <2> QED BY <2>3, <2>4, RunSound
<1>12. \A g \in Frames : g.k = Top.k =>
         /\ Match(Append(Below, g), sh)
         /\ \A s \in States : Match(stack, s) => Match(Append(Below, g), s)
         /\ \A s \in States : Match(stack, s) /\ Run(Replace(g), s) => Kept
  BY <1>1, <1>2, <1>11
<1> QED BY <1>1, <1>2, <1>3, <1>4, <1>6, <1>7, <1>8, <1>9, <1>10, <1>12

\* The next iteration, or the end.
LEMMA IterateKept ==
  ASSUME NEW T \in Seq(Frames), SavedMatch(T), NEW f \in Frames, f.k \in Loops,
         NEW s \in States, Match(Append(T, f), s),
         LeaveLoop(s) \in States, Match(T, LeaveLoop(s)),
         Iterate(T, f, s) \/ Arithmetic(T, f, s)
  PROVE  Kept
<1>1. ASSUME NEW g \in Frames, g.k = f.k, Run(Append(T, g), s) PROVE Kept
  <2>1. g.k # "subshell" /\ ~Handles(g) /\ ~Handles(f) BY <1>1 DEF Handles, Loops
  <2>2. Match(Append(T, g), s) BY <1>1, <2>1, SameKind
  <2>3. Sound(Append(T, g), s) BY <2>1, <2>2, SoundPush
  <2> QED BY <1>1, <2>3, RunSound
<1>2. ASSUME f.n > 0, Run(Append(T, [f EXCEPT !.n = @ - 1]), s) PROVE Kept
  <2> DEFINE g == [f EXCEPT !.n = @ - 1]
  <2>1. g \in Frames /\ g.k = f.k BY <1>2, ChangedFrame
  <2>2. Run(Append(T, g), s) BY <1>2
  <2> HIDE DEF g
  <2> QED BY <1>1, <2>1, <2>2
<1>3. ASSUME stack' = T, sh' = LeaveLoop(s), val' \in {f.st, "fail", "io", "fatal"} PROVE Kept
  <2>1. val' \in Values BY <1>3 DEF Values, Statuses, Frames
  <2>2. Sound(T, LeaveLoop(s)) BY DEF Sound
  <2> QED BY <1>3, <2>1, <2>2 DEF Kept
<1> QED BY <1>1, <1>2, <1>3 DEF Iterate, Arithmetic

\* A loop is entered, or its redirection fails.
LEMMA LoopStarted ==
  ASSUME ExecInv, AtItem, NEW k \in Loops, NEW pc \in Places
  PROVE  /\ stack # << >>
         /\ RedirectionFails(LeaveLoop(EnterLoop(sh))) => Kept
         /\ \A f \in Frames : f.k = k =>
              /\ Run(Append(ItemStarted, f), EnterLoop(sh)) => Kept
              /\ Iterate(ItemStarted, f, EnterLoop(sh)) => Kept
              /\ Arithmetic(ItemStarted, f, EnterLoop(sh)) => Kept
<1>1. Sound(stack, sh) BY DEF ExecInv
<1>2. /\ stack # << >> /\ sh \in States /\ Match(ItemStarted, sh) /\ ItemStarted \in Seq(Frames)
      /\ SavedMatch(ItemStarted)
  BY <1>1, ItemSound
<1>3. /\ LeaveLoop(EnterLoop(sh)) \in States /\ Match(ItemStarted, LeaveLoop(EnterLoop(sh)))
  BY <1>2, LoopRefused
<1>4. ASSUME RedirectionFails(LeaveLoop(EnterLoop(sh))) PROVE Kept
  <2>1. stack' = ItemStarted /\ sh' = LeaveLoop(EnterLoop(sh)) /\ val' \in Values
    BY <1>4 DEF RedirectionFails, Values
  <2> QED BY <1>1, <1>3, <2>1, RefusedKept
<1>5. EnterLoop(sh) \in States BY <1>2, LoopFacts
<1>6. ASSUME NEW f \in Frames, f.k = k
      PROVE  /\ Run(Append(ItemStarted, f), EnterLoop(sh)) => Kept
             /\ Iterate(ItemStarted, f, EnterLoop(sh)) => Kept
             /\ Arithmetic(ItemStarted, f, EnterLoop(sh)) => Kept
  <2>1. f.k \in Loops /\ f.k # "subshell" BY <1>6 DEF Loops
  <2>2. Match(Append(ItemStarted, f), EnterLoop(sh)) BY <1>2, <2>1, LoopEntered
  <2>3. Run(Append(ItemStarted, f), EnterLoop(sh)) => Kept
    BY <1>1, <1>5, <2>1, <2>2, EnteredKept
  <2>4. Iterate(ItemStarted, f, EnterLoop(sh)) \/ Arithmetic(ItemStarted, f, EnterLoop(sh)) => Kept
    BY <1>2, <1>3, <1>5, <2>1, <2>2, IterateKept
  <2> QED BY <2>3, <2>4
<1> QED BY <1>2, <1>4, <1>6

\* while and until.
LEMMA WhileKept ==
  ASSUME ExecInv, RunWhile \/ WhileCondition \/ WhileBody
  PROVE  Kept /\ stack # << >> /\ phase' = phase
<1>1. CASE RunWhile
  <2>1. PICK k \in {"while", "until"} :
          /\ Start(k)
          /\ \/ RedirectionFails(LeaveLoop(EnterLoop(sh)))
             \/ Run(Append(ItemStarted, Frame(k, "cond")), EnterLoop(sh))
    BY <1>1 DEF RunWhile
  <2>2. k \in Loops /\ k \in Kinds /\ "cond" \in Places BY DEF Loops, Kinds, Places
  <2>3. AtItem /\ phase' = phase BY <1>1, <2>1 DEF Start, RunWhile, shellOnly
  <2>4. Frame(k, "cond") \in Frames /\ Frame(k, "cond").k = k BY <2>2, NewFrame
  <2> QED BY <2>1, <2>2, <2>3, <2>4, LoopStarted
<1>2. CASE WhileCondition
  <2>1. /\ Sound(stack, sh) /\ stack # << >> /\ Top.k \in Loops /\ val \in Values
        /\ phase' = phase
    BY <1>2 DEF ExecInv, WhileCondition, Returned, TopIs, shellOnly, Loops
  <2>2. CASE Fails BY <2>1, <2>2, LoopTop
  <2>3. CASE LeaveWith(val, LoopSkipped(sh)) BY <2>1, <2>3, LoopTop
  <2>4. CASE /\ LoopRequested(sh)
             /\ IF sh.loopKind = "break"
                THEN LeaveWith(Top.st, HandleLoopControl(sh))
                ELSE Run(stack, HandleLoopControl(sh))
    <3>1. CASE sh.loopKind = "break" BY <2>1, <2>4, <3>1, LoopTop
    <3>2. CASE sh.loopKind # "break"
      <4>1. HandleLoopControl(sh) \in States /\ Match(stack, HandleLoopControl(sh))
        BY <2>1, <3>2, LoopTop
      <4>2. Sound(stack, HandleLoopControl(sh)) BY <2>1, <4>1 DEF Sound
      <4> QED BY <2>1, <2>4, <3>2, <4>2, RunSound
    <3> QED BY <3>1, <3>2
  <2>5. CASE /\ ~LoopRequested(sh)
             /\ IF ShouldRunBody(Top.k, val)
                THEN Run(Replace([Top EXCEPT !.pc = "body"]), sh)
                ELSE LeaveWith(Top.st, sh)
    <3>0. sh.loopKind = "none" BY <2>5 DEF LoopRequested
    <3>1. CASE LeaveWith(Top.st, sh) BY <2>1, <3>0, <3>1, LoopTop
    <3>2. CASE Run(Replace([Top EXCEPT !.pc = "body"]), sh)
      <4> DEFINE g == [Top EXCEPT !.pc = "body"]
      <4>1. "body" \in Places /\ Top \in Frames BY <2>1, LoopTop DEF Places
      <4>2. g \in Frames /\ g.k = Top.k BY <4>1, ChangedFrame
      <4>3. Run(Replace(g), sh) BY <3>2
      <4> HIDE DEF g
      <4> QED BY <2>1, <4>2, <4>3, LoopTop
    <3> QED BY <2>5, <3>1, <3>2
  <2> QED BY <1>2, <2>1, <2>2, <2>3, <2>4, <2>5 DEF WhileCondition
<1>3. CASE WhileBody
  <2>1. /\ Sound(stack, sh) /\ stack # << >> /\ Top.k \in Loops /\ val \in Values
        /\ phase' = phase
    BY <1>3 DEF ExecInv, WhileBody, Returned, TopIs, shellOnly, Loops
  <2> DEFINE g == [Top EXCEPT !.pc = "cond", !.st = val]
  <2>2. "cond" \in Places /\ Top \in Frames BY <2>1, LoopTop DEF Places
  <2>3. g \in Frames /\ g.k = Top.k BY <2>1, <2>2 DEF Frames
  <2>4. \/ Fails
        \/ /\ LoopRequested(sh)
           /\ IF sh.loopKind = "break" THEN LeaveWith(val, HandleLoopControl(sh))
              ELSE Run(Replace(g), HandleLoopControl(sh))
        \/ /\ ~LoopRequested(sh)
           /\ IF BodyStops(sh) THEN LeaveWith(val, sh) ELSE Run(Replace(g), sh)
    BY <1>3 DEF WhileBody
  <2> HIDE DEF g
  <2>5. \A s \in States : Match(stack, s) /\ Run(Replace(g), s) => Kept BY <2>1, <2>3, LoopTop
  <2>6. /\ sh \in States /\ Match(stack, sh)
        /\ sh.loopKind # "break" =>
             HandleLoopControl(sh) \in States /\ Match(stack, HandleLoopControl(sh))
        /\ Fails => Kept
        /\ LoopRequested(sh) /\ LeaveWith(val, HandleLoopControl(sh)) => Kept
        /\ ~LoopRequested(sh) /\ LeaveWith(val, sh) => Kept
    BY <2>1, LoopTop DEF LoopRequested
  <2> QED BY <2>1, <2>4, <2>5, <2>6
<1> QED BY <1>1, <1>2, <1>3

\* for, select and for ((;;)) after a body: the next iteration from a state that matches.
LEMMA NextKept ==
  ASSUME Sound(stack, sh), stack # << >>, Top.k \in Loops, val \in Values,
         NEW s \in States, Match(stack, s), LeaveLoop(s) \in States, Match(Below, LeaveLoop(s)),
         \/ Iterate(Below, [Top EXCEPT !.st = val], s)
         \/ Arithmetic(Below, [Top EXCEPT !.st = val], s)
  PROVE  Kept
<1> DEFINE g == [Top EXCEPT !.st = val]
<1>1. Top \in Frames /\ Below \in Seq(Frames) /\ SavedMatch(Below) BY LoopTop
<1>2. g \in Frames /\ g.k = Top.k BY <1>1 DEF Frames
<1>3. Iterate(Below, g, s) \/ Arithmetic(Below, g, s) OBVIOUS
<1> HIDE DEF g
<1>4. Match(Append(Below, g), s) BY <1>2, LoopTop
<1>5. g.k \in Loops BY <1>2
<1> QED BY <1>1, <1>2, <1>3, <1>4, <1>5, IterateKept

\* for and select.
LEMMA ForKept ==
  ASSUME ExecInv, RunFor \/ ForBody
  PROVE  Kept /\ stack # << >> /\ phase' = phase
<1>1. CASE RunFor
  <2>1. PICK k \in {"for", "select"} :
          /\ Start(k)
          /\ \/ RedirectionFails(LeaveLoop(EnterLoop(sh)))
             \/ Iterate(ItemStarted, [Many(k, "body") EXCEPT
                                !.st = IF k = "select" THEN "fail" ELSE "ok"], EnterLoop(sh))
    BY <1>1 DEF RunFor
  <2> DEFINE v == IF k = "select" THEN "fail" ELSE "ok"
             h == Many(k, "body")
             f == [h EXCEPT !.st = v]
  <2>2. k \in Loops /\ k \in Kinds /\ "body" \in Places /\ v \in Values
    BY DEF Loops, Kinds, Places, Values, Statuses
  <2>3. AtItem /\ phase' = phase BY <1>1, <2>1 DEF Start, RunFor, shellOnly
  <2>4. RedirectionFails(LeaveLoop(EnterLoop(sh))) \/ Iterate(ItemStarted, f, EnterLoop(sh))
    BY <2>1
  <2>5. h \in Frames /\ h.k = k BY <2>2, NewFrame
  <2> HIDE DEF h, v
  <2>6. f \in Frames /\ f.k = k BY <2>2, <2>5 DEF Frames
  <2> HIDE DEF f
  <2> QED BY <2>2, <2>3, <2>4, <2>6, LoopStarted
<1>2. CASE ForBody
  <2>1. /\ Sound(stack, sh) /\ stack # << >> /\ Top.k \in Loops /\ val \in Values
        /\ phase' = phase
    BY <1>2 DEF ExecInv, ForBody, Returned, TopIs, shellOnly, Loops
  <2> DEFINE next(s) == Iterate(Below, [Top EXCEPT !.st = val], s)
  <2>2. \/ Fails
        \/ /\ LoopRequested(sh)
           /\ IF sh.loopKind = "break" THEN LeaveWith(val, HandleLoopControl(sh))
              ELSE next(HandleLoopControl(sh))
        \/ /\ ~LoopRequested(sh)
           /\ IF BodyStops(sh) THEN LeaveWith(val, sh) ELSE next(sh)
    BY <1>2 DEF ForBody
  <2>3. ASSUME NEW s \in States, Match(stack, s), LeaveLoop(s) \in States,
               Match(Below, LeaveLoop(s)), next(s)
        PROVE  Kept
    BY <2>1, <2>3, NextKept
  <2> HIDE DEF next
  <2>4. /\ sh \in States /\ Match(stack, sh)
        /\ sh.loopKind # "break" =>
             HandleLoopControl(sh) \in States /\ Match(stack, HandleLoopControl(sh))
        /\ Fails => Kept
        /\ LoopRequested(sh) => /\ LeaveLoop(HandleLoopControl(sh)) \in States
                                /\ Match(Below, LeaveLoop(HandleLoopControl(sh)))
                                /\ LeaveWith(val, HandleLoopControl(sh)) => Kept
        /\ ~LoopRequested(sh) => /\ LeaveLoop(sh) \in States /\ Match(Below, LeaveLoop(sh))
                                 /\ LeaveWith(val, sh) => Kept
    BY <2>1, LoopTop DEF LoopRequested
  <2> QED BY <2>1, <2>2, <2>3, <2>4
<1> QED BY <1>1, <1>2

\* for ((;;)).
LEMMA ArithmeticForKept ==
  ASSUME ExecInv, RunArithmeticFor \/ ArithmeticForBody
  PROVE  Kept /\ stack # << >> /\ phase' = phase
<1>1. CASE RunArithmeticFor
  <2>1. AtItem /\ phase' = phase BY <1>1 DEF Start, RunArithmeticFor, shellOnly
  <2>2. \/ RedirectionFails(LeaveLoop(EnterLoop(sh)))
        \/ Arithmetic(ItemStarted, Frame("cfor", "body"), EnterLoop(sh))
    BY <1>1 DEF RunArithmeticFor
  <2>3. "cfor" \in Loops /\ "cfor" \in Kinds /\ "body" \in Places BY DEF Loops, Kinds, Places
  <2>4. Frame("cfor", "body") \in Frames /\ Frame("cfor", "body").k = "cfor" BY <2>3, NewFrame
  <2> QED BY <2>1, <2>2, <2>3, <2>4, LoopStarted
<1>2. CASE ArithmeticForBody
  <2>1. /\ Sound(stack, sh) /\ stack # << >> /\ Top.k \in Loops /\ val \in Values
        /\ phase' = phase
    BY <1>2 DEF ExecInv, ArithmeticForBody, Returned, TopIs, shellOnly, Loops
  <2> DEFINE h == IF LoopRequested(sh) THEN HandleLoopControl(sh) ELSE sh
             next == Arithmetic(Below, [Top EXCEPT !.st = val], h)
  <2>2. \/ Fails
        \/ IF sh.loopKind = "break" \/ BodyStops(h) THEN LeaveWith(val, h) ELSE next
    BY <1>2 DEF ArithmeticForBody
  <2>3. /\ sh \in States /\ Match(stack, sh)
        /\ sh.loopKind # "break" =>
             HandleLoopControl(sh) \in States /\ Match(stack, HandleLoopControl(sh))
        /\ Fails => Kept
        /\ LoopRequested(sh) => /\ LeaveLoop(HandleLoopControl(sh)) \in States
                                /\ Match(Below, LeaveLoop(HandleLoopControl(sh)))
                                /\ LeaveWith(val, HandleLoopControl(sh)) => Kept
        /\ ~LoopRequested(sh) => /\ LeaveLoop(sh) \in States /\ Match(Below, LeaveLoop(sh))
                                 /\ LeaveWith(val, sh) => Kept
    BY <2>1, LoopTop DEF LoopRequested
  <2>4. LeaveLoop(h) \in States /\ Match(Below, LeaveLoop(h)) /\ (LeaveWith(val, h) => Kept)
    BY <2>3
  <2>5. sh.loopKind # "break" => h \in States /\ Match(stack, h) BY <2>3
  <2> HIDE DEF h
  <2>6. h \in States /\ Match(stack, h) /\ next => Kept BY <2>1, <2>4, NextKept
  <2> HIDE DEF next
  <2> QED BY <2>1, <2>2, <2>3, <2>4, <2>5, <2>6
<1> QED BY <1>1, <1>2

\* All steps of loops.
LEMMA LoopKept ==
  ASSUME ExecInv, LoopStep
  PROVE  Kept /\ stack # << >> /\ phase' = phase
BY WhileKept, ForKept, ArithmeticForKept DEF LoopStep

-----------------------------------------------------------------------------
(* The whole executor *)

\* Nothing is in progress.
LEMMA EmptyStack ==
  /\ \A ks : CountIn(<< >>, ks) = 0
  /\ \A t : LoopsFrom(<< >>, t) = 0
  /\ ~Handling(<< >>) /\ ~Returnable(<< >>) /\ SavedMatch(<< >>)
<1>1. DOMAIN << >> = {} OBVIOUS
<1>2. ASSUME NEW ks PROVE CountIn(<< >>, ks) = 0
  <2>1. {i \in DOMAIN << >> : << >>[i].k \in ks} = {} BY <1>1
  <2> QED BY <2>1, FS_EmptySet DEF CountIn
<1>3. ASSUME NEW t PROVE LoopsFrom(<< >>, t) = 0
  <2>1. {i \in DOMAIN << >> : << >>[i].k \in Loops /\ i >= t} = {} BY <1>1
  <2> QED BY <2>1, FS_EmptySet DEF LoopsFrom
<1>4. ~Handling(<< >>) /\ ~Returnable(<< >>) /\ SavedMatch(<< >>)
  BY <1>1 DEF Handling, Returnable, SavedMatch
<1> QED BY <1>2, <1>3, <1>4

\* The main loop: a line and the EXIT trap start on an empty stack.
LEMMA MainKept ==
  ASSUME ExecInv, MainStep
  PROVE  ExecInv'
<1>1. Sound(stack, sh) /\ val \in Values /\ sh \in States /\ Match(stack, sh) BY DEF ExecInv, Sound
<1>2. CASE ReadLine
  <2>1. stack = << >> /\ Run(<< >>, sh) /\ phase' = "line" BY <1>2 DEF ReadLine, ExecInv
  <2>2. Kept BY <1>1, <2>1, RunSound
  <2> QED BY <2>1, <2>2 DEF Kept, ExecInv
<1>3. CASE EndOfInput \/ Gone \/ LineDone
  <2>1. stack = << >> /\ stack' = stack /\ sh' = sh /\ val' \in {val, "none"}
    BY <1>3 DEF EndOfInput, Gone, LineDone, Idle, ExecInv
  <2>2. val' \in Values BY <1>1, <2>1 DEF Values
  <2> QED BY <1>1, <2>1, <2>2 DEF ExecInv
<1>4. CASE ExitTrap
  <2>0. stack = << >> BY <1>4 DEF ExitTrap, ExecInv
  <2>1. CASE "EXIT" \in sh.traps
    <3> DEFINE t == ClearTrap(sh, "EXIT")
    <3>1. Run(<< >>, t) /\ phase' = "exitTrap" BY <1>4, <2>1 DEF ExitTrap
    <3>2. "EXIT" \in Conditions BY DEF Conditions
    <3>3. /\ t \in States /\ t.traps = sh.traps \ {"EXIT"} /\ t.wantErr = sh.wantErr
          /\ SameDepths(sh, t) /\ SameLoops(sh, t) /\ SameScopes(sh, t) /\ SameLeak(sh, t)
      BY <1>1, <3>2, TrapFacts
    <3> HIDE DEF t
    <3>4. TrapsMatch(stack, t) BY <1>1, <3>3 DEF Match, TrapsMatch
    <3>5. Match(stack, t) BY <1>1, <3>3, <3>4, MatchTraps
    <3>6. Sound(<< >>, t) BY <1>1, <2>0, <3>3, <3>5 DEF Sound
    <3>7. Kept BY <3>1, <3>6, RunSound
    <3> QED BY <3>1, <3>7 DEF Kept, ExecInv
  <2>2. CASE "EXIT" \notin sh.traps
    <3>1. stack' = stack /\ sh' = sh /\ val' = val BY <1>4, <2>2 DEF ExitTrap
    <3> QED BY <1>1, <2>0, <3>1 DEF ExecInv
  <2> QED BY <2>1, <2>2
<1> QED BY <1>2, <1>3, <1>4 DEF MainStep

\* The first prompt.
LEMMA ExecInit == Init => ExecInv
<1> SUFFICES ASSUME Init PROVE ExecInv
  OBVIOUS
<1>1. stack = << >> /\ sh = Fresh /\ val = "none" /\ phase = "prompt" BY DEF Init
<1>2. Fresh \in States BY DEF Fresh, States, Statuses
<1>3. MaxExecDepth \in Nat BY ExecutorAssumption
<1>4. Match(<< >>, Fresh)
  <2>1. DepthsMatch(<< >>, Fresh) BY <1>3, EmptyStack DEF DepthsMatch, Fresh
  <2>2. LoopsMatch(<< >>, Fresh) BY EmptyStack DEF LoopsMatch, Fresh
  <2>3. ScopesMatch(<< >>, Fresh) BY EmptyStack DEF ScopesMatch, Fresh
  <2>4. TrapsMatch(<< >>, Fresh) BY EmptyStack DEF TrapsMatch, Fresh
  <2> QED BY <2>1, <2>2, <2>3, <2>4 DEF Match
<1>5. Sound(<< >>, Fresh) BY <1>2, <1>4, EmptyStack DEF Sound
<1> QED BY <1>1, <1>5 DEF ExecInv, Values

\* Every step keeps the counters, requests and traps those of the calls in progress.
LEMMA ExecNext == ExecInv /\ [Next]_vars => ExecInv'
<1> SUFFICES ASSUME ExecInv, [Next]_vars PROVE ExecInv'
  OBVIOUS
<1>1. ASSUME Kept, stack # << >>, phase' = phase PROVE ExecInv'
  <2>1. phase \notin {"prompt", "ending", "gone"} BY <1>1 DEF ExecInv
  <2> QED BY <1>1, <2>1 DEF Kept, ExecInv
<1>2. CASE Simple BY <1>1, <1>2, SimpleKept
<1>3. CASE ListStep BY <1>1, <1>3, ListKept
<1>4. CASE CompoundStep BY <1>1, <1>4, CompoundKept
<1>5. CASE LoopStep BY <1>1, <1>5, LoopKept
<1>6. CASE MainStep BY <1>6, MainKept
<1>7. CASE Interrupt BY <1>7 DEF Interrupt, ExecInv
<1>8. CASE UNCHANGED vars BY <1>8 DEF vars, ExecInv
<1> QED BY <1>2, <1>3, <1>4, <1>5, <1>6, <1>7, <1>8 DEF Next, Step

\* The counters, requests and traps of ShellState, and of every state a subshell will
\* put back, are always those of the calls in progress.
THEOREM StateFollowsCalls == Spec => []ExecInv
BY ExecInit, ExecNext, PTL DEF Spec

\* The counters are always the calls in progress, and never beyond MAX_EXEC_DEPTH.
THEOREM CountersAlwaysMatch == Spec => []CountersMatch
<1>1. ExecInv => CountersMatch
  <2> SUFFICES ASSUME ExecInv PROVE CountersMatch
    OBVIOUS
  <2>1. Match(stack, sh) BY DEF ExecInv, Sound
  <2>2. \A ks : Count(ks) = CountIn(stack, ks) BY DEF Count, CountIn
  <2> QED BY <2>1, <2>2 DEF Match, DepthsMatch, LoopsMatch, ScopesMatch, CountersMatch
<1> QED BY <1>1, StateFollowsCalls, PTL

\* A break n always has exactly the n innermost loops still to leave.
THEOREM BreakAlwaysExact == Spec => []BreakExact
<1>1. ExecInv => BreakExact
  <2> SUFFICES ASSUME ExecInv PROVE BreakExact
    OBVIOUS
  <2>1. Match(stack, sh) BY DEF ExecInv, Sound
  <2>2. {i \in LoopFrames(stack) : i >= sh.target} =
          {i \in DOMAIN stack : stack[i].k \in Loops /\ i >= sh.target}
    BY DEF LoopFrames
  <2> QED BY <2>1, <2>2 DEF Match, LoopsMatch, LoopsFrom, BreakExact
<1> QED BY <1>1, StateFollowsCalls, PTL

\* The prompt always comes back clean, and the ERR trap is away only while its handler runs.
THEOREM PromptAlwaysClean == Spec => []PromptClean
<1>1. ExecInv => PromptClean
  <2> SUFFICES ASSUME ExecInv PROVE PromptClean
    OBVIOUS
  <2>1. Match(stack, sh) /\ sh \in States BY DEF ExecInv, Sound
  <2>2. ASSUME phase = "prompt", ~sh.leak
        PROVE  sh.ret = "none" /\ sh.loopKind = "none" /\ sh.scopes = 0 /\ sh.loopDepth = 0
    <3>1. stack = << >> BY <2>2 DEF ExecInv
    <3>2. /\ CountIn(stack, Loops) = 0 /\ CountIn(stack, {"function"}) = 0
          /\ ~Returnable(stack)
      BY <3>1, EmptyStack
    <3>3. sh.levels \in Nat BY <2>1 DEF States
    <3> QED BY <2>1, <2>2, <3>2, <3>3 DEF Match, LoopsMatch, ScopesMatch
  <2>3. ("ERR" \in sh.traps) = sh.wantErr \/ InErrHandler
    <3>1. InErrHandler <=> Handling(stack) BY DEF InErrHandler, Handling, Handles
    <3>2. sh.wantErr \in BOOLEAN BY <2>1 DEF States
    <3>3. ~Handling(stack) => (sh.wantErr <=> "ERR" \in sh.traps)
      BY <2>1, <3>2 DEF Match, TrapsMatch
    <3> QED BY <3>1, <3>2, <3>3
  <2> QED BY <2>2, <2>3 DEF PromptClean
<1> QED BY <1>1, StateFollowsCalls, PTL
=============================================================================
