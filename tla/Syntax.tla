------------------------------- MODULE Syntax -------------------------------
(***************************************************************************)
(* The parser of agsh: parse_line and is_incomplete (agsh-core parser.rs), *)
(* which cut tokens into lists, pipelines and commands and keep a compound *)
(* command as one command whose words are not looked at, and the readers   *)
(* of the compound commands (executor.rs), which find the parts of such a  *)
(* command again when it runs and hand each body back to parse_line.       *)
(*                                                                         *)
(* A token is [t, q, op]: its text, its quoting - "bare", "mixed" (some of *)
(* it quoted) or "quoted" - and whether it is an operator.  Lexer.tla says *)
(* how tokens are made and that a body read again has the same words.      *)
(***************************************************************************)
EXTENDS Integers, Sequences, SequencesExt

CONSTANTS
  Names,          \* the words that are identifiers
  Assignments,    \* the words name=value
  CasePatterns    \* the words pattern)

Bare(t) == [t |-> t, q |-> "bare", op |-> FALSE]
Op(t) == [t |-> t, q |-> "bare", op |-> TRUE]

Unquoted(tok) == tok.q = "bare"
IsWord(tok, t) == tok.t = t /\ ~tok.op /\ Unquoted(tok)
IsOneOf(tok, words) == tok.t \in words /\ Unquoted(tok)
ListOps == {";", "&&", "||", "&"}
ControlOp(tok) == tok.op /\ tok.t \in ListOps \cup {"|"}
RedirectionOps == {"<", ">", "<&", "2>&1", "<<"}
RedirectionOp(tok) == tok.op /\ tok.t \in RedirectionOps

\* paren_balance: the change of depth over the unquoted parts of a token, and
\* the lowest depth on the way.
ParenDelta(tok) ==
  CASE ~Unquoted(tok) -> 0
    [] Unquoted(tok) /\ tok.t = "(" -> 1
    [] Unquoted(tok) /\ (tok.t = ")" \/ tok.t \in CasePatterns) -> -1
    [] OTHER -> 0
BraceGroupDelta(tok) ==
  IF IsOneOf(tok, {"{"}) THEN 1 ELSE IF IsOneOf(tok, {"}"}) THEN -1 ELSE 0
Floor(n) == IF n < 0 THEN 0 ELSE n

\* is_reserved_command_position: where a reserved word opens or closes a block.
ReservedCommandPosition(cur) ==
  \/ cur = <<>>
  \/ ControlOp(Last(cur))
  \/ IsOneOf(Last(cur), {"then", "elif", "else", "do"})
CaseReservedCommandPosition(cur) ==
  ReservedCommandPosition(cur) \/ IsOneOf(Last(cur), {")"} \cup CasePatterns)

LoopWords == {"while", "until", "for", "select"}

UpdateDepth(tok, position, openers, closer) ==
  CASE position /\ IsOneOf(tok, openers) -> 1
    [] position /\ IsOneOf(tok, {closer}) -> -1
    [] OTHER -> 0

\* The depth of the open block after one more token.
DepthAfterMutant(block, depth, cur, tok) ==
  Floor(depth + CASE block = "sub" -> ParenDelta(tok)
    [] block \in {"brace", "func"} -> BraceGroupDelta(tok)
    [] block = "if" -> UpdateDepth(tok, ReservedCommandPosition(cur), {"if"}, "fi")
    [] block = "loop" -> UpdateDepth(tok, ReservedCommandPosition(cur), {"while", "until"}, "done")
    [] block = "case" -> UpdateDepth(tok, CaseReservedCommandPosition(cur), {"case"}, "esac"))
DepthAfter(block, depth, cur, tok) ==
  Floor(depth + CASE block = "sub" -> ParenDelta(tok)
    [] block \in {"brace", "func"} -> BraceGroupDelta(tok)
    [] block = "if" -> UpdateDepth(tok, ReservedCommandPosition(cur), {"if"}, "fi")
    [] block = "loop" -> UpdateDepth(tok, ReservedCommandPosition(cur), LoopWords, "done")
    [] block = "case" -> UpdateDepth(tok, CaseReservedCommandPosition(cur), {"case"}, "esac"))

\* starts_function_body: f() {   f () {   function f {
StartsFunctionBody(cur) ==
  /\ cur # <<>> /\ IsWord(Last(cur), "{")
  /\ \/ Len(cur) = 2 /\ IsOneOf(cur[1], {"f()"})
     \/ /\ Len(cur) = 3 /\ Unquoted(cur[1]) /\ Unquoted(cur[2])
        /\ cur[1].t = "function" \/ (cur[1].t \in Names /\ cur[2].t = "()")

\* The block that the token just put on the empty command opens.
Opens(cur) ==
  LET first == Len(cur) = 1
  IN CASE first /\ IsWord(cur[1], "(") -> "sub"
       [] first /\ IsWord(cur[1], "{") -> "brace"
       [] StartsFunctionBody(cur) -> "func"
       [] first /\ IsWord(cur[1], "if") -> "if"
       [] first /\ IsOneOf(cur[1], LoopWords) -> "loop"
       [] first /\ IsWord(cur[1], "case") -> "case"
       [] OTHER -> "none"

-----------------------------------------------------------------------------
(* One command: assignments, words and redirections.                       *)

\* compound_body_end: where the body of a compound ends; the redirections up to
\* there belong to the body.  0 for a simple command.
BodyEnd(toks) ==
  LET At(closer) == {k \in DOMAIN toks : IsWord(toks[k], closer)}
      Balanced(Delta(_), from) ==
        LET Depth[k \in 0..Len(toks)] == IF k = 0 THEN 0 ELSE Depth[k - 1] + Delta(toks[k])
        IN {k \in from..Len(toks) : Depth[k] = 0}
      LastOf(S) == IF S = {} THEN 0 ELSE CHOOSE k \in S : \A j \in S : k >= j
      FirstOf(S) == IF S = {} THEN 0 ELSE CHOOSE k \in S : \A j \in S : k <= j
      open == FirstOf(At("{"))
      function == toks[1].t = "f()" \/ (toks[1].t = "function" /\ Len(toks) > 2)
                  \/ (toks[1].t \in Names /\ Len(toks) > 1 /\ toks[2].t = "()")
  IN CASE ~Unquoted(toks[1]) -> 0
       [] IsOneOf(toks[1], {"if"}) -> LastOf(At("fi"))
       [] IsOneOf(toks[1], LoopWords) -> LastOf(At("done"))
       [] IsOneOf(toks[1], {"case"}) -> LastOf(At("esac"))
       [] IsWord(toks[1], "(") -> FirstOf(Balanced(ParenDelta, 1))
       [] IsOneOf(toks[1], {"{"}) \/ (Unquoted(toks[1]) /\ function) ->
            IF open = 0 THEN 0 ELSE FirstOf(Balanced(BraceGroupDelta, open))
       [] OTHER -> 0

RECURSIVE PushWords(_, _, _, _)
\* push_command: a redirection after the body takes its target, an assignment
\* counts before the first word only, everything else is a word.
PushWords(toks, i, from, cmd) ==
  IF i > Len(toks) \/ ~cmd.ok THEN cmd
  ELSE IF RedirectionOp(toks[i]) /\ i >= from
  THEN IF toks[i].t = "2>&1" THEN PushWords(toks, i + 1, from, [cmd EXCEPT !.redirs = Append(@, <<"2>&1">>)])
       ELSE IF i = Len(toks) THEN [cmd EXCEPT !.ok = FALSE]
       ELSE IF ControlOp(toks[i + 1]) \/ RedirectionOp(toks[i + 1])
               \/ (toks[i].t = "<&" /\ toks[i + 1].t \notin {"1", "-"})
       THEN [cmd EXCEPT !.ok = FALSE]
       ELSE PushWords(toks, i + 2, from, [cmd EXCEPT !.redirs = Append(@, <<toks[i].t, toks[i + 1].t>>)])
  ELSE IF cmd.words = <<>> /\ IsOneOf(toks[i], Assignments)
  THEN PushWords(toks, i + 1, from, [cmd EXCEPT !.assigns = Append(@, toks[i].t)])
  ELSE PushWords(toks, i + 1, from, [cmd EXCEPT !.words = Append(@, toks[i])])

PushCommand(toks) ==
  LET empty == [ok |-> TRUE, assigns |-> <<>>, words |-> <<>>, redirs |-> <<>>]
  IN IF IsWord(toks[1], "[[") THEN [empty EXCEPT !.words = toks]
     ELSE PushWords(toks, 1, BodyEnd(toks) + 1, empty)

-----------------------------------------------------------------------------
(* parse_line.                                                             *)

Start == [err |-> "none", items |-> <<>>, commands |-> <<>>, cur |-> <<>>,
          op |-> "always", neg |-> FALSE, block |-> "none", depth |-> 0]
Wrong(s, what) == [s EXCEPT !.err = what]

\* The current words become a command of the pipeline.
EndCommand(s) ==
  IF s.cur = <<>> THEN s
  ELSE LET Push(cmd) == IF cmd.ok THEN [s EXCEPT !.commands = Append(@, cmd), !.cur = <<>>] ELSE Wrong(s, "redirection")
       IN Push(PushCommand(s.cur))
\* The commands become an item of the list.
EndItem(s, background, op) ==
  IF s.err # "none" THEN s
  ELSE [s EXCEPT !.items = IF s.commands = <<>> THEN @
                           ELSE Append(@, [op |-> s.op, neg |-> s.neg, commands |-> s.commands, bg |-> background]),
                 !.commands = <<>>, !.neg = @ /\ s.commands = <<>>, !.op = op]
NextOp(t) == CASE t = "&&" -> "and" [] t = "||" -> "or" [] OTHER -> "always"

\* A list operator between commands.
ListOperator(s, t) ==
  IF s.cur = <<>> /\ s.commands # <<>> THEN Wrong(s, "empty")
  ELSE IF s.cur = <<>>
  THEN IF s.neg \/ t # ";" THEN Wrong(s, "missing") ELSE [s EXCEPT !.op = "always"]
  ELSE EndItem(EndCommand(s), t = "&", NextOp(t))

Token(s, tok) ==
  LET pushed == [s EXCEPT !.cur = Append(@, tok)]
      Deepened(depth) == [pushed EXCEPT !.depth = depth, !.block = IF depth = 0 THEN "none" ELSE @]
      Opened(block) == [pushed EXCEPT !.block = block, !.depth = IF block = "none" THEN 0 ELSE 1]
  IN IF s.err # "none" THEN s
     ELSE IF s.block = "[[" THEN [pushed EXCEPT !.block = IF IsWord(tok, "]]") THEN "none" ELSE "[["]
     ELSE IF s.depth > 0
     THEN Deepened(DepthAfter(s.block, s.depth, s.cur, tok))
     ELSE IF ParenDelta(tok) < 0 /\ ~(s.cur # <<>> /\ IsOneOf(s.cur[1], {"[", "test"})) THEN Wrong(s, "unexpected")
     ELSE IF s.cur = <<>> /\ (IsWord(tok, "()") \/ IsOneOf(tok, {")", "}", "fi", "done", "esac"}))
     THEN Wrong(s, "unexpected")
     ELSE IF IsWord(tok, "!") /\ s.cur = <<>> /\ s.commands = <<>> THEN [s EXCEPT !.neg = ~@]
     ELSE IF tok.op /\ tok.t = "|" THEN IF s.cur = <<>> THEN Wrong(s, "empty") ELSE EndCommand(s)
     ELSE IF tok.op /\ tok.t \in ListOps THEN ListOperator(s, tok.t)
     ELSE IF s.cur = <<>> /\ IsWord(tok, "[[") THEN [pushed EXCEPT !.block = "[["]
     ELSE Opened(Opens(pushed.cur))

\* parse_line: every token, then what is still open or missing at the end.
RECURSIVE Tokens(_, _, _)
Tokens(s, toks, i) == IF i > Len(toks) THEN s ELSE Tokens(Token(s, toks[i]), toks, i + 1)
ParseLine(toks) ==
  LET End(s) ==
        IF s.err # "none" THEN s
        ELSE IF s.block # "none" THEN Wrong(s, "unterminated")
        ELSE IF s.cur = <<>> /\ s.commands = <<>> /\ (s.neg \/ s.op \in {"and", "or"}) THEN Wrong(s, "missing")
        ELSE IF s.cur = <<>> /\ s.commands # <<>> THEN Wrong(s, "empty")
        ELSE EndItem(EndCommand(s), FALSE, "always")
  IN End(Tokens(Start, toks, 1))

\* is_incomplete: the same blocks without the errors, and the last operator;
\* [[ is not one of its blocks.
Reading(s, tok) ==
  LET pushed == Append(s.cur, tok)
      Deepened(depth) == [s EXCEPT !.cur = pushed, !.depth = depth, !.block = IF depth = 0 THEN "none" ELSE @]
      Opened(block) == [cur |-> pushed, trailing |-> "none", block |-> block, depth |-> IF block = "none" THEN 0 ELSE 1]
  IN IF s.depth > 0 THEN Deepened(DepthAfter(s.block, s.depth, s.cur, tok))
     ELSE IF ControlOp(tok) THEN [s EXCEPT !.cur = <<>>, !.trailing = tok.t]
     ELSE Opened(Opens(pushed))
RECURSIVE ReadingFrom(_, _, _)
ReadingFrom(s, toks, i) == IF i > Len(toks) THEN s ELSE ReadingFrom(Reading(s, toks[i]), toks, i + 1)
IsIncomplete(toks) ==
  LET Open(end) == end.depth > 0 \/ end.trailing \in {"|", "||", "&&"}
  IN Open(ReadingFrom([cur |-> <<>>, trailing |-> "none", block |-> "none", depth |-> 0], toks, 1))

-----------------------------------------------------------------------------
(* The compound commands, from the words of one command.  A word counts as *)
(* reserved unless all of it is quoted.                                    *)

Plainish(w) == w.q # "quoted"
Slice(w, i, j) == SubSeq(w, i, j - 1)

\* is_if_word_command_position.
IfWordCommandPosition(w, start, i) ==
  LET before == {k \in start..(i - 1) : Plainish(w[k])}
      previous == w[CHOOSE k \in before : \A j \in before : k >= j]
  IN \/ before = {}
     \/ previous.t \in ListOps \cup {"|", "then", "else", "elif", "do"}

RECURSIVE TopLevelReserved(_, _, _, _, _, _)
\* find_top_level_reserved: the first target outside nested if and loops; 0
\* when there is none.
TopLevelReserved(w, start, i, targets, ifs, loops) ==
  IF i > Len(w) THEN 0
  ELSE IF ~Plainish(w[i]) \/ ~IfWordCommandPosition(w, start, i)
  THEN TopLevelReserved(w, start, i + 1, targets, ifs, loops)
  ELSE IF w[i].t = "if" THEN TopLevelReserved(w, start, i + 1, targets, ifs + 1, loops)
  ELSE IF w[i].t \in LoopWords THEN TopLevelReserved(w, start, i + 1, targets, ifs, loops + 1)
  ELSE IF w[i].t \in targets /\ ifs = 0 /\ loops = 0 THEN i
  ELSE TopLevelReserved(w, start, i + 1, targets,
                        IF w[i].t = "fi" THEN Floor(ifs - 1) ELSE ifs,
                        IF w[i].t = "done" THEN Floor(loops - 1) ELSE loops)
FindTopLevelReserved(w, start, targets) == TopLevelReserved(w, start, start, targets, 0, 0)

RECURSIVE CaseArmEnd(_, _, _, _)
\* find_case_arm_terminator: ;; ;& ;;& or esac, outside nested case.
CaseArmEnd(w, start, i, depth) ==
  LET position == Plainish(w[i]) /\ IfWordCommandPosition(w, start, i)
      Is(k, t) == k <= Len(w) /\ Plainish(w[k]) /\ w[k].t = t
  IN IF i > Len(w) THEN [at |-> 0, skip |-> 0]
     ELSE IF position /\ w[i].t = "case" THEN CaseArmEnd(w, start, i + 1, depth + 1)
     ELSE IF position /\ w[i].t = "esac"
     THEN IF depth = 0 THEN [at |-> i, skip |-> 1] ELSE CaseArmEnd(w, start, i + 1, depth - 1)
     ELSE IF depth = 0 /\ Is(i, ";") /\ Is(i + 1, ";") THEN [at |-> i, skip |-> IF Is(i + 2, "&") THEN 3 ELSE 2]
     ELSE IF depth = 0 /\ Is(i, ";") /\ Is(i + 1, "&") THEN [at |-> i, skip |-> 2]
     ELSE CaseArmEnd(w, start, i + 1, depth)

Broken == [kind |-> "error", parts |-> <<>>]
Compound(kind, parts) == [kind |-> kind, parts |-> parts]

RECURSIVE IfClauses(_, _, _)
\* parse_if_invocation: conditions and bodies in turn, a last body for else.
IfClauses(w, i, parts) ==
  LET Else(end, both) ==
        IF FindTopLevelReserved(w, end + 1, {"fi"}) # Len(w) THEN Broken
        ELSE Compound("if", Append(both, Slice(w, end + 1, Len(w))))
      Clause(end, both) ==
        CASE w[end].t = "elif" -> IfClauses(w, end + 1, both)
          [] w[end].t = "fi" -> IF end = Len(w) THEN Compound("if", both) ELSE Broken
          [] OTHER -> Else(end, both)
      Body(then, end) ==
        IF end = 0 THEN Broken ELSE Clause(end, parts \o <<Slice(w, i, then), Slice(w, then + 1, end)>>)
      Condition(then) ==
        IF then = 0 \/ then = i THEN Broken
        ELSE Body(then, FindTopLevelReserved(w, then + 1, {"elif", "else", "fi"}))
  IN Condition(FindTopLevelReserved(w, i, {"then"}))

\* parse_while_invocation: a condition and a body.
WhileParts(w) ==
  LET Body(do) == IF do = 0 \/ do = 2 \/ FindTopLevelReserved(w, do + 1, {"done"}) # Len(w) THEN Broken
                  ELSE Compound("while", <<Slice(w, 2, do), Slice(w, do + 1, Len(w))>>)
  IN Body(FindTopLevelReserved(w, 2, {"do"}))

\* parse_for_invocation, parse_select_invocation: name, items and a body; a
\* semicolon before do is not an item.  A for whose header is an arithmetic one has
\* no name and looks for its body right behind the header.
ForParts(w, kind) ==
  LET Items(do) == IF do > 3 /\ Plainish(w[do - 1]) /\ w[do - 1].t = ";" THEN do - 1 ELSE do
      In(end) == end > 3 /\ Plainish(w[3]) /\ w[3].t = "in"
      Body(do) == IF \/ do = 0 \/ (~In(Items(do)) /\ Items(do) # 3)
                     \/ FindTopLevelReserved(w, do + 1, {"done"}) # Len(w)
                  THEN Broken ELSE Compound(kind, <<Slice(w, do + 1, Len(w))>>)
      UpTo(do, done) == IF done = 0 THEN Broken ELSE Compound("cfor", <<Slice(w, do + 1, done)>>)
      Arithmetic(do) == IF do = 0 THEN Broken ELSE UpTo(do, FindTopLevelReserved(w, do + 1, {"done"}))
  IN IF kind = "for" /\ Len(w) >= 2 /\ w[2].t = "((;;))"
     THEN Arithmetic(FindTopLevelReserved(w, 3, {"do"}))
     ELSE IF Len(w) < 2 \/ w[2].q = "quoted" \/ w[2].t \notin Names THEN Broken
     ELSE Body(FindTopLevelReserved(w, 3, {"do"}))

RECURSIVE CaseArms(_, _, _)
\* parse_case_invocation and parse_case_patterns: an arm starts after the word
\* that ends in an unquoted parenthesis.
CaseArms(w, i, bodies) ==
  IF i > Len(w) THEN Broken
  ELSE IF Plainish(w[i]) /\ w[i].t = ";" THEN CaseArms(w, i + 1, bodies)
  ELSE IF Plainish(w[i]) /\ w[i].t = "esac" THEN IF i = Len(w) THEN Compound("case", bodies) ELSE Broken
  ELSE LET ends == {k \in i..Len(w) : IsOneOf(w[k], {")"} \cup CasePatterns)}
           After(arm, all) ==
             IF arm.skip > 1 THEN CaseArms(w, arm.at + arm.skip, all)
             ELSE IF arm.at = Len(w) THEN Compound("case", all) ELSE Broken
           Arm(body, arm) == IF arm.at = 0 THEN Broken ELSE After(arm, Append(bodies, Slice(w, body, arm.at)))
           Body(body) == Arm(body, CaseArmEnd(w, body, body, 0))
       IN IF ends = {} THEN Broken ELSE Body((CHOOSE k \in ends : \A j \in ends : k <= j) + 1)
CaseParts(w) ==
  IF Len(w) < 3 \/ ~(Plainish(w[3]) /\ w[3].t = "in") THEN Broken ELSE CaseArms(w, 4, <<>>)

\* parse_function_definition: the words between the braces.
FunctionStart(w) ==
  CASE Len(w) >= 2 /\ w[1].t = "f()" -> IF w[2].t = "{" THEN 3 ELSE 0
    [] Len(w) >= 3 /\ w[1].t \in Names /\ w[2].t = "()" /\ w[3].t = "{" -> 4
    [] Len(w) >= 3 /\ w[1].t = "function" /\ w[3].t = "{" -> 4
    [] OTHER -> 0

\* The readers in the order run_single_pipeline tries them.
Parts(cmd, negated) ==
  LET w == cmd.words
      first == IF w = <<>> \/ w[1].q = "quoted" THEN "" ELSE w[1].t
      body == FunctionStart(w)
  IN IF first \in {"if", "while", "until", "for", "select", "case"} /\ cmd.assigns # <<>> THEN Broken
     ELSE IF first = "if" THEN IfClauses(w, 2, <<>>)
     ELSE IF first \in {"while", "until"} THEN WhileParts(w)
     ELSE IF first \in {"for", "select"} THEN ForParts(w, first)
     ELSE IF first = "case" THEN CaseParts(w)
     ELSE IF w # <<>> /\ IsWord(w[1], "(")
     THEN IF Last(w).t = ")" THEN Compound("sub", <<Slice(w, 2, Len(w))>>) ELSE Broken
     ELSE IF first = "{"
     THEN IF Len(w) >= 2 /\ Last(w).t = "}" /\ Plainish(Last(w)) THEN Compound("brace", <<Slice(w, 2, Len(w))>>)
          ELSE Broken
     ELSE IF ~negated /\ body # 0
     THEN IF Last(w).t # "}" \/ body >= Len(w) \/ cmd.assigns # <<>> \/ cmd.redirs # <<>> THEN Broken
          ELSE Compound("func", <<Slice(w, body, Len(w))>>)
     ELSE Compound("simple", w)

RECURSIVE Program(_)
\* The whole tree: what runs when every body is read again.
Program(toks) ==
  LET Node(c, redirs) ==
        [kind |-> c.kind, redirs |-> redirs,
         parts |-> IF c.kind \in {"simple", "error"} THEN c.parts
                   ELSE [k \in DOMAIN c.parts |-> Program(c.parts[k])]]
      Item(item) ==
        [op |-> item.op, neg |-> item.neg, bg |-> item.bg,
         commands |-> [c \in DOMAIN item.commands |->
                         Node(Parts(item.commands[c], item.neg), item.commands[c].redirs)]]
      Tree(line) == [err |-> line.err, items |-> [k \in DOMAIN line.items |-> Item(line.items[k])]]
  IN Tree(ParseLine(toks))

-----------------------------------------------------------------------------
(* A sourced file, and the argument of eval, is read line by line          *)
(* (executor.rs, source_logical_lines): the lines of a function, if, loop  *)
(* or case that begins a line are put back together with semicolons.  A    *)
(* line is its tokens; blank lines and lines that are comments have none.  *)

\* is_source_reserved_command_position, which looks at its own line only.
SourceCommandPosition(toks, i) ==
  LET before == SelectSeq(SubSeq(toks, 1, i - 1), Unquoted)
  IN before = <<>> \/ Last(before).t \in {";", "&&", "||", "|", "then", "else", "elif", "do"}

\* brace_delta, if_delta, done_delta and case_delta, for one token.
SourceDelta(block, toks, i) ==
  CASE block = "func" -> BraceGroupDelta(toks[i])
    [] block = "if" -> UpdateDepth(toks[i], SourceCommandPosition(toks, i), {"if"}, "fi")
    [] block = "loop" -> UpdateDepth(toks[i], SourceCommandPosition(toks, i), LoopWords, "done")
    [] block = "case" -> UpdateDepth(toks[i], SourceCommandPosition(toks, i), {"case"}, "esac")
LineDelta(block, toks) ==
  LET Sum[k \in 0..Len(toks)] == IF k = 0 THEN 0 ELSE Sum[k - 1] + SourceDelta(block, toks, k)
  IN Sum[Len(toks)]

\* function_definition_open_index and the first words of the *_depth_for_line.
SourceBlock(toks) ==
  CASE \/ Len(toks) > 1 /\ IsOneOf(toks[1], {"f()"}) /\ IsOneOf(toks[2], {"{"})
       \/ Len(toks) > 2 /\ IsOneOf(toks[1], {"function"}) /\ Unquoted(toks[2]) /\ IsOneOf(toks[3], {"{"}) -> "func"
    [] toks # <<>> /\ IsOneOf(toks[1], {"if"}) -> "if"
    [] toks # <<>> /\ IsOneOf(toks[1], LoopWords) -> "loop"
    [] toks # <<>> /\ IsOneOf(toks[1], {"case"}) -> "case"
    [] OTHER -> "none"
\* On the line that opens it, the depth never falls below zero.
OpeningDepth(block, toks) ==
  LET Depth[k \in 0..Len(toks)] == IF k = 0 THEN 0 ELSE Floor(Depth[k - 1] + SourceDelta(block, toks, k))
  IN Depth[Len(toks)]

\* One more line of the file.
SourceLine(s, toks) ==
  LET block == IF s.depth > 0 THEN s.block ELSE SourceBlock(toks)
      cur == IF s.depth = 0 THEN toks ELSE IF toks = <<>> THEN s.cur ELSE s.cur \o <<Op(";")>> \o toks
      depth == IF block = "none" THEN 0
               ELSE IF s.depth = 0 THEN OpeningDepth(block, toks) ELSE Floor(s.depth + LineDelta(block, toks))
  IN IF depth > 0 THEN [s EXCEPT !.cur = cur, !.block = block, !.depth = depth]
     ELSE [lines |-> Append(s.lines, cur), cur |-> <<>>, block |-> "none", depth |-> 0]
RECURSIVE SourceLines(_, _, _)
SourceLines(s, lines, i) == IF i > Len(lines) THEN s ELSE SourceLines(SourceLine(s, lines[i]), lines, i + 1)
source_logical_lines(lines) ==
  LET s == SourceLines([lines |-> <<>>, cur |-> <<>>, block |-> "none", depth |-> 0], lines, 1)
  IN SelectSeq(IF s.cur = <<>> THEN s.lines ELSE Append(s.lines, s.cur), LAMBDA l : l # <<>>)

=============================================================================
