----------------------------- MODULE MCLanguage -----------------------------
(***************************************************************************)
(* One TLC instance for the parts of the shell that compute, and for the   *)
(* ones that keep state and have no liveness to check.  A behaviour of the *)
(* first kind takes one input - a pattern and a text, a word and an        *)
(* environment, an expression or a condition, lines to read, a text for    *)
(* the lexer, a command tree, an invocation, bytes of the terminal, a      *)
(* search, commands whose output is shown, or redirections - and has the   *)
(* component it belongs to evaluate it; the properties compare the outcome *)
(* with ShellReference or with another component.  The others are          *)
(* behaviours of the shell's variables, of the history log and of the      *)
(* substitutions of a line; the variables a behaviour is not about keep a  *)
(* fixed value.                                                            *)
(***************************************************************************)
EXTENDS ShellReference, Variables, FiniteSets, TLC

VARIABLES
  in,    \* the input, or the component the behaviour is about
  out,   \* the outcome, once there is one
  log, torn, lock, guard, mem, temp, next, acked, hpc,
  graphs, shells, files, shown, said, excused, lost

historyOnly == <<log, torn, lock, guard, mem, temp, next, acked, hpc>>
substOnly == <<graphs, shells, files, shown, said, excused, lost>>
kept == <<in, vars, historyOnly, substOnly>>
allVars == <<kept, out>>

WideLetters == "w" :> <<"w1", "w2">>
X == INSTANCE Expansion WITH
  Letters <- <<"a", "b", "c">>, ClassMembers <- "alpha" :> {"a", "b", "c"},
  Wide <- WideLetters, Lower <- "A" :> "a", MaxDepth <- 12, MaxBraces <- 8, MaxBraceDepth <- 2,
  Blank <- {" ", "tab", "nl"}, Tree <- <<<<"a">>>> :> "file"
\* The same without its limits.
Unbounded == INSTANCE Patterns WITH
  Letters <- <<"a", "b", "c">>, ClassMembers <- "alpha" :> {"a", "b", "c"},
  Wide <- WideLetters, Lower <- "A" :> "a", MaxDepth <- 12, MaxBraces <- 1000, MaxBraceDepth <- 100
Numbers == "0" :> 0 @@ "2" :> 2 @@ "3" :> 3
A == INSTANCE Arithmetic WITH
  Width <- 4, Literals <- Numbers, Variables <- {"x", "y"}, MaxArith <- 40
L == INSTANCE Lexer WITH NameChars <- {"a", "b"}
S == INSTANCE Syntax WITH
  Names <- {"f", "x", "a", "w"}, Assignments <- {"x=1"}, CasePatterns <- {"p)"}

\* Texts of up to n characters.
Texts(chars, n) == UNION {[1..k -> chars] : k \in 0..n}

-----------------------------------------------------------------------------
(* Patterns.                                                               *)

Lit(c) == [k |-> "lit", c |-> c]
Star == [k |-> "star"]
Single == [k |-> "any"]
OneOf(m, neg) == [k |-> "set", members |-> m, neg |-> neg]
Group(k, alts) == [k |-> k, alts |-> alts]
Alts == <<<<Lit("a")>>, <<Lit("b"), Star>>>>
Elements == {Lit("a"), Lit("b"), Star, Single, OneOf(<<"a">>, FALSE), OneOf(<<"a", "-", "b">>, TRUE)}
Groups == {Group(k, Alts) : k \in {"@", "?", "*", "+", "!"}}
            \cup {Group("*", <<<<Group("@", Alts), Lit("a")>>>>)}
WideAlts == <<<<Lit("w")>>, <<Lit("a"), Star>>>>
WideElements == {<<Lit("w")>>, <<Single>>, <<OneOf(<<"w">>, TRUE)>>, <<Group("@", <<<<Single>>>>)>>}
                \cup {<<Group(k, WideAlts)>> : k \in {"@", "*", "+", "!"}}
PatternInputs ==
  {[of |-> "pattern", p |-> p, t |-> t] :
     p \in UNION {[1..k -> Elements \ {OneOf(<<"a", "-", "b">>, TRUE)}] : k \in 0..3}
           \cup {<<e>> : e \in Elements}
           \cup {<<g>> : g \in Groups} \cup {<<e, g>> : e \in Elements, g \in Groups}
           \cup {<<g, e>> : e \in Elements, g \in Groups},
     t \in Texts({"a", "b"}, 3)}
  \cup {[of |-> "pattern", p |-> p, t |-> t] :
     p \in WideElements \cup {<<e>> \o f : e \in Elements \cup {Lit("w")}, f \in WideElements},
     t \in Texts({"a", "w"}, 2)}

EvalPattern ==
  /\ in.of = "pattern" /\ out = <<>>
  /\ LET text == PatternText(in.p)
         toks == X!Active(text)
     IN out' = <<[match |-> X!GlobMatchBytes(text, in.t),
                removed |-> [how \in BOOLEAN \X BOOLEAN |->
                   IF how[2] THEN X!RemovePatternPrefix(in.t, toks, how[1])
                   ELSE X!RemovePatternSuffix(in.t, toks, how[1])],
                replaced |-> X!SubstitutePattern(in.t, text, <<"c">>, "first")]>>
  /\ UNCHANGED kept

Files == <<<<"a">>>> :> "file" @@ <<<<"b">>>> :> "dir" @@ <<<<"b">>, <<"a">>>> :> "file"
         @@ <<<<"b">>, <<"b">>>> :> "dir" @@ <<<<".", "a">>>> :> "file" @@ <<<<"A", "b">>>> :> "file"
Anywhere == [k |-> "**"]
Components == {<<Lit("a")>>, <<Lit("b")>>, <<Star>>, <<Lit("a"), Star>>, <<Lit("."), Star>>, <<Single>>, <<OneOf(<<"a", "-", "b">>, TRUE)>>,
               <<Anywhere>>}
PathText(parts) ==
  Between([i \in DOMAIN parts |-> IF parts[i] = <<Anywhere>> THEN <<"*", "*">> ELSE PatternText(parts[i])], <<"/">>)
GlobInputs ==
  {[of |-> "glob", parts |-> p, opts |-> [globstar |-> g, dotglob |-> d, nocaseglob |-> n]] :
     p \in UNION {[1..k -> Components] : k \in 1..2}, g, d, n \in BOOLEAN}
  \cup {[of |-> "glob", parts |-> p, opts |-> [globstar |-> g, dotglob |-> d, nocaseglob |-> FALSE]] :
     p \in [1..3 -> Components \ {<<Lit("a"), Star>>}], g, d \in BOOLEAN}

EvalGlob ==
  /\ in.of = "glob" /\ out = <<>>
  /\ out' = <<X!ExpandGlob(Files, X!Active(PathText(in.parts)), in.opts)>>
  /\ UNCHANGED kept

RECURSIVE NamesPath(_, _, _)
\* The paths that the components name: ** any directories, none included, or as
\* the last component anything below.
NamesPath(parts, path, opts) ==
  LET hidden == path # <<>> /\ path[1][1] = "."
      visible == ~hidden \/ opts.dotglob
      part == Head(parts)
  IN IF parts = <<>> THEN path = <<>>
     ELSE IF part = <<Anywhere>> /\ opts.globstar
     THEN \/ NamesPath(Tail(parts), path, opts)
          \/ path # <<>> /\ visible /\ NamesPath(parts, Tail(path), opts)
     ELSE LET p == IF part = <<Anywhere>> THEN <<Star>>
                   ELSE IF part[1].k = "set" THEN <<OneOf(<<"a", "b">>, TRUE)>> ELSE part
              name == IF opts.nocaseglob /\ (\E i \in DOMAIN p : p[i].k # "lit")
                      THEN [i \in DOMAIN path[1] |-> IF path[1][i] = "A" THEN "a" ELSE path[1][i]] ELSE path[1]
          IN path # <<>> /\ (visible \/ p[1] = Lit(".")) /\ Denotes(p, name) /\ NamesPath(Tail(parts), Tail(path), opts)

\* Braces: a piece is a character, alternatives or a range; of numbers, with what
\* it stands for.
Numbered(text, words) == [k |-> "numbers", text |-> text, words |-> words]
NumberPieces ==
  {Numbered(<<"0", "8", "..", "1", "0">>, <<<<"0", "8">>, <<"0", "9">>, <<"1", "0">>>>),
   Numbered(<<"1", "..", "-", "1", "..", "2">>, <<<<"1">>, <<"-", "1">>>>),
   Numbered(<<"2", "..", "0", "1", "..", "0">>, <<<<"0", "2">>, <<"0", "1">>>>),
   Numbered(<<"1", "..", "9">>, [i \in 1..9 |-> <<X!Digits[i + 1]>>]),
   Numbered(<<"9", "..", "1", "..", "-", "3">>, <<<<"9">>, <<"6">>, <<"3">>>>)}
Pieces == {Lit("a"), [k |-> "alts", alts |-> <<<<Lit("a")>>, <<>>>>],
           [k |-> "alts", alts |-> <<<<Lit("b"), [k |-> "alts", alts |-> <<<<Lit("a")>>, <<Lit("c")>>>>]>>, <<Lit("c")>>>>],
           [k |-> "range", a |-> 1, b |-> 3, step |-> 1], [k |-> "range", a |-> 3, b |-> 1, step |-> 2]}
BraceInputs == {[of |-> "brace", pieces |-> p] :
  p \in UNION {[1..k -> Pieces] : k \in 0..3} \cup UNION {[1..k -> Pieces \cup NumberPieces] : k \in 1..2}}
Alphabet == <<"a", "b", "c">>
RECURSIVE PieceText(_)
PieceText(p) ==
  CASE p.k = "lit" -> <<p.c>>
    [] p.k = "alts" -> <<"{">> \o Between([i \in DOMAIN p.alts |->
                          FlattenSeq([j \in DOMAIN p.alts[i] |-> PieceText(p.alts[i][j])])], <<",">>) \o <<"}">>
    [] p.k = "range" -> <<"{", Alphabet[p.a], "..", Alphabet[p.b]>>
                        \o (IF p.step = 2 THEN <<"..", "2">> ELSE <<>>) \o <<"}">>
    [] p.k = "numbers" -> <<"{">> \o p.text \o <<"}">>
RECURSIVE Spelled(_)
\* The texts a sequence of pieces stands for, in order.
Spelled(pieces) ==
  LET p == Head(pieces)
      ways == CASE p.k = "lit" -> <<<<p.c>>>>
        [] p.k = "alts" -> FlattenSeq([i \in DOMAIN p.alts |-> Spelled(p.alts[i])])
        [] p.k = "range" -> SelectSeq([i \in 1..3 |-> <<Alphabet[IF p.a < p.b THEN i ELSE 4 - i]>>],
                              LAMBDA t : p.step = 1 \/ t # <<"b">>)
        [] p.k = "numbers" -> p.words
      rest == Spelled(Tail(pieces))
  IN IF pieces = <<>> THEN <<<<>>>>
     ELSE FlattenSeq([w \in DOMAIN ways |-> [r \in DOMAIN rest |-> ways[w] \o rest[r]]])

RECURSIVE Nested(_)
\* How deep the pairs are: one inside or behind another is one deeper.
Nested(pieces) ==
  IF pieces = <<>> THEN 0
  ELSE LET p == Head(pieces)
           inner == IF p.k = "alts" THEN {Nested(p.alts[i]) : i \in DOMAIN p.alts} ELSE {0}
           depths == inner \cup {Nested(Tail(pieces))}
       IN IF p.k = "lit" THEN Nested(Tail(pieces)) ELSE 1 + CHOOSE n \in depths : \A m \in depths : m <= n

EvalBrace ==
  /\ in.of = "brace" /\ out = <<>>
  /\ out' = <<X!ExpandBraces(FlattenSeq([i \in DOMAIN in.pieces |-> PieceText(in.pieces[i])]))>>
  /\ UNCHANGED kept

IsGroup(e) == e.k \notin {"lit", "star", "any", "set"}
RECURSIVE Counts(_)
\* A pattern with an element that stands for one character.
Counts(p) == \E i \in DOMAIN p : p[i].k \in {"any", "set"} \/ (IsGroup(p[i]) /\ \E j \in DOMAIN p[i].alts : Counts(p[i].alts[j]))
CountsBytes(p, t) == "w" \in ToSet(t) /\ Counts(p) /\ \E i \in DOMAIN p : IsGroup(p[i])

\* A pattern matches exactly the texts it denotes, extended groups included, and
\* the operators that remove or replace cut where the shortest or the longest of
\* those texts ends; a path pattern names exactly the files whose components
\* match and are not hidden from it.  Braces spell every combination in order;
\* where there are too many, or too deep, at most the limit of texts come out, some
\* with braces left in them, and none is lost: expanded on, they spell the
\* combinations all the same (executor.rs, glob_match_tokens, match_extglob,
\* remove_pattern_prefix, find_pattern_match, expand_glob_parts, expand_braces).
\* CountsBytes: beside an extended group ? and [..] take one byte, not one character.
PatternsAgree ==
  /\ in.of = "glob" /\ out # <<>> => out[1] = {path \in DOMAIN Files : NamesPath(in.parts, path, in.opts)}
  /\ in.of = "brace" /\ out # <<>> =>
       LET all == Spelled(in.pieces)
       IN /\ Len(out[1]) <= 8
          /\ Len(all) <= 8 /\ Nested(in.pieces) <= 3 => out[1] = all
          /\ FlattenSeq([i \in DOMAIN out[1] |-> Unbounded!ExpandBraces(out[1][i])]) = all
  /\ in.of = "pattern" /\ out # <<>> /\ ~CountsBytes(in.p, in.t) =>
    LET ranged == [i \in DOMAIN in.p |->
          IF in.p[i].k = "set" /\ Len(in.p[i].members) = 3 THEN OneOf(<<"a", "b">>, in.p[i].neg) ELSE in.p[i]]
    IN /\ out[1].match = Denotes(ranged, in.t)
       /\ \A how \in BOOLEAN \X BOOLEAN : out[1].removed[how] = Removed(in.t, ranged, how[1], how[2])
       /\ in.p # <<>> => out[1].replaced = Replaced(in.t, ranged, <<"c">>)

-----------------------------------------------------------------------------
(* Words.                                                                  *)

Segm(quote, parts) == [quote |-> quote, parts |-> parts]
LitPart(c) == [k |-> "lit", c |-> c]
ParPart(n) == [k |-> "par", name |-> n]
Default(colon, word) == [k |-> "op", name |-> "u", op |-> "-", colon |-> colon, word |-> word]
Segments ==
  {Segm("none", <<LitPart("a")>>), Segm("double", <<LitPart(" ")>>), Segm("double", <<>>),
   Segm("none", <<ParPart("v")>>), Segm("double", <<ParPart("v")>>),
   Segm("double", <<ParPart("@")>>), Segm("double", <<ParPart("*")>>),
   Segm("none", <<Default(TRUE, <<Segm("none", <<ParPart("v")>>), Segm("double", <<ParPart("v")>>)>>)>>)}
Env(v, ifs, pos) ==
  [vars |-> "v" :> X!Val(v) @@ "u" :> X!Unset @@ "l" :> X!Unset, arrays |-> "x" :> <<<<"a">>, <<>>, <<"b", " ">>>>,
   lists |-> "l" :> <<<<"a">>, <<"b", " ">>>>, pos |-> pos, ifs |-> ifs,
   nounset |-> FALSE, readonly |-> {}, home |-> X!Unset, status |-> "0", subst |-> 0, opts |-> {"noglob"}]
IfsValues == {X!Unset, X!Val(<<>>), X!Val(<<":">>), X!Val(<<":", " ">>)}
WordInputs ==
  {[of |-> "word", w |-> w, env |-> Env(v, ifs, pos)] :
     w \in UNION {[1..k -> Segments] : k \in 1..2},
     v \in Texts({"a", " ", ":"}, 2) \cup {<<"a", ":", " ">>, <<"a", " ", ":">>, <<":", " ", ":">>, <<" ", "a", " ">>},
     ifs \in IfsValues, pos \in {<<>>, <<<<"a">>, <<>>>>}}
  \cup
  {[of |-> "word", w |-> w, env |-> Env(v, ifs, <<<<"a", " ">>, <<"b">>>>)] :
     w \in [1..3 -> Segments], v \in {<<" ", "a">>, <<":", "a", ":">>}, ifs \in {X!Unset, X!Val(<<":">>)}}

\* Parameters with an operator, arrays and lists, alone in a word.
Operator(op, word) == [k |-> "op", name |-> "v", op |-> op, colon |-> FALSE, word |-> word]
Bare(chars) == <<Segm("none", [i \in DOMAIN chars |-> LitPart(chars[i])])>>
OperatorParts ==
  {Operator(op, Bare(<<"a", "*">>)) : op \in {"#", "##"}} \cup {Operator(op, Bare(<<":", "*">>)) : op \in {"%", "%%"}}
  \cup {Operator("+", Bare(<<"b">>)), Operator("-", Bare(<<"b">>)), Operator("#len", <<>>)}
  \cup {[k |-> "op", name |-> "v", op |-> "first", colon |-> FALSE,
         pattern |-> <<LitPart(":")>>, with |-> <<LitPart("b")>>]}
  \cup {[k |-> "op", name |-> "v", op |-> ":", colon |-> FALSE, offset |-> o, length |-> l] :
           o \in {-1, 0, 1, 4}, l \in {<<>>, <<1>>, <<-1>>}}
ArrayParts == {[k |-> "arr", name |-> "x", sub |-> sub] : sub \in {"@", "*"}}
ListParts == ArrayParts \cup {ParPart("l")}
OperatorInputs ==
  {[of |-> "word", w |-> <<Segm(q, <<p>>)>>, env |-> Env(v, ifs, <<>>)] :
     q \in {"none", "double"}, p \in OperatorParts, ifs \in IfsValues,
     v \in Texts({"a", ":"}, 3) \cup {<<"a", ":", " ">>, <<" ", "a", " ">>}}
  \cup {[of |-> "word", w |-> <<Segm(IF p \in ArrayParts THEN "double" ELSE "none", <<LitPart("a"), p, LitPart("b")>>)>>,
         env |-> Env(<<>>, ifs, <<>>)] : p \in ListParts, ifs \in IfsValues}

\* What an operator leaves of the value.
OperatorText(p, v) ==
  LET n == Len(v)
      Within(x) == IF x < 0 THEN 0 ELSE IF x > n THEN n ELSE x
      from == Within(IF p.offset < 0 THEN n + p.offset ELSE p.offset)
      to == IF p.length = <<>> THEN n
            ELSE Within(IF p.length[1] < 0 THEN n + p.length[1] ELSE from + p.length[1])
  IN CASE p.op \in {"#", "##"} -> Removed(v, <<Lit("a"), Star>>, p.op = "##", TRUE)
       [] p.op \in {"%", "%%"} -> Removed(v, <<Lit(":"), Star>>, p.op = "%%", FALSE)
       [] p.op = "first" -> Replaced(v, <<Lit(":")>>, <<"b">>)
       [] p.op = "#len" -> <<<<"0", "1", "2", "3">>[n + 1]>>
       [] p.op = "+" -> <<"b">>
       [] p.op = "-" -> v
       [] p.op = ":" -> SubSeq(v, from + 1, to)

EvalWord ==
  /\ in.of = "word" /\ out = <<>>
  /\ out' = <<X!ExpandArgv(in.w, in.env, TRUE)>>
  /\ UNCHANGED kept

\* "a${x[@]}b": the neighbours go to the first and the last element; a${l}b, a
\* native list, repeats them; "a${x[*]}b" is one text, joined with the first
\* character of IFS, or with a blank when IFS is unset.
ListUnits(seg, env) ==
  LET p == seg.parts[2]
      items == IF p = ParPart("l") THEN env.lists["l"] ELSE env.arrays["x"]
      all == p # ParPart("l") /\ p.sub = "*"
      sep == IF ~env.ifs.set THEN <<" ">> ELSE IF env.ifs.text = <<>> THEN <<>> ELSE <<Head(env.ifs.text)>>
      Item1(i) == (IF i = 1 \/ p = ParPart("l") THEN <<"a">> ELSE <<>>) \o items[i]
                  \o (IF i = Len(items) \/ p = ParPart("l") THEN <<"b">> ELSE <<>>)
  IN IF all THEN Units(<<"a">> \o Between(items, sep) \o <<"b">>, FALSE)
     ELSE Between([i \in DOMAIN items |-> <<Mark>> \o Units(Item1(i), FALSE)], <<Boundary>>)

RECURSIVE WordUnits(_, _)
\* The characters of a word with what splitting may do to them.
WordUnits(w, env) ==
  LET v == env.vars["v"].text
      Star1 == Between(env.pos, X!StarSeparator(env, TRUE))
      Of(seg) ==
        CASE seg.parts = <<>> -> <<Mark>>
          [] seg.parts = <<ParPart("@")>> ->
               Between([i \in DOMAIN env.pos |-> <<Mark>> \o Units(env.pos[i], FALSE)], <<Boundary>>)
          [] seg.parts = <<ParPart("*")>> -> <<Mark>> \o Units(Star1, FALSE)
          [] seg.parts = <<ParPart("v")>> ->
               IF seg.quote = "double" THEN <<Mark>> \o Units(v, FALSE) ELSE Units(v, TRUE)
          [] seg.parts \in {<<LitPart("a")>>, <<LitPart(" ")>>} -> Units(<<seg.parts[1].c>>, FALSE)
          [] \E i \in DOMAIN seg.parts : seg.parts[i] \in ListParts -> ListUnits(seg, env)
          [] seg.parts[1] \in OperatorParts ->
               LET text == OperatorText(seg.parts[1], v)
               IN IF seg.quote = "double" THEN <<Mark>> \o Units(text, FALSE) ELSE Units(text, TRUE)
          [] OTHER -> WordUnits(seg.parts[1].word, env)
  IN FlattenSeq([i \in DOMAIN w |-> Of(w[i])])

\* A word with "$@" is split segment by segment, so that blanks at the end of an
\* unquoted expansion do not separate it from its neighbour.
JoinedAtPositionals(w, env) ==
  /\ \E i \in DOMAIN w : w[i] = Segm("double", <<ParPart("@")>>)
  /\ \E i \in DOMAIN w : w[i].quote = "none" /\ w[i].parts # <<LitPart("a")>>

\* expand_array_at_fields joins with nothing when IFS is unset.
JoinedWithNothing(w, env) ==
  ~env.ifs.set /\ \E i \in DOMAIN w : \E j \in DOMAIN w[i].parts : w[i].parts[j] \in ArrayParts /\ w[i].parts[j].sub = "*"

\* A line whose words assign and require: ${u:=$v}, ${u?}, "$u" and a; or name a
\* file that is there, *, or the file of a substitution.
Assigning == [k |-> "op", name |-> "u", op |-> "=", colon |-> TRUE, word |-> <<Segm("none", <<ParPart("v")>>)>>]
Requiring == [k |-> "op", name |-> "u", op |-> "?", colon |-> FALSE, word |-> <<>>]
LineWords == {<<Segm("none", <<Assigning>>)>>, <<Segm("double", <<Requiring>>)>>, <<Segm("double", <<ParPart("u")>>)>>,
              <<Segm("none", <<LitPart("a")>>)>>}
Globbing == LitPart("*")
Process(ok) == [k |-> "proc", path |-> <<"p", "*">>, ok |-> ok]
FileWords == {<<Segm("none", <<p>>)>> : p \in {Globbing, Process(TRUE), Process(FALSE)}}
LineInputs ==
  {[of |-> "line", words |-> w, agenv |-> FALSE, env |-> [Env(<<"a", " ", "b">>, X!Unset, <<>>) EXCEPT !.readonly = r]] :
     w \in [1..4 -> LineWords], r \in {{}, {"u"}}}
  \cup {[of |-> "line", words |-> <<f, g, w, w>>, agenv |-> a, env |-> [Env(<<"a", " ", "b">>, X!Unset, <<>>) EXCEPT !.opts = {}]] :
     f, g \in FileWords \cup LineWords, w \in LineWords, a \in BOOLEAN}
EvalLine ==
  /\ in.of = "line" /\ out = <<>>
  /\ out' = <<X!ExpandInvocation([argv |-> SubSeq(in.words, 1, 2), noSplit |-> FALSE, agenv |-> in.agenv, assignments |-> <<in.words[3]>>,
                                  redirections |-> <<[kind |-> "herestring", word |-> in.words[4]]>>], in.env)>>
  /\ UNCHANGED kept

\* The words of a line from left to right: the texts they have when nothing is
\* split, and u after each.
LineTexts(words, v, readonly) ==
  LET After[k \in 0..Len(words)] ==
        IF k = 0 THEN [ok |-> TRUE, u |-> X!Unset, texts |-> <<>>]
        ELSE LET old == After[k - 1]
                 part == words[k][1].parts[1]
                 new == IF part = Assigning /\ ~old.u.set THEN X!Val(v) ELSE old.u
             IN IF ~old.ok THEN old
                ELSE IF (part = Requiring /\ ~old.u.set) \/ (new # old.u /\ readonly) \/ part = Process(FALSE)
                THEN [old EXCEPT !.ok = FALSE]
                ELSE [ok |-> TRUE, u |-> new,
                      texts |-> Append(old.texts, CASE part = LitPart("a") -> <<"a">>
                                  [] part = Globbing -> IF in.agenv THEN <<"*">> ELSE <<"a">>
                                  [] part = Process(TRUE) -> part.path
                                  [] OTHER -> new.text)]
  IN After[Len(words)]

R == INSTANCE ReadBuiltin WITH MaxLine <- 6

\* What read is given: a text, cut into chunks while it is read.
ReadInputs ==
  {[of |-> "read", text |-> t, raw |-> raw, names |-> n, ifs |-> ifs] :
     t \in Texts({"a", " ", ":", "bs", "nl"}, 4) \cup {<<"a", "bs", "cr", "nl", "a">>, <<"a", "cr", "nl">>,
           <<"a", "a", "a", "a", "a", "a", "nl">>, <<"a", "a", "a", "bs", "nl", "a", "a", "a", "nl">>},
     raw \in BOOLEAN, n \in 1..2, ifs \in {{" ", ":"}, {}}}
RECURSIVE Reads(_, _)
\* read until it says there is no more.
Reads(chunks, how) ==
  LET Then(r) == <<r>> \o IF r.status = "0" THEN Reads(r.rest, how) ELSE <<>>
  IN Then(R!run_read_invocation(chunks, how.raw, how.names, how.ifs))
EvalRead ==
  /\ in.of = "read" /\ out = <<>>
  /\ \E cut \in 0..Len(in.text) :
       LET chunks == SelectSeq(<<SubSeq(in.text, 1, cut), SubSeq(in.text, cut + 1, Len(in.text))>>, LAMBDA c : c # <<>>)
       IN out' = <<Reads(chunks, in)>>
  /\ UNCHANGED kept

RECURSIVE LogicalLines(_, _, _)
\* The logical lines of a text, one character at a time; a backslash joins a line
\* to the next one or stands for the character behind it.
LogicalLines(text, raw, sofar) ==
  IF text = <<>> THEN IF sofar = <<>> THEN <<>> ELSE <<sofar[1]>>
  ELSE LET c == Head(text)
           cur == IF sofar = <<>> THEN <<>> ELSE sofar[1]
           crlf == Len(text) > 1 /\ c = "cr" /\ text[2] = "nl"
           end == IF crlf THEN 2 ELSE IF c = "nl" THEN 1 ELSE 0
           Go(k, line) == LogicalLines(SubSeq(text, k + 1, Len(text)), raw, line)
       IN IF end > 0 THEN <<cur>> \o Go(end, <<>>)
          ELSE IF raw \/ c # "bs" THEN Go(1, <<Append(cur, c)>>)
          ELSE IF Len(text) = 1 THEN <<cur>>
          ELSE IF text[2] = "nl" THEN Go(2, IF cur = <<>> THEN <<>> ELSE <<cur>>)
          ELSE IF Len(text) > 2 /\ text[2] = "cr" /\ text[3] = "nl" THEN Go(3, IF cur = <<>> THEN <<>> ELSE <<cur>>)
          ELSE Go(2, <<Append(cur, text[2])>>)
\* Seven characters in one line, or seven once the continuation is joined.
TooLongLine(text, raw) == Len(text) = 7 \/ (~raw /\ Len(text) = 9)

\* A line cut for two names as word splitting cuts it, the second taking the rest,
\* which may lose an empty field at its end (trim_read_remainder looks one
\* character back for another delimiter, and blanks may stand between).
CutForNames(values, line) ==
  LET fields(t) == Split(Units(t, TRUE), in.ifs, {" ", "tab", "nl"})
      all == fields(line)
  IN CASE in.names = 1 -> values = <<line>>
       [] in.names = 2 /\ in.ifs = {} -> values = <<line, <<>>>>
       [] in.names = 2 /\ in.ifs # {} ->
            /\ values[1] = IF all = <<>> THEN <<>> ELSE all[1]
            /\ IF Len(all) <= 2 THEN values[2] = IF Len(all) = 2 THEN all[2] ELSE <<>>
               ELSE \/ fields(values[2]) = Tail(all)
                    \/ Last(all) = <<>> /\ fields(values[2]) = Front(Tail(all))

\* Fields are cut exactly where the characters of IFS that came from an unquoted
\* parameter are, quoted text and empty quotes keep their field, "$@" makes one
\* field of each positional and "${x[@]}" of each element; nothing is said of an
\* array without quotes, whose elements the code leaves whole.  A line is expanded from left to right, arguments,
\* assignments, redirections, so that what one word assigns the next one sees and
\* an error leaves what came before it; the file of a
\* substitution is one argument, and agenv takes patterns as they are (executor.rs, expand_word_fragments,
\* split_expanded_fields, expand_quoted_positional_list_fields,
\* expand_invocation).  However its input is cut into reads, read takes one logical
\* line after the other, loses none, and cuts each as a word is cut
\* (run_read_invocation).
FieldsFollowQuoting ==
  /\ in.of = "line" /\ out # <<>> =>
       LET v == in.env.vars["v"].text
           all == LineTexts(in.words, v, "u" \in in.env.readonly)
           Argument(k) == IF in.words[k][1].parts[1] = Assigning THEN <<<<"a">>, <<"b">>>> ELSE <<all.texts[k]>>
       IN /\ out[1].ok = all.ok /\ out[1].env.vars["u"] = all.u
          /\ all.ok => /\ out[1].argv = Argument(1) \o Argument(2)
                       /\ out[1].assignments = <<all.texts[3]>>
                       /\ out[1].redirections = <<Append(all.texts[4], "nl")>>
  /\ in.of = "word" /\ out # <<>> =>
       \/ JoinedAtPositionals(in.w, in.env) \/ JoinedWithNothing(in.w, in.env)
       \/ /\ out[1].ok
          /\ out[1].fields = Split(WordUnits(in.w, in.env), ToSet(X!Ifs(in.env)), {" ", "tab", "nl"})
  /\ in.of = "read" /\ out # <<>> =>
       LET reads == out[1]
           lines == LogicalLines(in.text, in.raw, <<>>)
       IN IF TooLongLine(in.text, in.raw) THEN Last(reads).status = "error"
          ELSE /\ Len(reads) = Len(lines) + 1 /\ Last(reads).status = "1"
               /\ \A i \in DOMAIN lines : CutForNames(reads[i].values, lines[i])

-----------------------------------------------------------------------------
(* Arithmetic.                                                             *)

Leaves == {Num("2"), Num("3"), Var("x")}
BinOps == {"||", "&&", "|", "^", "&", "==", "<", "<<", "+", "-", "*", "%", "**"}
Small == {Bin(op, a, z) : op \in BinOps, a \in {Num("3"), Var("x")}, z \in {Num("2"), Num("3")}}
           \cup {Un(op, e) : op \in {"-", "!", "~"}, e \in {Num("2"), Var("x")}}
           \cup {Step("x", op, post) : op \in {"++", "--"}, post \in BOOLEAN}
           \cup {Set("x", op, Num("3")) : op \in {"=", "+=", "<<="}}
Exprs == Small
           \cup {Bin(op, a, z) : op \in BinOps, a \in Small, z \in {Num("3"), Var("x")}}
           \cup {Bin(op, z, a) : op \in BinOps, a \in Small, z \in {Num("2"), Var("x")}}
           \cup {Cond(Var("x"), a, z) : a \in Small, z \in Leaves}
           \cup {Cond(a, Num("2"), Bin("+", Var("x"), Num("3"))) : a \in Small}
           \cup {Un("-", a) : a \in Small}
           \cup {Set("y", "-=", a) : a \in Small} \cup {Bin("/", a, z) : a \in Small, z \in {Num("0"), Num("3")}}
ArithInputs ==
  {[of |-> "arith", e |-> e, env |-> [vars |-> ("x" :> x @@ "y" :> 1), readonly |-> r]] :
     e \in Exprs, x \in {-3, 0, 7}, r \in {{}, {"x"}}}

EvalArith ==
  /\ in.of = "arith" /\ out = <<>>
  /\ out' = <<A!EvalArithmetic(ExprText(in.e), in.env)>>
  /\ UNCHANGED kept

Value(v, env) == [v |-> v, env |-> env, ok |-> TRUE]
Fails(env) == [v |-> 0, env |-> env, ok |-> FALSE]
Stores(v, env, x, stored) ==
  IF x \in env.readonly THEN Fails(env) ELSE Value(v, [env EXCEPT !.vars[x] = stored])

RECURSIVE Meaning(_, _)
\* The value of a tree, its operands from left to right.
Meaning(e, env) ==
  CASE e.k = "num" -> Value(Numbers[e.text], env)
    [] e.k = "var" -> Value(env.vars[e.text], env)
    [] e.k = "un" -> LET a == Meaning(e.a, env)
         IN IF ~a.ok THEN a
            ELSE Value(CASE e.op = "-" -> A!Wrap(-a.v) [] e.op = "!" -> IF a.v = 0 THEN 1 ELSE 0
                         [] e.op = "~" -> -a.v - 1, a.env)
    [] e.k = "step" ->
         LET old == env.vars[e.x]
             new == A!Wrap(old + IF e.op = "++" THEN 1 ELSE -1)
         IN Stores(IF e.post THEN old ELSE new, env, e.x, new)
    [] e.k = "set" -> LET a == Meaning(e.a, env)
             v == IF e.op = "=" THEN a.v ELSE A!Apply(A!AssignmentOps[e.op], a.env.vars[e.x], a.v)
         IN IF ~a.ok THEN a ELSE Stores(v, a.env, e.x, v)
    [] e.k = "bin" -> LET a == Meaning(e.a, env)
             z == Meaning(e.b, a.env)
         IN IF ~a.ok THEN a ELSE IF ~z.ok THEN z
            ELSE IF e.op \in {"/", "%"} /\ z.v = 0 THEN Fails(z.env) ELSE Value(A!Apply(e.op, a.v, z.v), z.env)
    [] e.k = "cond" -> LET c == Meaning(e.c, env)
             a == Meaning(e.a, c.env)
             z == Meaning(e.b, a.env)
         IN IF ~c.ok THEN c ELSE IF ~a.ok THEN a ELSE IF ~z.ok THEN z
            ELSE Value(IF c.v # 0 THEN a.v ELSE z.v, z.env)

\* Conditions: what each test is worth to [[ and to test, "bad" where it is refused.
Worth == (<<"a">> :> <<"yes", "yes">>) @@ (<<"">> :> <<"no", "no">>) @@ (<<"-n", "a">> :> <<"yes", "yes">>)
         @@ (<<"-f", "a">> :> <<"yes", "yes">>) @@ (<<"-e", "b">> :> <<"no", "no">>)
         @@ (<<"a", "==", "*">> :> <<"yes", "no">>) @@ (<<"a", "!=", "b">> :> <<"yes", "yes">>)
         @@ (<<"1", "-lt", "2">> :> <<"yes", "yes">>) @@ (<<"1", "-eq", "a">> :> <<"no", "bad">>)
         @@ (<<"a", "=~", "a">> :> <<"yes", "bad">>) @@ (<<"a", "=~", "b">> :> <<"no", "bad">>)
         @@ (<<"b", "=~", "[">> :> <<"bad", "bad">>) @@ (<<"-t", "1">> :> <<"no", "bad">>)
         @@ (<<"a", "-nt", "b">> :> <<"no", "bad">>) @@ (<<"a", "<", "b">> :> <<"yes", "bad">>)
         @@ (<<"a", ">", "b">> :> <<"no", "bad">>) @@ (<<"b", ">", "a">> :> <<"yes", "bad">>)
AllOrSame(pattern, text) == pattern \in {"*", text}
RegexSays(regex, text) == IF regex = "[" THEN "bad" ELSE IF regex = text THEN "yes" ELSE "no"
Alphabetical(x, y) == <<x, y>> \in {<<"", "a">>, <<"", "b">>, <<"a", "b">>}
T == INSTANCE Conditions WITH
  Before <- Alphabetical, Glob <- AllOrSame, Regex <- RegexSays, FileTests <- {<<"-f", "a">>},
  Numerals <- ("1" :> 1 @@ "2" :> 2)

Tests == {[k |-> "test", words |-> w] : w \in DOMAIN Worth}
Joined == [k : {"and", "or"}, l : Tests, r : Tests]
FewJoined == {c \in Joined : c.l.words \in {<<"a">>, <<"">>, <<"a", "=~", "a">>}
                              /\ c.r.words \in {<<"-n", "a">>, <<"-e", "b">>, <<"a", "=~", "b">>}}
FewTests == {c \in Tests : c.words \in {<<"a">>, <<"-e", "b">>, <<"1", "-eq", "a">>}}
Negated(cs) == {[k |-> "not", e |-> c] : c \in cs}
Conds == Tests \cup Joined \cup Negated(Tests) \cup Negated(FewJoined) \cup Negated(Negated(FewTests))
         \cup [k : {"and", "or"}, l : FewJoined \cup Negated(FewJoined), r : FewTests]
         \cup [k : {"and", "or"}, l : FewTests, r : FewJoined \cup Negated(FewTests)]
         \cup [k : {"and", "or"}, l : FewJoined, r : FewJoined]

RECURSIVE CondText(_, _, _)
\* The words of a condition with the parentheses its place needs: 0 anywhere, 1
\* beside an and, 2 behind a not.
CondText(c, ops, place) ==
  LET own == CASE c.k = "or" -> 0 [] c.k = "and" -> 1 [] OTHER -> 2
      text == CASE c.k = "test" -> c.words
                [] c.k = "not" -> <<"!">> \o CondText(c.e, ops, 2)
                [] OTHER -> CondText(c.l, ops, own) \o <<ops[c.k]>> \o CondText(c.r, ops, own + 1)
  IN IF own < place THEN <<"(">> \o text \o <<")">> ELSE text

EvalCond ==
  /\ in.of = "cond" /\ out = <<>>
  /\ out' = <<[cond |-> T!eval_double_bracket(CondText(in.c, [and |-> "&&", or |-> "||"], 0)),
               test |-> T!builtin_test(CondText(in.c, [and |-> "-a", or |-> "-o"], 0))]>>
  /\ UNCHANGED kept

RECURSIVE TestsOf(_), Truth(_, _)
\* The tests of a condition, from left to right, and its truth.
TestsOf(c) == CASE c.k = "test" -> <<c.words>> [] c.k = "not" -> TestsOf(c.e)
                [] OTHER -> TestsOf(c.l) \o TestsOf(c.r)
Truth(c, who) == CASE c.k = "test" -> Worth[c.words][who] = "yes" [] c.k = "not" -> ~Truth(c.e, who)
                   [] c.k = "and" -> Truth(c.l, who) /\ Truth(c.r, who)
                   [] c.k = "or" -> Truth(c.l, who) \/ Truth(c.r, who)
StatusOf(c, who) ==
  IF \E w \in Range(TestsOf(c)) : Worth[w][who] = "bad" THEN 2 ELSE IF Truth(c, who) THEN 0 ELSE 1
Rematch(c) ==
  LET matches == SelectSeq(TestsOf(c), LAMBDA w : Len(w) = 3 /\ w[2] = "=~")
  IN IF matches = <<>> THEN <<>> ELSE IF Last(matches)[1] = Last(matches)[3] THEN <<Last(matches)[1]>> ELSE <<"unset">>

\* The text of an expression has the value of its tree under the precedence and
\* associativity of C, wraps at the width, and leaves the variables its
\* assignments say; a readonly variable or a zero divisor stops it
\* (executor.rs, ArithmeticParser).  The words of a condition have the truth of its
\* tree in [[ as in test, && and -a binding tighter than || and -o; one test that
\* is refused makes the whole an error, whatever the others say, and BASH_REMATCH
\* is what the last =~ left (executor.rs, DoubleBracket; builtins.rs, TestParser).
ExpressionsAgree ==
  /\ in.of = "arith" /\ out # <<>> =>
       LET m == Meaning(in.e, in.env)
       IN (out[1].err = "none") = m.ok /\ out[1].env = m.env /\ (m.ok => out[1].v = m.v)
  /\ in.of = "cond" /\ out # <<>> =>
       /\ out[1].test = StatusOf(in.c, 2)
       /\ out[1].cond.status = StatusOf(in.c, 1)
       /\ out[1].cond.status # 2 => out[1].cond.rematch = Rematch(in.c)

-----------------------------------------------------------------------------
(* Text.                                                                   *)

TextInputs ==
  {[of |-> "text", s |-> s] :
     s \in Texts({"a", " ", "sq", "dq", "bs", ";", "nl", "<"}, 4)
           \cup Texts({"a", " ", "dq", "$", "(", ")", "<", "#", "2", ">"}, 4)
           \cup {<<"dq">> \o t \o <<"dq", " ", "<", "<", "a">> : t \in Texts({"a", "sq", "bs", "$", "bt", "{", "}"}, 3)}
           \cup {<<"(", "(">> \o t \o <<")", ")">> : t \in Texts({"a", "<"}, 4)}
           \cup {<<"a", "<", "<">> \o t : t \in Texts({"a", "sq", "dq", " ", "bs", "<", "-", ";"}, 3)}}

EvalText ==
  /\ in.of = "text" /\ out = <<>>
  /\ LET r == L!Lex(in.s)
     IN out' = <<[lexed |-> r,
                again |-> IF r.ok THEN L!Lex(L!WordsToSource([k \in DOMAIN r.toks |-> L!WordSegmentsToCompoundSource(r.toks[k])])) ELSE r,
                body |-> IF r.ok THEN L!Lex(L!WordsToSource([k \in DOMAIN r.toks |-> L!WordSegmentsToSource(r.toks[k])])) ELSE r,
                ops |-> L!ScanHeredocOps(in.s)]>>
  /\ UNCHANGED kept

\* A token as it will be expanded: characters with whether they are live, the
\* substitutions of double quotes as they are written.
TokenMeaning(tok) ==
  LET Live(seg, i) == seg.quote = "none" \/ (seg.quote = "double" /\ ToSet(seg.text) \cap {"$", "bt"} # {})
  IN [op |-> tok.op, kept |-> tok.segs # <<>>, text |-> tok.text,
      live |-> FlattenSeq([k \in DOMAIN tok.segs |->
                 [i \in DOMAIN tok.segs[k].text |-> Live(tok.segs[k], i)]])]
Meanings(toks) == [k \in DOMAIN toks |-> TokenMeaning(toks[k])]

\* A substitution between double quotes that has a quote or a backslash in it.
QuoteInSubstitution(tok) ==
  \E k \in DOMAIN tok.segs : tok.segs[k].quote = "double"
     /\ ToSet(tok.segs[k].text) \cap {"$", "bt"} # {} /\ ToSet(tok.segs[k].text) \cap {"dq", "bs"} # {}

\* Bare text that the writer of a function's body puts between quotes.
Requoted(tok) ==
  \E k \in DOMAIN tok.segs :
    tok.segs[k].quote = "none" /\ L!ShellEscapeUnquoted(tok.segs[k].text) # tok.segs[k].text

\* A backslash at the very end of the text.
LoneContinuation(tok) == ~tok.op /\ tok.segs = <<>>

\* A << or <<- with a word for its delimiter, "" included.
HereDocument(toks, k) ==
  /\ toks[k].op /\ toks[k].text \in {<<"<", "<">>, <<"<", "<", "-">>} /\ k < Len(toks)
  /\ ~toks[k + 1].op /\ toks[k + 1].segs # <<>>
  /\ toks[k + 1].text = <<>> \/ toks[k + 1].text[1] \notin {"(", ")"}

\* Where the search, which reads characters, takes more for a here-document than the
\* lexer does: behind or before a descriptor (2<<a, <<2>), a comment for the
\* delimiter (<<#a), and arithmetic, whose << shifts: ((a<<2)).
Misread(s) ==
  LET Ends(i) == CHOOSE k \in i..(Len(s) + 1) : (k > Len(s) \/ s[k] # " ") /\ \A j \in i..(k - 1) : s[j] = " "
  IN \E i \in 1..(Len(s) - 1) :
       \/ s[i] = "2" /\ s[i + 1] \in {"<", ">"}
       \/ s[i] = "(" /\ s[i + 1] = "("
       \/ s[i] = "<" /\ Ends(i + 1) <= Len(s) /\ s[Ends(i + 1)] = "#"

\* Here-documents: what is written after << and the lines below.
Documents ==
  {d \in [strip : BOOLEAN, quoted : BOOLEAN, delim : {<<"a">>, <<"b">>},
          body : UNION {[1..k -> {<<"a">>, <<"tab", "b">>, <<"a", "<", "<", "b">>, <<>>}] : k \in 0..2}] :
     \A k \in DOMAIN d.body : d.body[k] # d.delim /\ (d.strip => d.body[k] # <<"tab">> \o d.delim)}
Announced(d) ==
  <<" ", "<", "<">> \o (IF d.strip THEN <<"-">> ELSE <<>>)
  \o (IF d.quoted THEN <<"sq">> \o d.delim \o <<"sq">> ELSE d.delim)
Stripped(d) == [k \in DOMAIN d.body |-> IF d.strip /\ d.body[k] = <<"tab", "b">> THEN <<"b">> ELSE d.body[k]]
HereInputs ==
  {[of |-> "here", docs |-> d] : d \in {<<x>> : x \in Documents}
     \cup {<<x, y>> : x \in Documents, y \in {z \in Documents : ~z.quoted /\ Len(z.body) = 1}}}
Lines(docs) ==
  <<<<"a">> \o FlattenSeq([i \in DOMAIN docs |-> Announced(docs[i])])>>
  \o FlattenSeq([i \in DOMAIN docs |-> Append(docs[i].body, docs[i].delim)]) \o <<<<"b">>>>
EvalHere ==
  /\ in.of = "here" /\ out = <<>>
  /\ out' = <<L!ExtractHeredocBodies(Lines(in.docs))>>
  /\ UNCHANGED kept

\* Once the words of a body are written out and read again - at every level of
\* nesting - they are the words that were there (executor.rs, words_to_source); in
\* the body of a function a word that had to be quoted keeps its text
\* (word_segments_to_source).  The search for here-documents never finds fewer
\* << than the lexer will see, and more only where Misread says; every body goes to
\* its own redirection, without its tabs after <<- and unexpanded after a quoted
\* delimiter, and the command keeps its other lines (parser.rs, scan_heredoc_ops,
\* extract_heredoc_bodies).
TextReadAgain ==
  /\ in.of = "here" /\ out # <<>> =>
       out[1] = [ok |-> TRUE, commands |-> <<Lines(in.docs)[1], <<"b">>>>,
                 bodies |-> [i \in DOMAIN in.docs |-> [lines |-> Stripped(in.docs[i]), expand |-> ~in.docs[i].quoted]]]
  /\ in.of = "text" /\ out # <<>> /\ out[1].lexed.ok =>
    /\ \/ \E k \in DOMAIN out[1].lexed.toks :
            QuoteInSubstitution(out[1].lexed.toks[k]) \/ LoneContinuation(out[1].lexed.toks[k])
       \/ /\ out[1].again.ok /\ Meanings(out[1].again.toks) = Meanings(out[1].lexed.toks)
          /\ out[1].body.ok /\ Len(out[1].body.toks) = Len(out[1].lexed.toks)
          /\ \A k \in DOMAIN out[1].lexed.toks :
               LET was == TokenMeaning(out[1].lexed.toks[k]) is == TokenMeaning(out[1].body.toks[k])
               IN IF Requoted(out[1].lexed.toks[k]) THEN is.text = was.text /\ ~is.op ELSE is = was
    /\ "nl" \notin ToSet(in.s) =>
         LET seen == Cardinality({k \in DOMAIN out[1].lexed.toks : HereDocument(out[1].lexed.toks, k)})
         IN /\ Len(out[1].ops) >= seen
            /\ Len(out[1].ops) = seen \/ Misread(in.s) \/ LoneContinuation(Last(out[1].lexed.toks))

-----------------------------------------------------------------------------
(* Commands.                                                               *)

One(c) == ListOf(<<Item("always", FALSE, FALSE, <<c>>)>>)
Cmd(t) == Simple(<<Word1(t)>>)
BaseLists ==
  <<One(Cmd("a")),
    ListOf(<<Item("always", FALSE, FALSE, <<Cmd("a")>>), Item("and", TRUE, FALSE, <<Cmd("b")>>)>>),
    ListOf(<<Item("always", FALSE, TRUE, <<Cmd("a"), Cmd("b")>>), Item("always", FALSE, FALSE, <<Cmd("c")>>)>>),
    ListOf(<<Item("always", FALSE, FALSE, <<Cmd("a")>>), Item("or", FALSE, TRUE, <<Cmd("b")>>)>>)>>
O == One(Cmd("a"))
\* Every compound with one of its parts filled in, and the lists it stands in.
Around(l) ==
  <<Holding("if", <<l, O>>), Holding("if", <<O, l>>), Holding("if", <<O, O, l>>), Holding("if", <<O, O, l, O>>),
    Holding("while", <<l, O>>), Holding("while", <<O, l>>), Holding("for", <<l>>),
    Holding("case", <<O, l>>), Holding("sub", <<l>>), Holding("brace", <<l>>), Holding("func", <<l>>),
    Holding("cfor", <<l>>)>>
Contexts(c) ==
  <<One(c), ListOf(<<Item("always", FALSE, FALSE, <<Cmd("a")>>), Item("or", TRUE, FALSE, <<c>>)>>),
    ListOf(<<Item("always", FALSE, FALSE, <<Cmd("a"), c>>)>>),
    One([c EXCEPT !.redirs = <<<<">", "w">>>>])>>
Build(base, path) ==
  FoldLeft(LAMBDA l, step : Contexts(Around(l)[step[1]])[step[2]], BaseLists[base], path)

\* A tree is its innermost list and the steps outwards; a function definition
\* has no redirections and is not negated.
Steps == {step \in (1..12) \X (1..4) : step[1] = 11 => step[2] \in {1, 3}}
CommandInputs ==
  {[of |-> "command", base |-> z, path |-> p] : z \in 1..4, p \in {<<>>} \cup {<<i>> : i \in Steps}}
  \cup {[of |-> "command", base |-> z, path |-> <<i, <<k, 1>>>>] : z \in {1, 2}, i \in Steps, k \in 1..11}
  \cup {[of |-> "command", base |-> 1, path |-> <<<<i, 1>>, <<j, 1>>, <<k, 1>>>>] : i, j, k \in 1..11}

RECURSIVE FileOf(_, _)
\* The text as a file, with a line for every part: a semicolon ends a line, and a
\* pair of them stands at the end of one.
FileOf(toks, line) ==
  LET semi(i) == i <= Len(toks) /\ toks[i] = Oper(";")
  IN IF toks = <<>> THEN <<line>>
     ELSE IF semi(1) /\ semi(2)
     THEN <<line \o SubSeq(toks, 1, 2)>> \o FileOf(SubSeq(toks, 3, Len(toks)), <<>>)
     ELSE IF semi(1) THEN <<line>> \o FileOf(Tail(toks), <<>>)
     ELSE FileOf(Tail(toks), Append(line, Head(toks)))

EvalCommand ==
  /\ in.of = "command" /\ out = <<>>
  /\ LET toks == ListText(Build(in.base, in.path))
     IN out' = <<[tree |-> S!Program(toks),
                 sourced |-> LET lines == S!source_logical_lines(FileOf(toks, <<>>))
                             IN [k \in DOMAIN lines |-> S!Program(lines[k])],
                 open |-> {k \in 1..Len(toks) : S!IsIncomplete(SubSeq(toks, 1, k))},
                 unfinished |-> {k \in 1..Len(toks) :
                   S!ParseLine(SubSeq(toks, 1, k)).err \in {"unterminated", "missing", "empty"}}]>>
  /\ UNCHANGED kept

\* A compound command right behind {, (, !, a case pattern or the word that opens a
\* condition, inside a block of its own family: the word that opens it is not
\* counted, the word that closes it is.  The parenthesis of a case pattern inside
\* a subshell is counted for the subshell.
Family(c) == CASE c.kind = "if" -> "if" [] c.kind \in {"while", "for", "cfor"} -> "loop" [] c.kind = "case" -> "case"
               [] OTHER -> c.kind
RECURSIVE Uncounted(_, _)
Uncounted(l, families) ==
  \E i \in DOMAIN l.items : \E k \in DOMAIN l.items[i].commands :
    LET c == l.items[i].commands[k]
        hidden(p) == p = 1 \/ c.kind \in {"sub", "brace", "func", "case"}
        First(list) == list.items[1].commands[1]
        inside == families \cup {Family(c)}
    IN c.kind # "simple" /\ \E p \in DOMAIN c.parts :
         \/ hidden(p) /\ Family(First(c.parts[p])) \in inside \ {"sub", "brace", "func"}
         \/ c.kind = "case" /\ "sub" \in families
         \/ l.items[i].neg /\ Family(c) \in families
         \/ Uncounted(c.parts[p], inside)

\* A compound that source puts together again: it begins its line.
Sourceable(item) ==
  \/ \A k \in DOMAIN item.commands : item.commands[k].kind = "simple"
  \/ /\ Len(item.commands) = 1 /\ ~item.neg /\ item.op = "always"
     /\ item.commands[1].kind \in {"if", "while", "for", "cfor", "case", "func"}

\* A command tree written down is read back as that tree, part by part as its
\* bodies run; so is the file that has a line for each of its parts, when it is
\* sourced (executor.rs, source_logical_lines); and a line read so far asks for
\* more exactly while the rest of it is missing, unless it has a ! at its top
\* level, which is_incomplete takes for a command (parser.rs, parse_line,
\* is_incomplete; executor.rs, find_top_level_reserved, find_case_arm_terminator).
CommandsReadBack ==
  in.of = "command" /\ out # <<>> =>
    LET tree == Build(in.base, in.path)
        negated == \E i \in DOMAIN tree.items : tree.items[i].neg
    IN \/ Uncounted(tree, {})
       \/ /\ out[1].tree = tree
          /\ negated \/ out[1].open = out[1].unfinished
          /\ (\A i \in DOMAIN tree.items : Sourceable(tree.items[i])) =>
               FlattenSeq([k \in DOMAIN out[1].sourced |-> out[1].sourced[k].items]) = tree.items

\* docs/ARCHITECTURE.md names the compound commands as what the parser reads:
\* each of them can stand wherever a command can.
CompoundsNest == in.of = "command" /\ out # <<>> => out[1].tree = Build(in.base, in.path)

-----------------------------------------------------------------------------
(* Invocations.                                                            *)

D == INSTANCE Dispatch WITH AliasLimit <- 3, Stack <- 20
Builtins == {"cd", "command", "external", "builtin", "agview", "pty"}
Table(fs, alias, abbreviation, allow) ==
  [functions |-> fs, aliases |-> "a" :> alias, abbreviations |-> "b" :> abbreviation, builtins |-> Builtins,
   path |-> "ls" :> "exec" @@ "cat" :> "exec" @@ "np" :> "noexec", default |-> "cat" :> "exec", allow |-> allow]
AliasValues == {<<"ls">>, <<"b">>, <<"a">>, <<>>, <<"ls", "|", "cat">>, <<"command", "cd">>, <<"external", "a">>,
                <<"np">>, <<"compact", "a">>}
Tables == {Table(fs, al, ab, allow) : fs \in {{}, {"f"}, {"a", "ls"}}, al \in AliasValues,
                                      ab \in {<<"a">>, <<"ls">>}, allow \in {<<>>, <<{"ls"}>>, <<{"cat", "pty"}>>}}
Wrappers == {"raw", "command", "external", "builtin", "agview", "pty", "a", "b"}
LastWords == Wrappers \cup {"f", "ls", "cat", "np", "nx", "cd", "-p", "-v", "--", "-x"}
ShortCommands == {<<w>> : w \in LastWords} \cup {<<w, x>> : w \in Wrappers, x \in LastWords}
LongCommands == {<<w, x, y>> : w, x \in Wrappers, y \in LastWords} \cup {<<"command", x, y>> : x \in {"-p", "-v", "--"}, y \in LastWords}
\* Aliases in a row, each hop as it is or through an output wrapper.
ChainName == <<"c1", "c2", "c3", "c4", "c5", "ls">>
Chain(hops) == [k \in {ChainName[i] : i \in 1..5} |->
  LET i == CHOOSE i \in 1..5 : ChainName[i] = k
  IN (IF i \in hops THEN <<"raw">> ELSE <<>>) \o <<ChainName[i + 1]>>]
ChainInputs ==
  {[of |-> "invocation", table |-> [Table({}, <<"ls">>, <<"ls">>, <<>>) EXCEPT !.aliases = Chain(hops)], argv |-> w \o <<c>>] :
     hops \in SUBSET (1..5), w \in {<<>>, <<"raw">>, <<"command">>}, c \in Range(ChainName)}
InvocationInputs ==
  ChainInputs \cup {[of |-> "invocation", table |-> t, argv |-> c] : t \in Tables, c \in ShortCommands}
  \cup {[of |-> "invocation", table |-> Table({"f"}, <<"ls">>, <<"a">>, allow), argv |-> c] :
          allow \in {<<>>, <<{"ls"}>>}, c \in LongCommands}

EvalInvocation ==
  /\ in.of = "invocation" /\ out = <<>>
  /\ out' = <<[ran |-> D!Run(in.table, in.argv), accepted |-> D!Preflight(in.table, in.argv),
               wrapped |-> D!Run(in.table, <<"compact">> \o in.argv)]>>
  /\ UNCHANGED kept

RECURSIVE Hops(_, _, _)
\* How many aliases and abbreviations stand between a command and what it is, up to
\* a bound.
Hops(t, argv, bound) ==
  LET a == D!expand_alias_invocation(t, argv)
      z == D!expand_abbreviation_invocation(t, argv)
  IN CASE bound = 0 \/ argv = <<>> -> 0
       [] OTHER -> IF D!output_wrapper_mode(argv[1]) THEN Hops(t, Tail(argv), bound)
                   ELSE IF argv[1] \in t.functions THEN 0
                   ELSE IF a.how = "yes" THEN 1 + Hops(t, a.argv, bound - 1)
                   ELSE IF z.how = "yes" THEN 1 + Hops(t, z.argv, bound - 1) ELSE 0
\* More hops than the limit, which a wrapper between them starts to count again.
CountRestarts(t, argv) ==
  Hops(t, argv, 6) > 3 /\ \E k \in DOMAIN t.aliases : \E w \in Range(t.aliases[k]) : D!output_wrapper_mode(w)

\* The router that vets the stages of a buffered pipeline accepts no command that
\* the running router finds nothing to run for, so that no stage starts before
\* another one is found missing, and refuses none that would run, but where the
\* running router starts to count aliases again (CountRestarts); an output wrapper
\* changes how a command is shown and never which one runs, and the outermost
\* wrapper decides (executor.rs, preflight_invocation, run_invocation_inner,
\* run_output_mode_wrapper).
RoutersAgree ==
  in.of = "invocation" /\ out # <<>> =>
    LET ran == out[1].ran
        wrapped == out[1].wrapped
    IN /\ out[1].accepted => ran.ok
       /\ ran.ok => out[1].accepted \/ CountRestarts(in.table, in.argv)
       /\ <<wrapped.ok, wrapped.how, wrapped.name>> = <<ran.ok, ran.how, ran.name>>
       /\ wrapped.ok => wrapped.mode = "compact"

\* Every chain of aliases ends with a command or with the message of the
\* expansion limit (executor.rs:2938).
AliasesEnd == in.of = "invocation" /\ out # <<>> => out[1].ran.how # "stack overflow"

-----------------------------------------------------------------------------
(* Keys and history search.                                                *)

K == INSTANCE Keys
\* Complete keys before a paste, what is pasted, and what follows it.
Typed == {<<>>, <<"a">>, <<"esc">>, <<"esc", "[", "A">>, <<"lead", "cont">>, <<"esc", "O", "C">>, <<"bad">>,
          <<"a", "enter">>, <<"intr">>}
Broken == <<"bad", "a">> :> <<"replacement", "a">> @@ <<"a", "lead">> :> <<"a", "replacement">>
Pasted == {<<>>, <<"esc">>, <<"ctrl", "a">>, <<"lead", "cont">>, <<"enter", "a">>, <<"esc", "[", "A">>, <<"esc", "[", "2", "0">>}
          \cup DOMAIN Broken
Followed == {<<>>, <<"b">>, <<"esc">>, <<"lead">>, <<"esc", "[", "3", "~">>, <<"esc", "[", "1", ";", "3", "C">>, <<"lead", "a">>}
KeyInput(t, p, f) == [of |-> "keys", typed |-> t, pasted |-> p, followed |-> f]
KeyInputs == {KeyInput(t, p, f) : t \in Typed, p \in Pasted, f \in {<<>>, <<"b">>}}
             \cup {KeyInput(t, p, f) : t \in {<<>>, <<"a", "enter">>, <<"intr">>},
                                      p \in {<<"ctrl", "a">>, <<"enter", "a">>, <<"esc">>}, f \in Followed}

Stream == in.typed \o K!PASTE_START \o in.pasted \o K!PASTE_END \o in.followed
\* The stream is cut at two places; what comes behind a cut may come late.  Then the
\* terminal is silent, or closed.
ReadsOf(bytes, i, j, late, closed) ==
  LET cut(a, z, l) == [bytes |-> SubSeq(bytes, a + 1, z), late |-> l]
  IN SelectSeq(<<cut(0, i, FALSE), cut(i, j, late), cut(j, Len(bytes), late)>>, LAMBDA r : r.bytes # <<>>)
     \o (IF closed THEN <<[bytes |-> <<>>, late |-> late]>> ELSE <<>>)
EvalKeys ==
  /\ in.of = "keys" /\ out = <<>>
  /\ \E j \in 0..Len(Stream) : \E i \in 0..j : \E late, complete, closed \in BOOLEAN :
       /\ late => i < j /\ j < Len(Stream)
       /\ closed => i = j
       /\ ~complete => Last(<<"a">> \o in.typed) = "enter"
       /\ LET reads == ReadsOf(Stream, i, j, late, closed)
          IN out' = <<[keys |-> K!next_keys(<<>>, reads, complete), reads |-> reads,
                       late |-> late, complete |-> complete, closed |-> closed, cuts |-> {i, j}]>>
  /\ UNCHANGED kept

RECURSIVE Behind(_, _)
\* The reads that begin behind the first n bytes.
Behind(reads, n) == IF n <= 0 \/ reads = <<>> THEN reads ELSE Behind(Tail(reads), n - Len(Head(reads).bytes))

\* However the bytes of the terminal are cut into reads, the keys before a paste,
\* the paste as one key with its text untouched but for bytes that are no
\* character, and the keys behind it come out in order, and pasted bytes never act
\* as keys; only a read that is late behind an escape byte may find the escape key
\* taken.  A key that ends its line takes the rest of its own read with it, and
\* nothing else: the next line begins with the next read (editor.rs,
\* read_line_raw_with_initial, KeyReader::next_key, try_extract; key.rs, decode).
KeysSurviveReads ==
  in.of = "keys" /\ out # <<>> /\ (out[1].late => \A c \in out[1].cuts \ {0} : Stream[c] # "esc") =>
    LET alone(bytes, closed) ==
          K!next_keys(<<>>, ReadsOf(bytes, 0, 0, FALSE, closed), out[1].complete)
        paste == <<"Paste", IF in.pasted \in DOMAIN Broken THEN Broken[in.pasted] ELSE in.pasted>>
        end == Len(in.typed)
        ended == end > 0 /\ (in.typed[end] = "intr" \/ (in.typed[end] = "enter" /\ out[1].complete))
    IN IF ended /\ end \notin out[1].cuts
       THEN out[1].keys = alone(in.typed, FALSE) \o K!next_keys(<<>>, Behind(out[1].reads, end), out[1].complete)
       ELSE out[1].keys = alone(in.typed, FALSE) \o <<paste>> \o alone(in.followed, out[1].closed)

H == INSTANCE HistorySearch WITH
  LowerOf <- "A" :> "a", Wrappers <- {<<"r">>}, Hour <- 1, Day <- 2
Commands == {<<"a">>, <<"a", "b">>, <<"A", " ", "b">>, <<"r", " ", "b">>, <<"/", "b">>}
Entries == [command : Commands, cwd : {"here", "there"}, code : {0, 1}, age : {20}]
Scopes == {[kind |-> "global"], [kind |-> "cwd", dir |-> "here"], [kind |-> "failures"]}
Modes == {"fuzzy", "prefix", "fulltext", "exact", "family"}
Queries == {<<>>, <<" ">>, <<"a">>, <<"b">>, <<"A", "b">>, <<"a", " ", "b">>}
SearchInputs ==
  {[of |-> "search", entries |-> es, text |-> q] :
     es \in {<<e, f>> : e, f \in Entries} \cup {<<e, f, [e EXCEPT !.age = 1, !.cwd = "there"]>> : e, f \in Entries},
     q \in Queries}
EvalSearch ==
  /\ in.of = "search" /\ out = <<>>
  /\ \E s \in Scopes, m \in Modes :
       out' = <<[scope |-> s, mode |-> m, rows |-> H!query(in.entries, in.text, s, m, 5),
                 longer |-> H!query(in.entries, Append(in.text, "b"), s, m, 5)]>>
  /\ UNCHANGED kept

\* What the picker shows: one row per command, for its newest entry within the
\* scope, counting exactly the entries of that command in the scope, and no row
\* for a command of which no entry is in scope; typing one letter more never brings
\* a command in, except in the exact mode (history.rs, query, search_score).
SearchNarrows ==
  in.of = "search" /\ out # <<>> =>
    LET es == in.entries
        inside(i) == CASE out[1].scope.kind = "global" -> TRUE [] out[1].scope.kind = "cwd" -> es[i].cwd = "here"
                       [] out[1].scope.kind = "failures" -> es[i].code # 0
        listed == {es[out[1].rows[k].index].command : k \in DOMAIN out[1].rows}
        of(c) == {i \in DOMAIN es : es[i].command = c /\ inside(i)}
    IN /\ Len(out[1].rows) = Cardinality(listed)
       /\ \A k \in DOMAIN out[1].rows :
            LET c == es[out[1].rows[k].index].command
            IN /\ out[1].rows[k].count = Cardinality(of(c))
               /\ out[1].rows[k].index \in of(c) /\ \A i \in of(c) : i <= out[1].rows[k].index
       /\ out[1].mode # "exact" =>
            \A k \in DOMAIN out[1].longer : es[out[1].longer[k].index].command \in listed
       /\ \A i \in DOMAIN es : inside(i) /\ (in.text \in {<<>>, <<" ">>} \/ es[i].command = in.text) /\ out[1].mode # "family" => es[i].command \in listed

-----------------------------------------------------------------------------
(* Output.                                                                 *)

Cut == [k |-> "cut", n |-> 0, s |-> "out", i |-> 0]
\* The previews keep two bytes at either end; a line's spools hold fourteen bytes.
P == INSTANCE Presentation WITH
  Kept <- 2, Marker <- <<Cut>>, MaxBytes <- 60, MaxSpans <- 12, MaxSegments <- 4, SpoolBudget <- 14
RunOf(n, ext, size, spool) == [k |-> "run", n |-> n, ext |-> ext, size |-> size, spool |-> spool]
WrapOf(m, c) == [k |-> "wrap", mode |-> m, body |-> c]
ItemOf(c) == [c |-> c, trap |-> <<>>, err |-> <<>>]
GroupOf(cs, file) == [k |-> "group", items |-> [i \in DOMAIN cs |-> ItemOf(cs[i])], file |-> file]
Programs(n) == {RunOf(n, FALSE, 1, FALSE), RunOf(n, TRUE, 2, TRUE), RunOf(n, TRUE, 7, TRUE), RunOf(n, TRUE, 6, FALSE)}
Wrapped(n) ==
  {WrapOf(m, c) : m \in {"raw", "compact", "silent"},
     c \in {RunOf(n, FALSE, 1, FALSE), RunOf(n, TRUE, 7, TRUE),
            GroupOf(<<RunOf(n, FALSE, 1, FALSE), WrapOf("compact", RunOf(n + 1, TRUE, 2, TRUE))>>, FALSE),
            GroupOf(<<RunOf(n, TRUE, 6, FALSE), RunOf(n + 1, TRUE, 2, TRUE)>>, FALSE)}}
Grouped(n) ==
  {GroupOf(<<RunOf(n, FALSE, 1, FALSE), c>>, file) :
     c \in {RunOf(n + 1, TRUE, 7, TRUE)} \cup {WrapOf(m, RunOf(n + 1, FALSE, 1, FALSE)) : m \in {"raw", "compact"}},
     file \in BOOLEAN}
  \cup {GroupOf(<<c>>, FALSE) : c \in {RunOf(n, FALSE, 1, FALSE), WrapOf("silent", RunOf(n, TRUE, 2, TRUE))}}
AnyCommand(n) == Programs(n) \cup Wrapped(n) \cup Grouped(n)
Handler == <<ItemOf(RunOf(9, FALSE, 1, FALSE))>>
Handlers == {[trap |-> t, err |-> e] : t, e \in {<<>>, Handler}} \ {[trap |-> Handler, err |-> Handler]}
ShownInputs ==
  {[of |-> "shown", cs |-> <<c>>] : c \in AnyCommand(1)}
  \cup {[of |-> "shown", cs |-> <<c, d>>] : c \in AnyCommand(1), d \in AnyCommand(3)}
  \cup {[of |-> "shown", cs |-> <<c, d, e>>] :
          c \in Programs(1) \cup Wrapped(1), d \in Programs(3), e \in Wrapped(5) \cup {RunOf(5, FALSE, 1, FALSE)}}
EvalShown ==
  /\ in.of = "shown" /\ out = <<>>
  \* The program itself always shows as it goes (main.rs, with_stdout_flush).
  /\ \E mode \in {"raw", "compact"}, default \in BOOLEAN, h \in Handlers :
       LET items == [i \in DOMAIN in.cs |->
             IF i = 1 THEN [c |-> in.cs[1], trap |-> h.trap, err |-> h.err] ELSE ItemOf(in.cs[i])]
       IN out' = <<[mode |-> mode, done |-> P!RunLine(items, mode, IF default THEN <<mode>> ELSE <<>>, TRUE)]>>
  /\ UNCHANGED kept

RECURSIVE Fates(_, _, _)
\* What is to become of the output of the programs of a command: shown as its
\* bytes, seen in an observation or silent, and whether stdout goes to a file.
Fates(c, fate, file) ==
  CASE c.k = "run" -> {[n |-> c.n, fate |-> fate, file |-> file, size |-> c.size]}
    [] c.k = "wrap" -> Fates(c.body, IF fate.decided \/ file THEN fate
                             ELSE [decided |-> TRUE, how |-> IF c.mode \in {"raw", "silent"} THEN c.mode ELSE "seen"], file)
    [] c.k = "group" -> UNION {Fates(c.items[i].c, fate, file \/ c.file) : i \in DOMAIN c.items}

\* Every byte is shown once: as it is or in one observation, as the outermost
\* wrapper or the mode of the session says, in the order it was written, and not
\* at all when it is silenced or went to a file; only what an observation left out
\* of a long output is missing from it, and a trace that is said to be complete has
\* all of it (executor.rs, append_streams, emit_live_presentation,
\* present_completed_graph_if_live, append_exact_segments).
OutputShownOnce ==
  in.of = "shown" /\ out # <<>> =>
    LET session == [decided |-> FALSE, how |-> IF out[1].mode = "raw" THEN "raw" ELSE "seen"]
        fates == UNION {Fates(in.cs[i], session, FALSE) : i \in DOMAIN in.cs}
                 \cup {[n |-> 9, fate |-> session, file |-> FALSE, size |-> 1]}
        w == out[1].done.w
        flat == FlattenSeq([e \in DOMAIN w.shown |-> FlattenSeq([z \in DOMAIN w.shown[e].bytes |->
                  LET x == w.shown[e].bytes[z]
                  IN IF x.k = "seen" THEN [i \in DOMAIN (x.out \o x.err) |-> [how |-> "seen", at |-> <<e, z>>, byte |-> (x.out \o x.err)[i]]]
                     ELSE <<[how |-> "raw", at |-> <<e, z>>, byte |-> x]>>])])
        cuts == \E i \in DOMAIN flat : flat[i].byte = Cut
        Of(byte) == CHOOSE f \in fates : f.n = byte.n
    IN /\ \A i \in DOMAIN flat : flat[i].byte # Cut =>
            LET f == Of(flat[i].byte)
            IN /\ flat[i].how = f.fate.how /\ ~(f.file /\ flat[i].byte.s = "out")
               /\ \A j \in DOMAIN flat : flat[j].byte = flat[i].byte => j = i
       /\ out[1].done.ok =>
            \A i \in DOMAIN w.written :
              LET f == Of(w.written[i])
              IN IF f.file /\ w.written[i].s = "out" THEN w.written[i] \in ToSet(w.file)
                 ELSE \/ f.fate.how = "silent" \/ (cuts /\ f.fate.how = "seen")
                      \/ \E j \in DOMAIN flat : flat[j].byte = w.written[i]
       /\ \A i, j \in DOMAIN flat :
            i < j /\ flat[i].at # flat[j].at /\ flat[i].byte # Cut /\ flat[j].byte # Cut =>
              \E a, z \in DOMAIN w.written : w.written[a] = flat[i].byte /\ w.written[z] = flat[j].byte /\ a < z
       /\ \A t \in DOMAIN w.traces : \A s \in {"out", "err"} :
            LET trace == w.traces[t].trace[s]
                owners == {z.n : z \in ToSet(w.traces[t].seen[s]) \ {Cut}}
            IN trace.complete => trace.bytes = SelectSeq(w.written, LAMBDA z : z.s = s /\ z.n \in owners)

-----------------------------------------------------------------------------
(* Redirections.                                                           *)

Redir(m, fd, t) == [mode |-> m, fd |-> fd, target |-> t]
Redirs ==
  {Redir("write", "out", "a"), Redir("write", "err", "a"), Redir("clobber", "out", "b"), Redir("append", "err", "b"),
   Redir("both", "out", "a"), Redir("dup", "out", "err"), Redir("dup", "err", "out"), Redir("close", "out", ""),
   Redir("close", "err", ""), Redir("read", "in", "b"), Redir("read", "in", "a"), Redir("here", "in", "doc"), Redir("close", "in", ""),
   Redir("write", "three", "a"), Redir("dup", "three", "out")}
RedirInputs == {[of |-> "redirs", redirs |-> [k \in DOMAIN rs |-> rs[k] @@ [at |-> k]]] : rs \in BoundedSeq(Redirs, 3)}
Terminal == P!Both([kind |-> "out"], [kind |-> "err"])
Bases == {Terminal, P!Both([kind |-> "file", path |-> "c", at |-> 0], [kind |-> "err"]), P!Both([kind |-> "err"], [kind |-> "discard"])}
\* What the command writes: a byte on stdout, one on stderr, one on stdout.
Said == [P!captured(<<1, 2>>, <<3>>) EXCEPT
           !.order = <<<<P!Span("out", 0, 1), P!Span("err", 0, 1), P!Span("out", 1, 1)>>>>]
EvalRedirs ==
  /\ in.of = "redirs" /\ out = <<>>
  /\ \E base \in Bases, noclobber \in BOOLEAN :
       LET there == [f \in {"b", "c"} |-> <<0>>]
           to == [route \in {"builtin", "compound", "external", "exec"} |->
                    P!redirected(route, in.redirs, base, there, noclobber)]
       IN out' = <<[base |-> base, noclobber |-> noclobber, files |-> there, to |-> to,
                    input |-> P!redirected_stdin_from_expanded_redirections(in.redirs, there).input,
                    done |-> P!apply_builtin_redirections(Said, to["builtin"].dests, to["builtin"].files)]>>
  /\ UNCHANGED kept

RECURSIVE Goes(_, _, _)
\* Where stream s goes once the first k redirections are made.
Goes(k, s, base) ==
  LET r == in.redirs[k]
  IN IF k = 0 THEN base[s]
     ELSE CASE r.mode \in {"write", "clobber", "append"} /\ r.fd = s -> [kind |-> "file", path |-> r.target, at |-> k]
            [] r.mode = "both" -> [kind |-> "file", path |-> r.target, at |-> k]
            [] r.mode = "close" /\ r.fd = s -> [kind |-> "discard"]
            [] r.mode = "dup" /\ r.fd = s -> Goes(k - 1, r.target, base)
            [] OTHER -> Goes(k - 1, s, base)

\* Whoever runs a command - the shell itself, a compound command around it, a
\* child, or exec - its streams go where its redirections send them read from left
\* to right, and the first one that cannot be made (noclobber, an input that is not
\* there) ends the command with only the files before it made and emptied.  Two
\* kinds of error come first and touch no file, and not the same one everywhere: a
\* descriptor above 2 for a compound command and a child, an input that was not
\* there at the start for a builtin and for exec, which open their inputs before
\* any output (read x >a <missing leaves a alone, cat >a <missing empties it).
\* What a builtin writes reaches every destination in the order it was written.  A
\* copy of a stream that was itself copied or closed is left out for exec, several
\* inputs for a child, and a file both streams opened by itself (executor.rs,
\* apply_builtin_redirections, prepare_compound_redirections,
\* apply_external_redirections).
RedirectionsAgree ==
  in.of = "redirs" /\ out # <<>> =>
    LET n == Len(in.redirs)
        o == out[1]
        Makes(k) == in.redirs[k].mode \in {"write", "clobber", "append", "both"}
        There(k, f) == f \in DOMAIN o.files \/ \E j \in 1..(k - 1) : Makes(j) /\ in.redirs[j].target = f
        Above(k) == in.redirs[k].fd = "three"
        Read(k) == in.redirs[k].mode = "read"
        Refused(k) == \/ o.noclobber /\ in.redirs[k].mode \in {"write", "both"} /\ There(k, in.redirs[k].target)
                      \/ Read(k) /\ ~There(k, in.redirs[k].target)
                      \/ Above(k) /\ ~Makes(k)
        refused == {k \in 1..n : Refused(k)}
        early(route) == \E k \in 1..n : IF route \in {"compound", "external"} THEN Above(k)
                                        ELSE Read(k) /\ in.redirs[k].target \notin DOMAIN o.files
        fails(route) == refused # {} \/ early(route)
        until(route) == CASE early(route) -> 0 [] refused = {} -> n [] OTHER -> (CHOOSE k \in refused : \A j \in refused : k <= j) - 1
        content(route) ==
          [f \in DOMAIN o.files \cup {in.redirs[k].target : k \in {k \in 1..until(route) : Makes(k)}} |->
             IF f \notin DOMAIN o.files
                  \/ \E k \in 1..until(route) : Makes(k) /\ in.redirs[k].mode # "append" /\ in.redirs[k].target = f
             THEN <<>> ELSE o.files[f]]
        again == \E j, k \in 1..n : j < k /\ in.redirs[j].mode \in {"dup", "close"} /\ in.redirs[k].mode = "dup"
                                    /\ in.redirs[k].target = in.redirs[j].fd
        routes == IF again \/ o.base # Terminal THEN {"builtin", "compound", "external"} ELSE DOMAIN o.to
        inputs == {k \in 1..n : in.redirs[k].fd = "in"}
        read == IF inputs = {} THEN <<>>
                ELSE LET k == CHOOSE k \in inputs : \A j \in inputs : j <= k
                     IN <<IF in.redirs[k].mode = "close" THEN "empty" ELSE in.redirs[k].target>>
        At(dest) == SelectSeq(<<[s |-> "out", b |-> 1], [s |-> "err", b |-> 3], [s |-> "out", b |-> 2]>>,
                              LAMBDA x : Goes(n, x.s, o.base) = dest)
        Arrived(dest) == [k \in DOMAIN At(dest) |-> At(dest)[k].b]
        last == [s \in {"out", "err"} |-> Goes(n, s, o.base)]
        twice == last["out"].kind = "file" /\ last["err"].kind = "file" /\ last["out"].path = last["err"].path /\ last["out"] # last["err"]
    IN /\ \A route \in routes :
            /\ o.to[route].ok = ~fails(route) /\ o.to[route].files = content(route)
            /\ ~fails(route) => \A s \in {"out", "err"} : o.to[route].dests[s] = Goes(n, s, o.base)
            /\ ~fails(route) /\ route # "builtin" /\ (route = "compound" \/ Cardinality(inputs) <= 1) => o.to[route].input = read
       /\ ~fails("builtin") =>
            /\ o.input = read
            /\ \A s \in {"out", "err"} : o.done.o.bytes[s] = Arrived([kind |-> s])
            /\ twice \/ \A f \in DOMAIN o.done.files :
                 LET to == {last[s] : s \in {s \in {"out", "err"} : last[s].kind = "file"}}
                     here == {d \in to : d.path = f}
                 IN o.done.files[f] = content("builtin")[f] \o (IF here = {} THEN <<>> ELSE Arrived(CHOOSE d \in here : TRUE))

-----------------------------------------------------------------------------
(* Components that keep state.                                             *)

Line(i, z) == [id |-> i, size |-> z, ok |-> TRUE]
History == INSTANCE HistoryStore WITH
  pc <- hpc, Shells <- {"s1", "s2"}, MaxEntries <- 2, MemoryLimit <- 6, FileLimit <- 8,
  LineLimit <- 4, Sizes <- {1, 3}, MaxCommands <- 3,
  OldLogs <- {<<>>, <<Line(101, 1), Line(102, 1), Line(103, 1)>>,
              <<Line(101, 1), [id |-> 102, size |-> 1, ok |-> FALSE]>>,
              <<Line(101, 5), Line(102, 2), Line(103, 2)>>}
Subst == INSTANCE Substitutions WITH
  MaxDepth <- 3, Limit <- 1, Names <- {1, 2}, Kinds <- {"body", "subshell"},
  MaxItems <- 1, MaxOpen <- 3, MaxSaid <- 2

\* Compaction never costs another shell its commands (history.rs).
RecentCommandsKept == in.of = "history" => History!RecentCommandsKept

\* The private files of <(...) live exactly as long as their graph, and what a
\* substitution says is shown once (Substitutions.tla, SubstitutionsKept).
SubstitutionsKept == in.of = "subst" => Subst!SubstitutionsKept

\* One initial state of Variables.
NoVariables == b = [n \in Names |-> CHOOSE x \in Inherited : TRUE] /\ Init
NoHistory ==
  /\ log = 0 /\ torn = 0 /\ lock = 0 /\ guard = 0 /\ mem = 0 /\ temp = 0
  /\ next = 0 /\ acked = 0 /\ hpc = 0
NoSubst ==
  /\ graphs = 0 /\ shells = 0 /\ files = 0 /\ shown = 0 /\ said = 0 /\ excused = 0 /\ lost = 0

-----------------------------------------------------------------------------
Inputs ==
  \/ in \in PatternInputs
  \/ in \in GlobInputs
  \/ in \in BraceInputs
  \/ in \in WordInputs
  \/ in \in OperatorInputs
  \/ in \in LineInputs
  \/ in \in ReadInputs
  \/ in \in ArithInputs
  \/ in \in {[of |-> "cond", c |-> c] : c \in Conds}
  \/ in \in TextInputs
  \/ in \in HereInputs
  \/ in \in CommandInputs
  \/ in \in InvocationInputs
  \/ in \in KeyInputs
  \/ in \in SearchInputs
  \/ in \in ShownInputs
  \/ in \in RedirInputs
LanguageInit ==
  /\ out = <<>>
  /\ \/ Inputs /\ NoVariables /\ NoHistory /\ NoSubst
     \/ in = [of |-> "variables"] /\ Init /\ NoHistory /\ NoSubst
     \/ in = [of |-> "history"] /\ NoVariables /\ History!Init /\ NoSubst
     \/ in = [of |-> "subst"] /\ NoVariables /\ NoHistory /\ Subst!Init

LanguageNext ==
  \/ EvalPattern \/ EvalGlob \/ EvalBrace \/ EvalWord \/ EvalLine \/ EvalRead \/ EvalArith \/ EvalCond
  \/ EvalText \/ EvalHere \/ EvalCommand \/ EvalInvocation \/ EvalKeys \/ EvalSearch \/ EvalShown \/ EvalRedirs
  \/ in.of = "variables" /\ Next /\ UNCHANGED <<in, out, historyOnly, substOnly>>
  \/ in.of = "history" /\ History!Next /\ UNCHANGED <<in, out, vars, substOnly>>
  \/ in.of = "subst" /\ Subst!Next /\ UNCHANGED <<in, out, vars, historyOnly>>
LanguageSpec == LanguageInit /\ [][LanguageNext]_allVars

=============================================================================
