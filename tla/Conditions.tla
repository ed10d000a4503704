----------------------------- MODULE Conditions -----------------------------
(***************************************************************************)
(* Conditions: [[ ... ]] (executor.rs, DoubleBracket) and test / [         *)
(* (builtins.rs, TestParser).                                              *)
(*                                                                         *)
(* Both read the words of an expanded command by recursive descent and     *)
(* evaluate while they read, both sides of every && and || included.  [[   *)
(* leaves the file, string and integer tests to test, and what test        *)
(* refuses is false to it.  A word is a string; what patterns, regular     *)
(* expressions and the file system say of two words is a parameter.        *)
(***************************************************************************)
EXTENDS Integers, Sequences

CONSTANTS
  Glob(_, _),    \* glob_match_bytes(pattern, text)
  Before(_, _),  \* the order of texts, byte by byte
  Regex(_, _),   \* "yes", "no" or "bad": what the regex crate says
  FileTests,     \* the pairs <<operator, path>> that hold in the directory
  Numerals       \* parse::<i64>, for the words that are numbers

\* A reader's place: what it read is worth v, or wrong.  rematch is what
\* BASH_REMATCH is to become, if anything.
At(pos, v, rematch) == [ok |-> TRUE, pos |-> pos, v |-> v, rematch |-> rematch]
Wrong(pos, rematch) == [ok |-> FALSE, pos |-> pos, v |-> FALSE, rematch |-> rematch]

\* What !, and, or and the end of the words make of a result.
Not(r) == [r EXCEPT !.v = ~@]
Both(r, next) == [next EXCEPT !.v = @ /\ r.v]
Either(r, next) == [next EXCEPT !.v = @ \/ r.v]
StatusAt(r, end) == IF ~r.ok \/ r.pos # end THEN 2 ELSE IF r.v THEN 0 ELSE 1

\* The word at a position; past the end there is none, and no word looks like it.
Peek(toks, pos) == IF pos <= Len(toks) THEN toks[pos] ELSE "end of words"

-----------------------------------------------------------------------------
(* test *)

UnaryTests == {"-n", "-z", "-e", "-f", "-d", "-s", "-r", "-w", "-x", "-L", "-h"}
IntTests == {"-eq", "-ne", "-gt", "-ge", "-lt", "-le"}
BinaryTests == {"=", "==", "!="} \cup IntTests

eval_unary_test(op, word) ==
  CASE op = "-n" -> word # ""
    [] op = "-z" -> word = ""
    [] OTHER -> <<op, word>> \in FileTests

Compare(a, op, b) ==
  CASE op = "-eq" -> a = b [] op = "-ne" -> a # b [] op = "-gt" -> a > b
    [] op = "-ge" -> a >= b [] op = "-lt" -> a < b [] op = "-le" -> a <= b

\* A parenthesis around a result is closed behind it.
Closed(toks, inner) ==
  IF inner.ok /\ Peek(toks, inner.pos) = ")" THEN [inner EXCEPT !.pos = @ + 1]
  ELSE Wrong(inner.pos, inner.rematch)

\* eval_binary_test: an integer comparison of anything else is an error.
eval_binary_test(left, op, right, pos, re) ==
  CASE op \in {"=", "=="} -> At(pos, left = right, re)
    [] op = "!=" -> At(pos, left # right, re)
    [] op \in IntTests -> IF {left, right} \subseteq DOMAIN Numerals
                          THEN At(pos, Compare(Numerals[left], op, Numerals[right]), re)
                          ELSE Wrong(pos, re)

\* The words up to the next -a, -o or closing parenthesis.
primary_token_count(toks, pos) ==
  LET ends == {i \in pos..Len(toks) : toks[i] \in {"-a", "-o", ")"}}
  IN (IF ends = {} THEN Len(toks) + 1 ELSE CHOOSE i \in ends : \A j \in ends : i <= j) - pos

\* A ! with nothing behind it to negate is a word.
has_operand_after_negation(toks, pos) ==
  Peek(toks, pos + 1) \notin {")", "-a", "-o", "end of words"}

RECURSIVE parse_or(_, _), OrRest(_, _), parse_and(_, _), AndRest(_, _), parse_unary(_, _)

parse_primary(toks, pos) ==
  IF Peek(toks, pos) = "(" THEN Closed(toks, parse_or(toks, pos + 1))
  ELSE LET n == primary_token_count(toks, pos)
       IN CASE n = 1 -> At(pos + 1, toks[pos] # "", <<>>)
            [] n = 2 /\ toks[pos] \in UnaryTests ->
                 At(pos + 2, eval_unary_test(toks[pos], toks[pos + 1]), <<>>)
            [] n = 3 /\ toks[pos + 1] \in BinaryTests ->
                 eval_binary_test(toks[pos], toks[pos + 1], toks[pos + 2], pos + 3, <<>>)
            [] OTHER -> Wrong(pos, <<>>)

parse_unary(toks, pos) ==
  IF Peek(toks, pos) = "!" /\ has_operand_after_negation(toks, pos)
  THEN Not(parse_unary(toks, pos + 1))
  ELSE parse_primary(toks, pos)

AndRest(toks, r) ==
  IF r.ok /\ Peek(toks, r.pos) = "-a"
  THEN AndRest(toks, Both(r, parse_unary(toks, r.pos + 1)))
  ELSE r

parse_and(toks, pos) == AndRest(toks, parse_unary(toks, pos))

OrRest(toks, r) ==
  IF r.ok /\ Peek(toks, r.pos) = "-o"
  THEN OrRest(toks, Either(r, parse_and(toks, r.pos + 1)))
  ELSE r

parse_or(toks, pos) == OrRest(toks, parse_and(toks, pos))

\* builtin_test: the status of test; no words at all are false.
builtin_test(toks) == IF toks = <<>> THEN 1 ELSE StatusAt(parse_or(toks, 1), Len(toks) + 1)

-----------------------------------------------------------------------------
(* [[ *)

\* The operators [[ knows; the ones test does not know are false.
UnaryConds == UnaryTests \cup {"-b", "-c", "-p", "-S", "-t", "-g", "-u", "-k", "-O", "-G", "-N"}
BinaryConds == BinaryTests \cup {"=~", "<", ">", "-nt", "-ot", "-ef"}

binary(a, op, b, pos, re) ==
  CASE op \in {"=", "=="} -> At(pos, Glob(b, a), re)
    [] op = "!=" -> At(pos, ~Glob(b, a), re)
    [] op = "=~" -> (CASE Regex(b, a) = "bad" -> Wrong(pos, re)
                       [] Regex(b, a) = "yes" -> At(pos, TRUE, <<a>>)
                       [] Regex(b, a) = "no" -> At(pos, FALSE, <<"unset">>))
    [] op = "<" -> At(pos, Before(a, b), re)
    [] op = ">" -> At(pos, Before(b, a), re)
    [] OTHER -> At(pos, builtin_test(<<a, op, b>>) = 0, re)

primary(toks, pos, re) ==
  LET tok == Peek(toks, pos) IN
  CASE pos > Len(toks) -> Wrong(pos, re)
    [] pos <= Len(toks) /\ tok \in UnaryConds ->
         IF pos = Len(toks) THEN Wrong(pos, re)
         ELSE At(pos + 2, builtin_test(<<tok, toks[pos + 1]>>) = 0, re)
    [] pos <= Len(toks) /\ tok \notin UnaryConds ->
         IF Peek(toks, pos + 1) \in BinaryConds
         THEN IF pos + 1 = Len(toks) THEN Wrong(pos, re)
              ELSE binary(tok, toks[pos + 1], toks[pos + 2], pos + 3, re)
         ELSE At(pos + 1, tok # "", re)

RECURSIVE or_expr(_, _, _), OrMore(_, _), AndMore(_, _), unary(_, _, _)

unary(toks, pos, re) ==
  CASE Peek(toks, pos) = "!" -> Not(unary(toks, pos + 1, re))
    [] Peek(toks, pos) = "(" -> Closed(toks, or_expr(toks, pos + 1, re))
    [] OTHER -> primary(toks, pos, re)

AndMore(toks, r) ==
  IF r.ok /\ Peek(toks, r.pos) = "&&"
  THEN AndMore(toks, Both(r, unary(toks, r.pos + 1, r.rematch)))
  ELSE r

and_expr(toks, pos, re) == AndMore(toks, unary(toks, pos, re))

OrMore(toks, r) ==
  IF r.ok /\ Peek(toks, r.pos) = "||"
  THEN OrMore(toks, Either(r, and_expr(toks, r.pos + 1, r.rematch)))
  ELSE r

or_expr(toks, pos, re) == OrMore(toks, and_expr(toks, pos, re))

\* eval_double_bracket, on the words before ]]: the status, and BASH_REMATCH as the
\* last =~ evaluated left it, even when the whole is an error.
eval_double_bracket(toks) ==
  LET Result(r) == [status |-> StatusAt(r, Len(toks) + 1), rematch |-> r.rematch]
  IN Result(or_expr(toks, 1, <<>>))

=============================================================================
