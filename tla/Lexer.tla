------------------------------- MODULE Lexer -------------------------------
(***************************************************************************)
(* The lexer of agsh (agsh-core lexer.rs), the search for here-documents   *)
(* that runs before it (parser.rs), and the writers that turn the words of *)
(* a compound command back into text (executor.rs), because the body of a  *)
(* compound or a function is kept as text and read again when it runs.     *)
(*                                                                         *)
(* Text is a sequence of characters.  A token is [text, quote, segs, op];  *)
(* a segment is [text, quote] with quote "none", "single" or "double".     *)
(***************************************************************************)
EXTENDS Integers, Sequences, SequencesExt

CONSTANT NameChars    \* the letters that make up a name

Blanks == {" ", "tab", "nl"}
Digits == {"1", "2"}
Escapable == {"$", "bt", "dq", "bs"}     \* what a backslash quotes inside double quotes
GroupMarks == {"?", "*", "+", "@", "!"}
Ch(s, i) == IF i \in DOMAIN s THEN s[i] ELSE "end"
Rest(s, i) == SubSeq(s, i, Len(s))
LeastOf(S) == CHOOSE x \in S : \A y \in S : x <= y

Seg(text, quote) == [text |-> text, quote |-> quote]
\* A segment counts only when it has text.
PushSeg(segs, text, quote) == IF text = <<>> THEN segs ELSE Append(segs, Seg(text, quote))
SegText(segs) == FlattenSeq([k \in DOMAIN segs |-> segs[k].text])
WordToken(segs) ==
  [text |-> SegText(segs), quote |-> IF Len(segs) = 1 THEN segs[1].quote ELSE "none",
   segs |-> segs, op |-> FALSE]
Operator(text) == [text |-> text, quote |-> "none", segs |-> <<>>, op |-> TRUE]

-----------------------------------------------------------------------------
(* Operators.                                                              *)

DigitRun(s, i) == LeastOf({n \in 0..Len(s) : Ch(s, i + n) \notin Digits})
\* The "-" or the digits after >& or <&.
Descriptor(s, i) == IF Ch(s, i) = "-" THEN 1 ELSE DigitRun(s, i)

\* lex_operator: the length of the operator at a position, 0 when there is none.
OperatorLength(s, i) ==
  LET c == Ch(s, i)
      next == Ch(s, i + 1)
      Opt(j, x) == IF Ch(s, j) = x THEN j + 1 ELSE j
      arrow == i + DigitRun(s, i)
      bar == Opt(Opt(arrow + 1, "|"), ">")
      last == IF Ch(s, bar) = "&" THEN bar + 1 + Descriptor(s, bar + 1) ELSE bar
  IN CASE c = ";" -> 1
       [] c = "|" -> IF next = "|" THEN 2 ELSE 1
       [] c = "&" -> IF next \in {"&", ">"} THEN 2 ELSE 1
       [] c = "<" -> CASE next = "<" -> IF Ch(s, i + 2) \in {"<", "-"} THEN 3 ELSE 2
                       [] next = "&" -> 2 + Descriptor(s, i + 2)
                       [] next = ">" -> 2
                       [] OTHER -> 1
       [] c = ">" -> CASE next \in {"|", ">"} -> 2
                       [] next = "&" -> 2 + Descriptor(s, i + 2)
                       [] OTHER -> 1
       [] c \in Digits -> IF Ch(s, arrow) \in {"<", ">"} THEN last - i ELSE 0
       [] OTHER -> 0

-----------------------------------------------------------------------------
(* Balanced text: $(..), ${..}, backticks, groups, arrays and process      *)
(* substitutions, all read with their quotes.  0 means unterminated.       *)

RECURSIVE Closing(_, _, _, _, _, _)
Closing(s, i, pair, depth, quote, escapes) ==
  IF i > Len(s) THEN 0
  ELSE IF quote # "none"
  THEN IF quote = "dq" /\ s[i] = "bs" /\ Ch(s, i + 1) \in escapes
       THEN Closing(s, i + 2, pair, depth, quote, escapes)
       ELSE Closing(s, i + 1, pair, depth, IF s[i] = quote THEN "none" ELSE quote, escapes)
  ELSE IF s[i] \in {"sq", "dq"} THEN Closing(s, i + 1, pair, depth, s[i], escapes)
  ELSE IF s[i] = "bs" THEN Closing(s, i + 2, pair, depth, quote, escapes)
  ELSE IF s[i] = pair[2]
  THEN IF depth = 1 THEN i + 1 ELSE Closing(s, i + 1, pair, depth - 1, quote, escapes)
  ELSE Closing(s, i + 1, pair, IF s[i] = pair[1] THEN depth + 1 ELSE depth, quote, escapes)

Parens == <<"(", ")">>
\* scan_balanced_parentheses, read_dollar_paren, read_dollar_brace.
ScanBalancedParentheses(s, i) ==
  IF Ch(s, i) = "(" THEN Closing(s, i, Parens, 0, "none", Escapable \cup {"nl"}) ELSE 0
ReadDollarParen(s, i) == Closing(s, i + 1, Parens, 0, "none", Escapable)
ReadDollarBrace(s, i) == Closing(s, i + 1, <<"{", "}">>, 0, "none", Escapable)

RECURSIVE ReadBacktick(_, _)
ReadBacktick(s, i) ==
  IF i > Len(s) THEN 0
  ELSE IF s[i] = "bs" THEN ReadBacktick(s, i + 2)
  ELSE IF s[i] = "bt" THEN i + 1 ELSE ReadBacktick(s, i + 1)

StartsSubstitution(s, i) == Ch(s, i) = "bt" \/ (Ch(s, i) = "$" /\ Ch(s, i + 1) \in {"(", "{"})
SubstitutionEnd(s, i) ==
  IF s[i] = "bt" THEN ReadBacktick(s, i + 1)
  ELSE IF s[i + 1] = "(" THEN ReadDollarParen(s, i) ELSE ReadDollarBrace(s, i)

IsIdentifier(text) == text # <<>> /\ text[1] \notin Digits /\ ToSet(text) \subseteq (NameChars \cup Digits)

\* lex_array_assignment: name=( name[..]=( name+=( up to the matching one.
ArrayEnd(s, i) ==
  LET n == LeastOf({k \in 0..Len(s) : Ch(s, i + k) \notin NameChars \cup Digits})
      name == i + n
      Count(k, c) == Len(SelectSeq(SubSeq(s, name, k), LAMBDA x : x = c))
      closed == {k \in name..Len(s) : s[k] = "]" /\ Count(k, "[") = Count(k, "]")}
      subscript == IF Ch(s, name) # "[" THEN name
                   ELSE IF closed = {} THEN Len(s) + 1 ELSE LeastOf(closed) + 1
      plus == IF Ch(s, subscript) = "+" THEN subscript + 1 ELSE subscript
  IN IF n > 0 /\ s[i] \notin Digits /\ Ch(s, plus) = "=" THEN ScanBalancedParentheses(s, plus + 1) ELSE 0

\* lex_double_paren: ((..)).
DoubleParenEnd(s, i) ==
  IF Ch(s, i) = "(" /\ Ch(s, i + 1) = "(" THEN ScanBalancedParentheses(s, i) ELSE 0

-----------------------------------------------------------------------------
(* Words.  A result is [ok, segs, next].                                   *)

Done(segs, next) == [ok |-> TRUE, segs |-> segs, next |-> next]
Unterminated == [ok |-> FALSE, segs |-> <<>>, next |-> 0]

RECURSIVE Word(_, _, _), DoubleQuoted(_, _, _, _, _), PlainText(_, _, _, _)

\* The loop over the parts of one word; a group is looked for where a part
\* starts and nowhere else.
Word(s, i, segs) ==
  IF i > Len(s) THEN Done(segs, i)
  ELSE IF s[i] \in GroupMarks /\ ScanBalancedParentheses(s, i + 1) # 0
  THEN LET end == ScanBalancedParentheses(s, i + 1)
       IN Word(s, end, Append(segs, Seg(SubSeq(s, i, end - 1), "none")))
  ELSE IF s[i] \in Blanks \/ OperatorLength(s, i) > 0 THEN Done(segs, i)
  ELSE IF s[i] = "sq"
  THEN LET ends == {k \in (i + 1)..Len(s) : s[k] = "sq"}
       IN IF ends = {} THEN Unterminated
          ELSE Word(s, LeastOf(ends) + 1, Append(segs, Seg(SubSeq(s, i + 1, LeastOf(ends) - 1), "single")))
  ELSE IF s[i] = "dq" THEN DoubleQuoted(s, i + 1, <<>>, segs, FALSE)
  ELSE PlainText(s, i, <<>>, segs)

\* Inside double quotes: an escaped character becomes a segment of its own, and
\* the empty string a segment that keeps its field.
DoubleQuoted(s, i, seg, segs, emitted) ==
  IF i > Len(s) THEN Unterminated
  ELSE IF s[i] = "dq"
  THEN Word(s, i + 1, IF seg # <<>> \/ ~emitted THEN Append(segs, Seg(seg, "double")) ELSE segs)
  ELSE IF s[i] = "bs" /\ Ch(s, i + 1) = "nl" THEN DoubleQuoted(s, i + 2, seg, segs, emitted)
  ELSE IF s[i] = "bs" /\ Ch(s, i + 1) \in Escapable
  THEN DoubleQuoted(s, i + 2, <<>>,
                    Append(PushSeg(segs, seg, "double"), Seg(<<s[i + 1]>>, "single")), TRUE)
  ELSE IF StartsSubstitution(s, i)
  THEN LET end == SubstitutionEnd(s, i)
       IN IF end = 0 THEN Unterminated
          ELSE DoubleQuoted(s, end, seg \o SubSeq(s, i, end - 1), segs, emitted)
  ELSE DoubleQuoted(s, i + 1, Append(seg, s[i]), segs, emitted)

\* Outside quotes: a backslash quotes one character, name() ends the word.
PlainText(s, i, seg, segs) ==
  IF i > Len(s) \/ Ch(s, i) \in Blanks \cup {"sq", "dq"} \/ OperatorLength(s, i) > 0
  THEN Word(s, i, PushSeg(segs, seg, "none"))
  ELSE IF StartsSubstitution(s, i)
  THEN LET end == SubstitutionEnd(s, i)
       IN IF end = 0 THEN Unterminated
          ELSE PlainText(s, end, seg \o SubSeq(s, i, end - 1), segs)
  ELSE IF s[i] = "bs" /\ Ch(s, i + 1) = "nl" THEN PlainText(s, i + 2, seg, segs)
  ELSE IF s[i] = "bs"
  THEN LET pushed == PushSeg(segs, seg, "none")
       IN IF i = Len(s) THEN PlainText(s, i + 1, <<>>, pushed)
          ELSE PlainText(s, i + 2, <<>>, Append(pushed, Seg(<<s[i + 1]>>, "single")))
  ELSE IF s[i] = "(" /\ Ch(s, i + 1) = ")" /\ SegText(segs) = <<>> /\ IsIdentifier(seg)
  THEN Done(Append(segs, Seg(seg \o Parens, "none")), i + 2)
  ELSE PlainText(s, i + 1, Append(seg, s[i]), segs)

-----------------------------------------------------------------------------
(* Tokens.                                                                 *)

Continues == {<<";">>, <<"|">>, <<"|", "|">>, <<"&", "&">>}

RECURSIVE LexFrom(_, _, _)
\* lex: a newline separates commands unless the last token's text is a list or
\* pipe operator; the rest of a line after # is a comment.
LexFrom(s, i, toks) ==
  IF i > Len(s) THEN [ok |-> TRUE, toks |-> toks]
  ELSE IF s[i] = "nl"
  THEN LexFrom(s, i + 1, IF toks = <<>> \/ Last(toks).text \in Continues THEN toks
                         ELSE Append(toks, Operator(<<";">>)))
  ELSE IF s[i] \in Blanks THEN LexFrom(s, i + 1, toks)
  ELSE IF s[i] = "#"
  THEN LexFrom(s, LeastOf({k \in i..(Len(s) + 1) : Ch(s, k) \in {"nl", "end"}}), toks)
  ELSE LET Whole(end) == LexFrom(s, end, Append(toks, WordToken(<<Seg(SubSeq(s, i, end - 1), "none")>>)))
           process == s[i] \in {"<", ">"} /\ Ch(s, i + 1) = "("
           word == Word(s, i, <<>>)
       IN IF process THEN IF ScanBalancedParentheses(s, i + 1) = 0 THEN [ok |-> FALSE, toks |-> toks]
                          ELSE Whole(ScanBalancedParentheses(s, i + 1))
          ELSE IF OperatorLength(s, i) > 0
          THEN LexFrom(s, i + OperatorLength(s, i),
                       Append(toks, Operator(SubSeq(s, i, i + OperatorLength(s, i) - 1))))
          ELSE IF ArrayEnd(s, i) # 0 THEN Whole(ArrayEnd(s, i))
          ELSE IF DoubleParenEnd(s, i) # 0 THEN Whole(DoubleParenEnd(s, i))
          ELSE IF ~word.ok THEN [ok |-> FALSE, toks |-> toks]
          ELSE LexFrom(s, word.next, Append(toks, WordToken(word.segs)))
Lex(s) == LexFrom(s, 1, <<>>)

-----------------------------------------------------------------------------
(* Here-documents: found line by line before the lexer runs.               *)

RECURSIVE Skip(_, _, _, _, _)
\* skip_balanced_parens, skip_balanced_braces, skip_backticks: where the text
\* that opens here ends, the end of the line when nothing closes it.  Unlike the
\* lexer, they step over backticks, and over $(..) between braces.
SkipBackticks(s, i) == LET end == ReadBacktick(s, i + 1) IN IF end = 0 THEN Len(s) + 1 ELSE end
Skip(s, i, pair, depth, quote) ==
  IF i > Len(s) THEN Len(s) + 1
  ELSE IF quote # "none"
  THEN IF quote = "dq" /\ s[i] = "bs" /\ Ch(s, i + 1) \in Escapable THEN Skip(s, i + 2, pair, depth, quote)
       ELSE Skip(s, i + 1, pair, depth, IF s[i] = quote THEN "none" ELSE quote)
  ELSE IF s[i] \in {"sq", "dq"} THEN Skip(s, i + 1, pair, depth, s[i])
  ELSE IF s[i] = "bs" THEN Skip(s, i + 2, pair, depth, quote)
  ELSE IF s[i] = "bt" THEN Skip(s, SkipBackticks(s, i), pair, depth, quote)
  ELSE IF pair[1] = "{" /\ s[i] = "$" /\ Ch(s, i + 1) = "("
  THEN Skip(s, Skip(s, i + 1, Parens, 0, "none"), pair, depth, quote)
  ELSE IF s[i] = pair[1] THEN Skip(s, i + 1, pair, depth + 1, quote)
  ELSE IF s[i] = pair[2] /\ depth <= 1 THEN i + 1
  ELSE Skip(s, i + 1, pair, IF s[i] = pair[2] THEN depth - 1 ELSE depth, quote)
SkipSubstitution(s, i) ==
  IF s[i] = "bt" THEN SkipBackticks(s, i)
  ELSE Skip(s, i + 1, IF s[i + 1] = "(" THEN Parens ELSE <<"{", "}">>, 0, "none")

RECURSIVE Delimiter(_, _, _, _)
\* read_heredoc_delimiter: the word after <<, its quotes removed; a quote or a
\* backslash in it keeps the body from being expanded.
Delimiter(s, i, quote, word) ==
  IF i > Len(s) \/ (quote = "none" /\ s[i] \in Blanks \cup {"<", ">", "|", ";", "&", "(", ")"})
  THEN [text |-> word, next |-> i]
  ELSE IF s[i] = quote THEN Delimiter(s, i + 1, "none", word)
  ELSE IF quote = "none" /\ s[i] \in {"sq", "dq"} THEN Delimiter(s, i + 1, s[i], word)
  ELSE IF s[i] = "bs" /\ (quote = "none" \/ (quote = "dq" /\ Ch(s, i + 1) \in Escapable))
  THEN Delimiter(s, i + 2, quote, IF i < Len(s) THEN Append(word, s[i + 1]) ELSE word)
  ELSE Delimiter(s, i + 1, quote, Append(word, s[i]))

RECURSIVE HeredocOps(_, _, _)
\* scan_heredoc_ops: the << and <<- of one line outside quotes, substitutions
\* and comments, each with whether its body is expanded; <<< is another thing.
HeredocOps(s, i, quote) ==
  IF i > Len(s) THEN <<>>
  ELSE IF quote # "none"
  THEN IF quote = "dq" /\ s[i] = "bs" /\ Ch(s, i + 1) \in Escapable THEN HeredocOps(s, i + 2, quote)
       ELSE HeredocOps(s, i + 1, IF s[i] = quote THEN "none" ELSE quote)
  ELSE IF s[i] \in {"sq", "dq"} THEN HeredocOps(s, i + 1, s[i])
  ELSE IF s[i] = "bs" THEN HeredocOps(s, i + 2, quote)
  ELSE IF s[i] = "#" /\ (i = 1 \/ Ch(s, i - 1) \in Blanks) THEN <<>>
  ELSE IF StartsSubstitution(s, i) THEN HeredocOps(s, SkipSubstitution(s, i), quote)
  ELSE IF s[i] # "<" \/ Ch(s, i + 1) # "<" THEN HeredocOps(s, i + 1, quote)
  ELSE IF Ch(s, i + 2) = "<" THEN HeredocOps(s, i + 3, quote)
  ELSE LET strip == Ch(s, i + 2) = "-"
           from == i + IF strip THEN 3 ELSE 2
           start == LeastOf({k \in from..(Len(s) + 1) : Ch(s, k) \notin {" ", "tab"}})
           word == Delimiter(s, start, "none", <<>>)
       IN IF word.next = start THEN HeredocOps(s, start, quote)
          ELSE <<[delimiter |-> word.text, strip |-> strip,
                  expand |-> {Ch(s, k) : k \in start..(word.next - 1)} \cap {"sq", "dq", "bs"} = {}]>>
               \o HeredocOps(s, word.next, quote)
ScanHeredocOps(s) == HeredocOps(s, 1, "none")

\* <<- takes the leading tabs off every line of the body.
Measured(line, strip) ==
  IF strip THEN Rest(line, LeastOf({k \in 1..(Len(line) + 1) : Ch(line, k) # "tab"})) ELSE line

RECURSIVE BodiesFrom(_, _, _, _)
\* extract_heredoc_bodies: each operator of a line takes the lines up to its
\* delimiter; what is left are the lines of the command.
BodiesFrom(lines, ops, commands, bodies) ==
  IF ops # <<>>
  THEN LET measured == [k \in DOMAIN lines |-> Measured(lines[k], ops[1].strip)]
           ends == {k \in DOMAIN lines : measured[k] = ops[1].delimiter}
       IN IF ends = {} THEN [ok |-> FALSE, commands |-> commands, bodies |-> bodies]
          ELSE BodiesFrom(Rest(lines, LeastOf(ends) + 1), Tail(ops), commands,
                 Append(bodies, [lines |-> SubSeq(measured, 1, LeastOf(ends) - 1), expand |-> ops[1].expand]))
  ELSE IF lines = <<>> THEN [ok |-> TRUE, commands |-> commands, bodies |-> bodies]
  ELSE BodiesFrom(Tail(lines), ScanHeredocOps(Head(lines)), Append(commands, Head(lines)), bodies)
ExtractHeredocBodies(lines) == BodiesFrom(lines, <<>>, <<>>, <<>>)

-----------------------------------------------------------------------------
(* Words back to text.                                                     *)

SingleQuoted(text) ==
  <<"sq">> \o FlattenSeq([k \in DOMAIN text |->
      IF text[k] = "sq" THEN <<"sq", "bs", "sq", "sq">> ELSE <<text[k]>>]) \o <<"sq">>
InDoubleQuotes(text) ==
  <<"dq">> \o FlattenSeq([k \in DOMAIN text |->
      IF text[k] \in {"bs", "dq"} THEN <<"bs", text[k]>> ELSE <<text[k]>>]) \o <<"dq">>
\* shell_escape_unquoted: text with a blank, a quote or an operator in it.
ShellEscapeUnquoted(text) ==
  IF ToSet(text) \cap (Blanks \cup {"sq", "dq", "|", "<", ">", "&"}) # {} THEN SingleQuoted(text) ELSE text

SegmentsToSource(tok, Bare(_)) ==
  IF tok.segs = <<>> THEN tok.text
  ELSE FlattenSeq([k \in DOMAIN tok.segs |->
         CASE tok.segs[k].quote = "none" -> Bare(tok.segs[k].text)
           [] tok.segs[k].quote = "single" -> SingleQuoted(tok.segs[k].text)
           [] tok.segs[k].quote = "double" -> InDoubleQuotes(tok.segs[k].text)])

WordSegmentsToCompoundSourceMutant(tok) ==
  SegmentsToSource(tok, LAMBDA t : t) \o (IF tok.segs = <<Seg(<<>>, "double")>> THEN <<"dq">> ELSE <<>>)
\* word_segments_to_compound_source: the body of if, while, for, case, ( and {.
WordSegmentsToCompoundSource(tok) == SegmentsToSource(tok, LAMBDA t : t)
\* word_segments_to_source: the body of a function.
WordSegmentsToSource(tok) == SegmentsToSource(tok, ShellEscapeUnquoted)

\* words_to_source, of the sources of the words.
WordsToSource(words) ==
  IF words = <<>> THEN <<>>
  ELSE FoldLeft(LAMBDA acc, w : acc \o <<" ">> \o w, Head(words), Tail(words))

=============================================================================
