---------------------------- MODULE ReadBuiltin ----------------------------
(***************************************************************************)
(* The read builtin (executor.rs, run_read_invocation): one logical line   *)
(* of whatever the shell's stdin is, backslash continuations joined,       *)
(* backslashes taken away, cut into one field for each name.               *)
(*                                                                         *)
(* A text is a sequence of characters: "bs" a backslash, "nl" a newline,   *)
(* "cr" a carriage return, "tab" a tab.  The stdin of the shell is a       *)
(* sequence of chunks, what each call of fill_buf finds; a buffered stdin  *)
(* is one chunk.                                                           *)
(***************************************************************************)
EXTENDS Integers, Sequences, SequencesExt

CONSTANT MaxLine    \* MAX_READ_LINE_BYTES

Blank == {" ", "tab", "nl"}
EndsWith(text, c) == text # <<>> /\ Last(text) = c
FirstAt(text, S) == CHOOSE i \in DOMAIN text : text[i] \in S /\ \A j \in 1..(i - 1) : text[j] \notin S
Has(text, S) == \E i \in DOMAIN text : text[i] \in S

Got(line, rest) == [some |-> TRUE, ok |-> TRUE, line |-> line, rest |-> rest]
Nothing(rest) == [some |-> FALSE, ok |-> TRUE, line |-> <<>>, rest |-> rest]
TooLong(rest) == [some |-> FALSE, ok |-> FALSE, line |-> <<>>, rest |-> rest]

RECURSIVE read_bounded_line(_, _)
\* The bytes up to and with the next newline, from as many chunks as that takes;
\* what is behind it stays in its chunk.  The end of the input ends the last line.
read_bounded_line(bytes, chunks) ==
  IF chunks = <<>> THEN IF bytes = <<>> THEN Nothing(<<>>) ELSE Got(bytes, <<>>)
  ELSE LET here == Head(chunks)
           take == IF Has(here, {"nl"}) THEN FirstAt(here, {"nl"}) ELSE Len(here)
           left == IF take = Len(here) THEN Tail(chunks)
                   ELSE <<SubSeq(here, take + 1, Len(here))>> \o Tail(chunks)
           read == bytes \o SubSeq(here, 1, take)
       IN IF Len(read) > MaxLine THEN TooLong(chunks)
          ELSE IF here[take] = "nl" THEN Got(read, left) ELSE read_bounded_line(read, left)

\* line_ending_start: how long the line is without its newline; -1 if it has none.
line_ending_start(line) ==
  IF ~EndsWith(line, "nl") THEN -1
  ELSE IF EndsWith(Front(line), "cr") THEN Len(line) - 2 ELSE Len(line) - 1

\* remove_read_continuation: an odd number of backslashes before the end of the
\* line takes the last of them and the end away.
Backslashes(line, n) ==
  IF \A i \in 1..n : line[i] = "bs" THEN n
  ELSE n - (CHOOSE i \in 1..n : line[i] # "bs" /\ \A j \in (i + 1)..n : line[j] = "bs")
Continued(line) ==
  LET end == line_ending_start(line)
  IN end >= 0 /\ Backslashes(line, end) % 2 = 1

RECURSIVE Logical(_, _)
\* read_logical_line without -r.
Logical(sofar, chunks) ==
  LET r == read_bounded_line(<<>>, chunks)
  IN IF ~r.ok THEN r
     ELSE IF ~r.some THEN IF sofar = <<>> THEN r ELSE Got(sofar, r.rest)
     ELSE LET line == IF Continued(r.line) THEN SubSeq(r.line, 1, line_ending_start(r.line) - 1)
                      ELSE r.line
          IN IF Len(sofar) + Len(line) > MaxLine THEN TooLong(r.rest)
             ELSE IF Continued(r.line) THEN Logical(sofar \o line, r.rest)
             ELSE Got(sofar \o line, r.rest)

read_logical_line(chunks, raw) ==
  IF raw THEN read_bounded_line(<<>>, chunks) ELSE Logical(<<>>, chunks)

trim_line_ending(line) ==
  IF line_ending_start(line) >= 0 THEN SubSeq(line, 1, line_ending_start(line)) ELSE line

\* unescape_read_line: a backslash stands for the character behind it.
RECURSIVE unescape_read_line(_)
unescape_read_line(line) ==
  IF line = <<>> THEN <<>>
  ELSE IF Head(line) # "bs" THEN <<Head(line)>> \o unescape_read_line(Tail(line))
  ELSE IF Len(line) = 1 THEN <<>> ELSE <<line[2]>> \o unescape_read_line(SubSeq(line, 3, Len(line)))

-----------------------------------------------------------------------------
(* Fields.  ifs is a set of characters.                                    *)

Space(ifs) == ifs \cap Blank
Hard(ifs) == ifs \ Blank
\* skip_ifs_whitespace, from the character at i on.
skip(text, i, ifs) ==
  LET stops == {k \in i..Len(text) : text[k] \notin Space(ifs)}
  IN IF stops = {} THEN Len(text) + 1 ELSE CHOOSE k \in stops : \A j \in stops : k <= j
From(text, i) == SubSeq(text, i, Len(text))
TrimStart(text, ifs) == From(text, skip(text, 1, ifs))
TrimEnd(text, ifs) ==
  LET solid == {k \in DOMAIN text : text[k] \notin Space(ifs)}
  IN IF solid = {} THEN <<>> ELSE SubSeq(text, 1, CHOOSE k \in solid : \A j \in solid : j <= k)

\* read_next_field: a delimiter with the white space around it ends a field.
read_next_field(given, ifs) ==
  LET text == TrimStart(given, ifs) IN
  IF ~Has(text, ifs) THEN [field |-> text, rest |-> <<>>]
  ELSE LET i == FirstAt(text, ifs)
           after == skip(text, i, ifs)
           delimiter == IF text[i] \in Hard(ifs) THEN i
                        ELSE IF after <= Len(text) /\ text[after] \in Hard(ifs) THEN after ELSE 0
       IN [field |-> SubSeq(text, 1, i - 1),
           rest |-> IF delimiter = 0 THEN From(text, after) ELSE From(text, skip(text, delimiter + 1, ifs))]

\* trim_read_remainder: the last name takes the rest, without the white space
\* around it and without a single delimiter at its end.
trim_read_remainder(given, ifs) ==
  LET text == TrimEnd(TrimStart(given, ifs), ifs)
      n == Len(text)
  IN IF n > 0 /\ text[n] \in Hard(ifs) /\ ~(n > 1 /\ text[n - 1] \in Hard(ifs))
     THEN TrimEnd(Front(text), ifs) ELSE text

RECURSIVE split_read_fields(_, _, _)
split_read_fields(line, count, ifs) ==
  IF count = 1 THEN <<trim_read_remainder(line, ifs)>>
  ELSE LET r == read_next_field(line, ifs) IN <<r.field>> \o split_read_fields(r.rest, count - 1, ifs)

\* assign_read_fields: one name takes the line as it is; without IFS the first
\* name takes all of it.
assign_read_fields(line, count, ifs) ==
  IF count = 1 THEN <<line>>
  ELSE IF ifs = {} THEN [i \in 1..count |-> IF i = 1 THEN line ELSE <<>>]
  ELSE split_read_fields(line, count, ifs)

\* run_read_invocation: "1" at the end of the input; with its names known to be identifiers that may be set.
run_read_invocation(chunks, raw, count, ifs) ==
  LET Unescaped(line) == IF raw THEN line ELSE unescape_read_line(line)
      Assign(r) ==
        IF ~r.ok THEN [status |-> "error", values |-> <<>>, rest |-> r.rest]
        ELSE IF ~r.some THEN [status |-> "1", values |-> <<>>, rest |-> r.rest]
        ELSE [status |-> "0", rest |-> r.rest,
              values |-> assign_read_fields(Unescaped(trim_line_ending(r.line)), count, ifs)]
  IN Assign(read_logical_line(chunks, raw))

=============================================================================
