----------------------------- MODULE Expansion -----------------------------
(***************************************************************************)
(* Word expansion of agsh (executor.rs): parameters and their operators,   *)
(* substitutions, tilde, field splitting, "$@", arrays, braces and         *)
(* pathnames, from the segments the lexer made to the fields of argv.      *)
(*                                                                         *)
(* A word is a sequence of segments [quote, parts]; a part is a character, *)
(* a parameter, a parameter with an operator and a word, an array, or a    *)
(* substitution whose output is given.  A field is a sequence of tokens    *)
(* [ch, active]: active is the glob mask of the code.                      *)
(***************************************************************************)
EXTENDS Patterns

CONSTANTS
  Blank,      \* the characters that are whitespace when IFS has them
  Tree        \* the files pathname expansion sees

\* A value that may be unset.
Unset == [set |-> FALSE, text |-> <<>>]
Val(t) == [set |-> TRUE, text |-> t]
Join(seqs, sep) ==
  IF seqs = <<>> THEN <<>>
  ELSE FoldLeft(LAMBDA acc, s : acc \o sep \o s, Head(seqs), Tail(seqs))
Mask(text, active) == [i \in DOMAIN text |-> [ch |-> text[i], active |-> active]]

\* The environment: vars, arrays, lists (native list values), pos (the
\* positionals), ifs, nounset, readonly, home, status, subst (the status of the
\* last command substitution) and opts (noglob, nullglob, globstar, dotglob).
Ifs(env) == IF env.ifs.set THEN env.ifs.text ELSE <<" ", "tab", "nl">>
IsIfsWhitespace(c, env) == c \in Blank /\ c \in ToSet(Ifs(env))
IsIfsDelimiter(c, env) == c \in ToSet(Ifs(env))

\* The positionals that have a name, and a count as text.
Index == "1" :> 1 @@ "2" :> 2
Digit(n) == <<"0", "1", "2", "3", "4", "5", "6", "7", "8", "9">>[n + 1]

\* lookup_parameter: positionals by number, then variables, then the first
\* element of an array.
LookupParameter(name, env) ==
  IF name \in DOMAIN Index
  THEN IF Index[name] \in DOMAIN env.pos THEN Val(env.pos[Index[name]]) ELSE Unset
  ELSE IF name = "@" THEN Val(Join(env.pos, <<" ">>))
  ELSE IF env.vars[name].set THEN env.vars[name]
  ELSE IF name \in DOMAIN env.arrays /\ env.arrays[name] # <<>>
  THEN Val(env.arrays[name][1])
  ELSE Unset

\* joined_star_positionals: quoted, the separator is the first character of
\* IFS, none when IFS is empty and a space when it is unset.
StarSeparator(env, ifsFirst) ==
  IF ~ifsFirst \/ ~env.ifs.set THEN <<" ">>
  ELSE IF env.ifs.text = <<>> THEN <<>> ELSE <<env.ifs.text[1]>>

-----------------------------------------------------------------------------
(* Fragments: the pieces of a word with what splitting may do to them.     *)

Frag(text, split, keep, glob) ==
  [text |-> text, split |-> split, keep |-> keep, glob |-> glob,
   boundary |-> FALSE, suppress |-> FALSE]
Literal(text, keep, glob) == Frag(text, FALSE, keep, glob)
Expanded(text, split) == Frag(text, split, FALSE, split)
Positional(text, boundary) == [Frag(text, FALSE, TRUE, FALSE) EXCEPT !.boundary = boundary]
SuppressEmptyField == [Frag(<<>>, FALSE, FALSE, FALSE) EXCEPT !.suppress = TRUE]

\* push_fragment: empty text counts only where it keeps a field; equal
\* neighbours are joined.
PushFragment(frags, f) ==
  IF f.text = <<>> /\ ~f.suppress THEN IF f.keep THEN Append(frags, f) ELSE frags
  ELSE IF /\ frags # <<>> /\ ~f.boundary /\ ~Last(frags).suppress
          /\ Last(frags).split = f.split /\ Last(frags).keep = f.keep
          /\ Last(frags).glob = f.glob
  THEN [frags EXCEPT ![Len(frags)].text = @ \o f.text]
  ELSE Append(frags, f)
PushAll(frags, more) == FoldLeft(PushFragment, frags, more)

\* append_protected_fragments: what stands between double quotes.
Protected(frags) ==
  [i \in DOMAIN frags |->
     [frags[i] EXCEPT !.split = FALSE, !.glob = FALSE, !.keep = @ \/ ~frags[i].suppress]]
FragmentText(frags) == FlattenSeq([i \in DOMAIN frags |-> frags[i].text])

-----------------------------------------------------------------------------
(* Field splitting: one character or one unsplit fragment at a time.       *)

SplitStart == [fields |-> <<>>, cur |-> <<>>, material |-> FALSE, delim |-> FALSE]
EndField(s) == [s EXCEPT !.fields = Append(@, s.cur), !.cur = <<>>, !.material = FALSE]

SplitCharMutant(s, c, glob, env) ==
  IF IsIfsWhitespace(c, env) THEN IF s.material THEN EndField(s) ELSE s
  ELSE IF IsIfsDelimiter(c, env)
  THEN [(IF s.material \/ s.fields = <<>> THEN EndField(s)
         ELSE [s EXCEPT !.cur = <<>>]) EXCEPT !.material = FALSE, !.delim = TRUE]
  ELSE [s EXCEPT !.cur = Append(@, [ch |-> c, active |-> glob]), !.material = TRUE, !.delim = FALSE]

SplitChar(s, c, glob, env) ==
  IF IsIfsWhitespace(c, env) THEN IF s.material THEN EndField(s) ELSE s
  ELSE IF IsIfsDelimiter(c, env)
  THEN [(IF s.material \/ s.delim \/ s.fields = <<>> THEN EndField(s)
         ELSE [s EXCEPT !.cur = <<>>]) EXCEPT !.material = FALSE, !.delim = TRUE]
  ELSE [s EXCEPT !.cur = Append(@, [ch |-> c, active |-> glob]), !.material = TRUE, !.delim = FALSE]

SplitFragment(s0, f, env) ==
  LET s == IF f.boundary /\ s0.material THEN [EndField(s0) EXCEPT !.delim = FALSE] ELSE s0
      counts == f.keep \/ f.text # <<>>
  IN IF f.suppress THEN s
     ELSE IF ~f.split
     THEN [s EXCEPT !.cur = @ \o Mask(f.text, f.glob), !.material = @ \/ counts,
                    !.delim = @ /\ ~counts]
     ELSE FoldLeft(LAMBDA acc, c : SplitChar(acc, c, f.glob, env), s, f.text)

\* split_expanded_fields.
FieldsOf(s) == IF s.material THEN Append(s.fields, s.cur) ELSE s.fields
SplitExpandedFields(frags, env) ==
  FieldsOf(FoldLeft(LAMBDA acc, f : SplitFragment(acc, f, env), SplitStart, frags))

-----------------------------------------------------------------------------
(* Expansion.  A result is [ok, env, frags]; an error keeps the             *)
(* environment the parts before it left.                                   *)

Good(env, frags) == [ok |-> TRUE, env |-> env, frags |-> frags]
Bad(env) == [ok |-> FALSE, env |-> env, frags |-> <<>>]
Then(acc, r) == IF r.ok THEN Good(r.env, PushAll(acc.frags, r.frags)) ELSE Bad(r.env)
Quoted(r) == [r EXCEPT !.frags = Protected(@)]

\* parameter_condition.
Holds(value, nonNull) == IF nonNull THEN value.set /\ value.text # <<>> ELSE value.set

\* ${v:offset:length}: negative numbers count from the end, bounds clamp.
Substring(text, offset, length) ==
  LET n == Len(text)
      Clamp(x, low) == IF x < low THEN low ELSE IF x > n THEN n ELSE x
      start == Clamp(IF offset < 0 THEN n + offset ELSE offset, 0)
      stop == IF length = <<>> THEN n
              ELSE IF length[1] < 0 THEN Clamp(n + length[1], start) ELSE Clamp(start + length[1], start)
  IN SubSeq(text, start + 1, stop)

\* ${(flags)a}: split, unique, sort, then the items joined by a separator.
ZshParamFlags(flags, items) ==
  LET Unique(s) == FoldLeft(LAMBDA acc, x : IF x \in ToSet(acc) THEN acc ELSE Append(acc, x), <<>>, s)
      Less(a, b) == Ord(At(a, 1)) < Ord(At(b, 1))
      unique == IF "u" \in flags THEN Unique(items) ELSE items
      sorted == IF flags \cap {"o", "O"} # {} THEN SortSeq(unique, Less) ELSE unique
      ordered == IF "O" \in flags THEN Reverse(sorted) ELSE sorted
  IN Join(ordered, IF "j" \in flags THEN <<":">> ELSE <<" ">>)

RECURSIVE ExpandParts(_, _, _, _), ExpandOperator(_, _, _, _), OperatorWord(_, _, _, _),
          WordFragments(_, _, _)

\* run_command_substitution: newlines at the end are dropped, the status kept.
CommandSubstitution(part, env, split) ==
  LET kept == {n \in 0..Len(part.out) : \A k \in (n + 1)..Len(part.out) : part.out[k] = "nl"}
  IN Good([env EXCEPT !.subst = part.status], <<Expanded(SubSeq(part.out, 1, Least(kept)), split)>>)

\* expand_required_parameter and the special parameters.
Required(value, env, split) ==
  IF ~value.set /\ env.nounset THEN Bad(env) ELSE Good(env, <<Expanded(value.text, split)>>)
Parameter(name, env, split, ifsFirst) ==
  CASE name = "@" -> Good(env, <<Expanded(Join(env.pos, <<" ">>), split)>>)
    [] name = "*" -> Good(env, <<Expanded(Join(env.pos, StarSeparator(env, ifsFirst)), split)>>)
    [] name = "#" -> Good(env, <<Expanded(<<Digit(Len(env.pos))>>, split)>>)
    [] name = "?" -> Good(env, <<Expanded(<<env.status>>, split)>>)
    [] OTHER -> Required(LookupParameter(name, env), env, split)

\* expand_substitution_fragments: the parts of one segment in order.
ExpandPart(acc, p, split, ifsFirst) ==
  IF ~acc.ok THEN acc
  ELSE Then(acc,
         CASE p.k = "lit" -> Good(acc.env, <<Literal(<<p.c>>, TRUE, TRUE)>>)
           [] p.k = "par" -> Parameter(p.name, acc.env, split, ifsFirst)
           [] p.k = "cmd" -> CommandSubstitution(p, acc.env, split)
           [] p.k = "op" -> ExpandOperator(p, acc.env, split, ifsFirst)
           [] p.k = "arr" -> Good(acc.env, <<Expanded(
                Join(acc.env.arrays[p.name], IF p.sub = "@" THEN <<" ">>
                                            ELSE StarSeparator(acc.env, TRUE)), split)>>))
ExpandParts(parts, env, split, ifsFirst) ==
  FoldLeft(LAMBDA acc, p : ExpandPart(acc, p, split, ifsFirst), Good(env, <<>>), parts)

\* expand_tilde_in_fragments: a leading tilde that was written unquoted.
Tilde(frags, env) ==
  IF /\ frags # <<>> /\ ~frags[1].split /\ At(frags[1].text, 1) = "~"
     /\ At(frags[1].text, 2) \in {"end", "/"} /\ env.home.set
  THEN [frags EXCEPT ![1].text = env.home.text \o Tail(@)]
  ELSE frags

StartsUnquoted(word) == word # <<>> /\ word[1].quote = "none"

HasQuotedAt(seg) == \E i \in DOMAIN seg.parts : seg.parts[i] = [k |-> "par", name |-> "@"]

\* append_quoted_at_fragments: one fragment per positional, a field boundary
\* before each but the first; none at all suppresses the empty field.
QuotedAtPart(acc, p, ifsFirst) ==
  IF ~acc.ok THEN acc
  ELSE IF p = [k |-> "par", name |-> "@"]
  THEN Good(acc.env, PushAll(acc.frags,
         IF acc.env.pos = <<>> THEN <<SuppressEmptyField>>
         ELSE [i \in DOMAIN acc.env.pos |-> Positional(acc.env.pos[i], i > 1)]))
  ELSE Then(acc, Quoted(ExpandParts(<<p>>, acc.env, FALSE, ifsFirst)))
QuotedAtParts(parts, env, ifsFirst) ==
  FoldLeft(LAMBDA acc, p : QuotedAtPart(acc, p, ifsFirst), Good(env, <<>>), parts)

\* expand_parameter_operator_word: the word of ${v:-word} with its own quotes.
\* Its text may be split where it may be matched; an empty quoted word counts.
Marked(frags, split) ==
  IF split THEN [i \in DOMAIN frags |-> [frags[i] EXCEPT !.split = @ \/ frags[i].glob]]
  ELSE Protected(frags)
MarkWord(r, word, split) ==
  IF ~r.ok THEN r
  ELSE Good(r.env, IF r.frags = <<>> /\ \E i \in DOMAIN word : word[i].quote # "none"
                   THEN <<Literal(<<>>, TRUE, FALSE)>>
                   ELSE Marked(IF StartsUnquoted(word) THEN Tilde(r.frags, r.env) ELSE r.frags, split))

OperatorSegment(acc, seg, split, ifsFirst) ==
  IF ~acc.ok THEN acc
  ELSE Then(acc,
         IF (seg.quote = "double" \/ ~split) /\ HasQuotedAt(seg)
         THEN QuotedAtParts(seg.parts, acc.env, seg.quote = "double" \/ ifsFirst)
         ELSE IF seg.quote = "single"
         THEN Good(acc.env, <<Literal([i \in DOMAIN seg.parts |-> seg.parts[i].c], TRUE, FALSE)>>)
         ELSE IF seg.quote = "double" THEN Quoted(ExpandParts(seg.parts, acc.env, FALSE, TRUE))
         ELSE ExpandParts(seg.parts, acc.env, split, ~split /\ ifsFirst))
OperatorWord(word, env, split, ifsFirst) ==
  MarkWord(FoldLeft(LAMBDA acc, seg : OperatorSegment(acc, seg, split, ifsFirst), Good(env, <<>>), word),
           word, split)

\* expand_parameter_pattern: the tokens of a pattern word.
PatternTokens(frags) ==
  FlattenSeq([i \in DOMAIN frags |-> Mask(frags[i].text, frags[i].glob)])

\* expand_braced_parameter: the operators that compute a text from the value.
Text(env, t, split) == Good(env, <<Expanded(t, split)>>)
Trimmed(p, value, pattern, split) ==
  IF ~pattern.ok THEN pattern
  ELSE Text(pattern.env,
            IF p.op \in {"#", "##"}
            THEN RemovePatternPrefix(value.text, PatternTokens(pattern.frags), p.op = "##")
            ELSE RemovePatternSuffix(value.text, PatternTokens(pattern.frags), p.op = "%%"), split)
Replaced(p, value, raw, with, split) ==
  IF ~raw.ok THEN raw ELSE IF ~with.ok THEN with
  ELSE Text(with.env, SubstitutePattern(value.text, FragmentText(raw.frags), FragmentText(with.frags), p.op), split)

Substituted(p, value, raw, split) ==
  Replaced(p, value, raw, ExpandParts(p.with, raw.env, FALSE, FALSE), split)

ExpandBracedParameter(p, value, env, split) ==
  CASE p.op = "#len" ->
         IF ~value.set /\ env.nounset THEN Bad(env) ELSE Text(env, <<Digit(Len(value.text))>>, split)
    [] p.op \in {"#", "##", "%", "%%"} -> Trimmed(p, value, WordFragments(p.word, env, TRUE), split)
    [] p.op \in {"first", "global", "prefix", "suffix"} ->
         Substituted(p, value, ExpandParts(p.pattern, env, FALSE, FALSE), split)
    [] p.op = ":" -> Text(env, Substring(value.text, p.offset, p.length), split)
    [] p.op = "flags" -> Text(env, ZshParamFlags(p.flags,
                           IF p.name \in DOMAIN env.arrays THEN env.arrays[p.name] ELSE <<value.text>>), split)

\* expand_braced_parameter_fragments: the operators that choose between the value
\* and their word, whose quotes then count; the others as a text.
ChooseWord(p, env, holds, current, word) ==
  CASE p.op = "-" -> IF holds THEN current ELSE word
    [] p.op = "+" -> IF holds THEN word ELSE Good(env, <<>>)
    [] p.op = "?" -> IF holds THEN current ELSE Bad(word.env)
    [] p.op = "=" ->
         IF holds THEN current
         ELSE IF p.name \in DOMAIN Index \cup {"@"} THEN Bad(env)
         ELSE IF ~word.ok \/ p.name \in env.readonly THEN Bad(word.env)
         ELSE Good([word.env EXCEPT !.vars[p.name] = Val(FragmentText(word.frags))], word.frags)

WithValue(p, value, env, split, ifsFirst) ==
  IF p.op \in {"-", "+", "?", "="}
  THEN ChooseWord(p, env, Holds(value, p.colon), Text(env, value.text, split),
                  OperatorWord(p.word, env, split, ifsFirst))
  ELSE ExpandBracedParameter(p, value, env, split)
ExpandOperator(p, env, split, ifsFirst) ==
  WithValue(p, LookupParameter(p.name, env), env, split, ifsFirst)

\* expand_word_fragments: the segments of a word; quoted ones keep a field.
SegmentAfter(acc, r, seg) ==
  IF ~r.ok THEN Bad(r.env)
  ELSE IF seg.quote = "none" THEN Good(r.env, acc.frags \o r.frags)
  ELSE IF r.frags = <<>> THEN Good(r.env, PushFragment(acc.frags, Literal(<<>>, TRUE, FALSE)))
  ELSE Then(acc, Quoted(r))
WithTilde(r, word) ==
  IF r.ok /\ StartsUnquoted(word) THEN [r EXCEPT !.frags = Tilde(@, r.env)] ELSE r

WordSegment(acc, seg, split) ==
  IF ~acc.ok THEN acc
  ELSE IF seg.quote = "single"
  THEN Then(acc, Good(acc.env, <<Literal([i \in DOMAIN seg.parts |-> seg.parts[i].c], TRUE, FALSE)>>))
  ELSE SegmentAfter(acc, ExpandParts(seg.parts, acc.env, split /\ seg.quote = "none", seg.quote = "double"), seg)
WordFragments(word, env, split) ==
  WithTilde(FoldLeft(LAMBDA acc, seg : WordSegment(acc, seg, split), Good(env, <<>>), word), word)

\* expand_word: the text of an assignment, a target or a here-document.
AsText(r) == [r EXCEPT !.frags = FragmentText(@)]
ExpandWord(word, env) == AsText(WordFragments(word, env, FALSE))

-----------------------------------------------------------------------------
(* Fields of one argument.                                                 *)

Fields(env, fields) == [ok |-> TRUE, env |-> env, fields |-> fields]
Failed(env) == [ok |-> FALSE, env |-> env, fields |-> <<>>]
OneMore(acc, r) == IF r.ok THEN Fields(r.env, Append(acc.fields, r.frags)) ELSE Failed(r.env)

\* A single segment prefix ${a[@]} suffix, without another expansion.
ArrayWord(word) ==
  /\ Len(word) = 1
  /\ \E i \in DOMAIN word[1].parts :
       /\ word[1].parts[i].k = "arr"
       /\ \A j \in DOMAIN word[1].parts \ {i} : word[1].parts[j].k = "lit"

\* expand_array_at_fields: one field an element, the prefix on the first and the
\* suffix on the last; [*] joins; nothing is split, whatever the quotes.
ArrayAtFields(word, env) ==
  LET parts == word[1].parts
      at == CHOOSE i \in DOMAIN parts : parts[i].k = "arr"
      Chars(s) == [i \in DOMAIN s |-> s[i].c]
      prefix == Chars(SubSeq(parts, 1, at - 1))
      suffix == Chars(From(parts, at + 1))
      a == env.arrays[parts[at].name]
      Elem(i) == Mask((IF i = 1 THEN prefix ELSE <<>>) \o a[i]
                      \o (IF i = Len(a) THEN suffix ELSE <<>>), FALSE)
      sep == IF env.ifs.set /\ env.ifs.text # <<>> THEN <<env.ifs.text[1]>> ELSE <<>>
  IN IF parts[at].sub = "*" THEN <<Mask(prefix \o Join(a, sep) \o suffix, FALSE)>>
     ELSE IF a = <<>> THEN IF prefix \o suffix = <<>> THEN <<>> ELSE <<Mask(prefix \o suffix, FALSE)>>
     ELSE [i \in DOMAIN a |-> Elem(i)]

\* expand_native_list_fields: an unquoted list value repeats prefix and suffix.
ListWord(word, env) ==
  /\ Len(word) = 1 /\ word[1].quote = "none"
  /\ \E i \in DOMAIN word[1].parts :
       /\ word[1].parts[i].k = "par" /\ word[1].parts[i].name \in DOMAIN env.lists
       /\ \A j \in DOMAIN word[1].parts \ {i} : word[1].parts[j].k = "lit"
NativeListFields(word, env) ==
  LET parts == word[1].parts
      at == CHOOSE i \in DOMAIN parts : parts[i].k = "par"
      Chars(s) == [i \in DOMAIN s |-> s[i].c]
      values == env.lists[parts[at].name]
  IN [i \in DOMAIN values |->
        Mask(Chars(SubSeq(parts, 1, at - 1)) \o values[i] \o Chars(From(parts, at + 1)), FALSE)]

\* Builders: the fields so far, the last one open; material marks a field that
\* exists even when its text is empty.
Open(b) == IF b = <<>> THEN <<[cur |-> <<>>, material |-> FALSE]>> ELSE b
Onto(b, field) ==
  [Open(b) EXCEPT ![Len(Open(b))] = [cur |-> @.cur \o field, material |-> TRUE]]
Adjoin(b, fields) ==
  IF fields = <<>> THEN b
  ELSE Onto(b, Head(fields)) \o [i \in DOMAIN Tail(fields) |-> [cur |-> Tail(fields)[i], material |-> TRUE]]

\* expand_quoted_positional_list_fields: a word with "$@" in it.  An unquoted
\* segment is split by itself and its first field joined to the open one.
Materials(r) ==
  IF ~r.ok THEN r
  ELSE LET kept == SelectSeq(r.fields, LAMBDA b : b.material)
       IN Fields(r.env, [i \in DOMAIN kept |-> kept[i].cur])
SplitResult(r) == IF r.ok THEN Fields(r.env, SplitExpandedFields(r.frags, r.env)) ELSE Failed(r.env)

Glued(acc, r) ==
  IF r.ok THEN Fields(r.env, Onto(acc.fields, Mask(FragmentText(r.frags), FALSE))) ELSE Failed(r.env)
Beside(acc, r) == IF r.ok THEN Fields(r.env, Adjoin(acc.fields, r.fields)) ELSE r
PositionalPart(acc, p) ==
  IF ~acc.ok THEN acc
  ELSE IF p = [k |-> "par", name |-> "@"]
  THEN [acc EXCEPT !.fields = Adjoin(@, [i \in DOMAIN acc.env.pos |-> Mask(acc.env.pos[i], FALSE)])]
  ELSE Glued(acc, ExpandParts(<<p>>, acc.env, FALSE, TRUE))
PositionalSegment(acc, seg) ==
  IF ~acc.ok THEN acc
  ELSE IF seg.quote = "double" /\ HasQuotedAt(seg) THEN FoldLeft(PositionalPart, acc, seg.parts)
  ELSE Beside(acc, SplitResult(WordFragments(<<seg>>, acc.env, TRUE)))
QuotedPositionalFields(word, env) ==
  Materials(FoldLeft(PositionalSegment, Fields(env, <<[cur |-> <<>>, material |-> FALSE]>>), word))

\* expand_argument_fields: arrays, lists, "$@", else splitting.
ExpandArgumentFields(word, env) ==
  IF ArrayWord(word) THEN Fields(env, ArrayAtFields(word, env))
  ELSE IF ListWord(word, env) THEN Fields(env, NativeListFields(word, env))
  ELSE IF \E i \in DOMAIN word : word[i].quote = "double" /\ HasQuotedAt(word[i])
  THEN QuotedPositionalFields(word, env)
  ELSE SplitResult(WordFragments(word, env, TRUE))

\* What an unquoted segment is written with, the braces of ${..} included (the
\* words inside them are left out): a pair, and a comma or a range.
WrittenWith(parts) ==
  {parts[j].c : j \in {i \in DOMAIN parts : parts[i].k = "lit"}}
  \cup {b \in {"{", "}"} : \E j \in DOMAIN parts : parts[j].k \in {"op", "arr"}}
HasUnquotedBrace(word) ==
  \E i \in DOMAIN word : /\ word[i].quote = "none"
                         /\ {"{", "}"} \subseteq WrittenWith(word[i].parts)
                         /\ WrittenWith(word[i].parts) \cap {",", ".."} # {}

\* Braces are expanded after parameters; a field with an active glob character
\* gets every glob character of its alternatives active, quoted ones too.
BraceField(field) ==
  LET texts == ExpandBraces(Plain(field))
      Glob(t) == [i \in DOMAIN t |-> [ch |-> t[i], active |-> t[i] \in {"*", "?", "["}]]
  IN [k \in DOMAIN texts |-> IF HasActiveGlob(field) THEN Glob(texts[k]) ELSE Mask(texts[k], FALSE)]

\* Paths in an order, as text: the names of a path joined by slashes.
PathTexts(paths) == [i \in DOMAIN SetToSeq(paths) |-> Join(SetToSeq(paths)[i], <<"/">>)]

\* expand_word_segments_to_argv_fields: braces, then pathnames; a pattern that
\* matches nothing stays as it is unless nullglob drops it.
GlobField(f, env) ==
  LET Found(paths) == IF paths # {} THEN PathTexts(paths)
                      ELSE IF "nullglob" \in env.opts THEN <<>> ELSE <<Plain(f)>>
  IN IF ~HasActiveGlob(f) \/ "noglob" \in env.opts THEN <<Plain(f)>>
     ELSE Found(ExpandGlob(Tree, f, [globstar |-> "globstar" \in env.opts,
                                     dotglob |-> "dotglob" \in env.opts,
                                     nocaseglob |-> "nocaseglob" \in env.opts]))
BraceFields(r, word) ==
  IF r.ok /\ HasUnquotedBrace(word)
  THEN [r EXCEPT !.fields = FlattenSeq([i \in DOMAIN @ |-> BraceField(@[i])])] ELSE r
GlobFields(r, env, glob) ==
  LET Files(f) == IF glob THEN GlobField(f, env) ELSE <<Plain(f)>>
  IN IF r.ok THEN [r EXCEPT !.fields = FlattenSeq([i \in DOMAIN @ |-> Files(@[i])])] ELSE r
ExpandArgv(word, env, glob) == GlobFields(BraceFields(ExpandArgumentFields(word, env), word), env, glob)

\* expand_redirections: a here-document (given as the segments its escapes cut it
\* into), a here-string with its newline, or the path of a target; never split and
\* never matched to files.
RedirectionText(kind, r) == IF kind = "herestring" THEN [r EXCEPT !.frags = Append(@, "nl")] ELSE r

\* expand_invocation: the arguments from left to right, then assignments, then
\* redirections; [[ and (( take each argument unsplit, agenv takes patterns and no
\* file names, and an argument <(..) is the path of its file, or fails
\* (Substitutions.tla has its files).
Concat(acc, r) == IF r.ok THEN Fields(r.env, acc.fields \o r.fields) ELSE Failed(r.env)
ExpandText(acc, w) == IF acc.ok THEN OneMore(acc, ExpandWord(w, acc.env)) ELSE acc
ProcessSubstitution(w) == Len(w) = 1 /\ Len(w[1].parts) = 1 /\ w[1].parts[1].k = "proc"
ProcessPath(acc, p) == IF p.ok THEN Fields(acc.env, Append(acc.fields, p.path)) ELSE Failed(acc.env)
ExpandArgument(acc, w, inv) ==
  IF ~acc.ok THEN acc
  ELSE IF ProcessSubstitution(w) THEN ProcessPath(acc, w[1].parts[1])
  ELSE IF inv.noSplit THEN ExpandText(acc, w) ELSE Concat(acc, ExpandArgv(w, acc.env, ~inv.agenv))
ExpandRedirection(acc, r) ==
  IF acc.ok THEN OneMore(acc, RedirectionText(r.kind, ExpandWord(r.word, acc.env))) ELSE acc

Invocation(argv, assigned, all) ==
  [ok |-> all.ok, env |-> all.env, argv |-> argv.fields, assignments |-> assigned.fields, redirections |-> all.fields]
Redirected(inv, argv, assigned) ==
  Invocation(argv, assigned, FoldLeft(ExpandRedirection, [assigned EXCEPT !.fields = <<>>], inv.redirections))
Assigned(inv, argv) ==
  Redirected(inv, argv, FoldLeft(ExpandText, [argv EXCEPT !.fields = <<>>], inv.assignments))
ExpandInvocation(inv, env0) ==
  Assigned(inv, FoldLeft(LAMBDA acc, w : ExpandArgument(acc, w, inv),
                         Fields([env0 EXCEPT !.subst = 0], <<>>), inv.argv))

=============================================================================
