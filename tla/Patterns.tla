------------------------------ MODULE Patterns ------------------------------
(***************************************************************************)
(* Patterns of agsh (executor.rs): the token matcher behind pathname       *)
(* expansion, case and ${v#pattern}; the extended groups ?(..) *(..) +(..) *)
(* @(..) !(..); prefix and suffix removal; pattern substitution; brace     *)
(* expansion; and the walk that turns a pattern with slashes into the      *)
(* paths of a file tree.  Text is a sequence of characters; a pattern is a *)
(* sequence of tokens [ch, active], and a quoted character is not active.  *)
(* The matcher of extended groups works on the bytes of both.              *)
(***************************************************************************)
EXTENDS Integers, Sequences, SequencesExt, FiniteSets

CONSTANTS
  Letters,     \* the letters in their order, for ranges
  ClassMembers, \* the members of each named class [:name:]
  Wide,        \* the characters of more than one byte, with their bytes
  Lower,       \* the capitals, with their small letters
  MaxDepth,    \* MAX_EXTGLOB_MATCH_DEPTH
  MaxBraces,   \* MAX_BRACE_ELEMENTS
  MaxBraceDepth \* MAX_BRACE_DEPTH

T(c) == [ch |-> c, active |-> TRUE]
Active(text) == [i \in DOMAIN text |-> T(text[i])]
From(s, i) == SubSeq(s, i, Len(s))
\* The character at a position, or nothing past the end.
At(s, i) == IF i \in DOMAIN s THEN s[i] ELSE "end"
TokenAt(p, i) == IF i \in DOMAIN p THEN p[i] ELSE [ch |-> "end", active |-> FALSE]

Ord(c) == IF \E i \in DOMAIN Letters : Letters[i] = c
          THEN CHOOSE i \in DOMAIN Letters : Letters[i] = c ELSE 0
\* low..=high of two letters, in whichever order they are written.
InRange(c, a, b) ==
  LET Between(x, y, z) == /\ x # 0 /\ y # 0 /\ z # 0
                          /\ (y <= x /\ x <= z) \/ (z <= x /\ x <= y)
  IN Between(Ord(c), Ord(a), Ord(b))

ClassHolds(name, c) == name \in DOMAIN ClassMembers /\ c \in ClassMembers[name]

-----------------------------------------------------------------------------
(* Bracket expressions.                                                    *)

NoClass == [found |-> FALSE, matched |-> FALSE, next |-> 0]

\* The members of a bracket expression from position i on.  The first member
\* may be a closing bracket; a class needs its ":]" and a range its end.
RECURSIVE ClassMembersFrom(_, _, _, _, _)
ClassMembersFrom(p, i, c, matched, saw) ==
  IF i > Len(p) THEN NoClass
  ELSE IF p[i] = T("]") /\ saw THEN [found |-> TRUE, matched |-> matched, next |-> i + 1]
  ELSE IF p[i].ch = "[" /\ TokenAt(p, i + 1).ch = ":" /\ TokenAt(p, i + 3).ch = ":"
          /\ TokenAt(p, i + 4).ch = "]"
  THEN ClassMembersFrom(p, i + 5, c, matched \/ ClassHolds(p[i + 2].ch, c), TRUE)
  ELSE IF TokenAt(p, i + 1) = T("-") /\ i + 2 <= Len(p) /\ p[i + 2].ch # "]"
  THEN ClassMembersFrom(p, i + 3, c, matched \/ InRange(c, p[i].ch, p[i + 2].ch), TRUE)
  ELSE ClassMembersFrom(p, i + 1, c, matched \/ p[i].ch = c, TRUE)

\* match_char_class: [members] at position i of the pattern.
MatchCharClass(p, i, c) ==
  LET negate == TokenAt(p, i + 1) \in {T("!"), T("^")}
      Class(r) == IF r.found THEN [r EXCEPT !.matched = (@ # negate)] ELSE NoClass
  IN IF TokenAt(p, i) # T("[") THEN NoClass
     ELSE Class(ClassMembersFrom(p, IF negate THEN i + 2 ELSE i + 1, c, FALSE, FALSE))

-----------------------------------------------------------------------------
(* The token matcher: the positions of the name reachable so far.          *)

\* The tokens one step of the matcher consumes: a run of stars, a bracket
\* expression, or one token.
RECURSIVE Stars(_, _)
Stars(p, i) == IF TokenAt(p, i) = T("*") THEN 1 + Stars(p, i + 1) ELSE 0
Consumed(p, i) ==
  IF p[i] = T("*") THEN Stars(p, i)
  ELSE LET Width(class) == IF class.found THEN class.next - i ELSE 1
       IN Width(MatchCharClass(p, i, "end"))

Reached(p, i, name, current) ==
  IF p[i] = T("*") THEN {k \in 0..Len(name) : \E j \in current : j <= k}
  ELSE LET Accepts(c, class) ==
             p[i] = T("?") \/ IF class.found THEN class.matched ELSE p[i].ch = c
       IN {k \in 1..Len(name) :
             k - 1 \in current /\ Accepts(name[k], MatchCharClass(p, i, name[k]))}

RECURSIVE GlobTokensFrom(_, _, _, _)
GlobTokensFrom(p, i, name, current) ==
  IF i > Len(p) THEN Len(name) \in current
  ELSE LET Onward(reached) ==
             reached # {} /\ GlobTokensFrom(p, i + Consumed(p, i), name, reached)
       IN Onward(Reached(p, i, name, current))

\* glob_match_tokens, within its limit on work.
GlobMatchTokens(p, name) == GlobTokensFrom(p, 1, name, {0})

-----------------------------------------------------------------------------
(* Extended groups, over the bytes of unquoted text.                       *)

Bytes(text) == FlattenSeq([i \in DOMAIN text |-> IF text[i] \in DOMAIN Wide THEN Wide[text[i]] ELSE <<text[i]>>])
WideAt(b, i) == {c \in DOMAIN Wide : IsPrefix(Wide[c], From(b, i))}
PartOfWide(x) == \E c \in DOMAIN Wide : x \in ToSet(Wide[c])
RECURSIVE Decoded(_, _)
\* from_utf8: the characters that the bytes from position i on spell, or <<FALSE>>.
Decoded(b, i) ==
  IF i > Len(b) THEN <<TRUE>>
  ELSE LET Onward(c, rest) == IF Head(rest) THEN <<TRUE, c>> \o Tail(rest) ELSE <<FALSE>>
       IN IF ~PartOfWide(b[i]) THEN Onward(b[i], Decoded(b, i + 1))
          ELSE IF WideAt(b, i) = {} THEN <<FALSE>>
          ELSE LET c == CHOOSE c \in WideAt(b, i) : TRUE IN Onward(c, Decoded(b, i + Len(Wide[c])))

\* glob_match_plain_bytes: by characters when both are text, else by bytes.
GlobMatchPlain(p, name) ==
  LET Match(pair) == GlobMatchTokens(Active(pair[1]), pair[2])
      Spelt(pattern, text) ==
        IF Head(pattern) /\ Head(text) THEN <<Tail(pattern), Tail(text)>> ELSE <<p, name>>
  IN Match(Spelt(Decoded(p, 1), Decoded(name, 1)))

GroupOps == {"?", "*", "+", "@", "!"}
HasGroup(p) == \E i \in 1..(Len(p) - 1) : p[i] \in GroupOps /\ p[i + 1] = "("

\* Where the group that opens at position 2 closes; 0 when it does not.
RECURSIVE GroupEnd(_, _, _, _)
GroupEnd(p, i, depth, inClass) ==
  CASE i > Len(p) -> 0
    [] i <= Len(p) /\ p[i] = "[" /\ ~inClass -> GroupEnd(p, i + 1, depth, TRUE)
    [] i <= Len(p) /\ p[i] = "]" /\ inClass -> GroupEnd(p, i + 1, depth, FALSE)
    [] i <= Len(p) /\ p[i] = "(" /\ ~inClass -> GroupEnd(p, i + 1, depth + 1, inClass)
    [] i <= Len(p) /\ p[i] = ")" /\ ~inClass ->
         IF depth = 1 THEN i ELSE GroupEnd(p, i + 1, depth - 1, inClass)
    [] OTHER -> GroupEnd(p, i + 1, depth, inClass)
CloseOf(p) == IF Len(p) >= 2 /\ p[1] \in GroupOps /\ p[2] = "("
              THEN GroupEnd(p, 2, 0, FALSE) ELSE 0

\* split_extglob_alts: the alternatives between unnested bars.
RECURSIVE SplitAlts(_, _, _, _, _)
SplitAlts(p, i, start, depth, inClass) ==
  IF i > Len(p) THEN <<From(p, start)>>
  ELSE IF p[i] = "|" /\ ~inClass /\ depth = 0
  THEN <<SubSeq(p, start, i - 1)>> \o SplitAlts(p, i + 1, i + 1, depth, inClass)
  ELSE LET deeper == IF inClass THEN depth
                     ELSE IF p[i] = "(" THEN depth + 1
                     ELSE IF p[i] = ")" /\ depth > 0 THEN depth - 1 ELSE depth
       IN SplitAlts(p, i + 1, start, deeper, (inClass \/ p[i] = "[") /\ ~(inClass /\ p[i] = "]"))
SplitExtglobAlts(p) == SplitAlts(p, 1, 1, 0, FALSE)

RECURSIVE GlobMatchDepth(_, _, _), MatchExtglob(_, _, _, _, _)

\* match_extglob: the name is cut where the group ends, between any two bytes.
MatchExtglob(op, alts, rest, name, depth) ==
  LET Alt(n) == \E k \in DOMAIN alts : GlobMatchDepth(alts[k], SubSeq(name, 1, n), depth + 1)
      Rest(n) == GlobMatchDepth(rest, From(name, n + 1), depth + 1)
      Again(n) == MatchExtglob("*", alts, rest, From(name, n + 1), depth + 1)
  IN CASE op = "@" -> \E n \in 0..Len(name) : Alt(n) /\ Rest(n)
       [] op = "?" -> Rest(0) \/ \E n \in 1..Len(name) : Alt(n) /\ Rest(n)
       [] op = "*" -> Rest(0) \/ \E n \in 1..Len(name) : Alt(n) /\ Again(n)
       [] op = "+" -> \E n \in 1..Len(name) : Alt(n) /\ (Rest(n) \/ Again(n))
       [] op = "!" -> \E n \in 0..Len(name) : ~Alt(n) /\ Rest(n)

\* glob_match_bytes_with_depth: past the limit nothing matches; without a
\* group the token matcher decides; else one element of the pattern at a time.
GlobMatchDepth(p, name, depth) ==
  IF depth > MaxDepth THEN FALSE
  ELSE IF ~HasGroup(p) THEN GlobMatchPlain(p, name)
  ELSE IF CloseOf(p) # 0
  THEN LET Group(close) == MatchExtglob(p[1], SplitExtglobAlts(SubSeq(p, 3, close - 1)),
                                        From(p, close + 1), name, depth)
       IN Group(CloseOf(p))
  ELSE IF p[1] = "*"
  THEN \/ GlobMatchDepth(Tail(p), name, depth + 1)
       \/ name # <<>> /\ GlobMatchDepth(p, Tail(name), depth + 1)
  ELSE /\ name # <<>>
       /\ LET One(class) ==
                IF class.found
                THEN class.matched /\ GlobMatchDepth(From(p, class.next), Tail(name), depth + 1)
                ELSE (p[1] = "?" \/ p[1] = name[1]) /\ GlobMatchDepth(Tail(p), Tail(name), depth + 1)
          IN One(MatchCharClass(Active(p), 1, name[1]))

GlobMatchBytes(p, name) == GlobMatchDepth(Bytes(p), Bytes(name), 0)

-----------------------------------------------------------------------------
(* ${v#p} ${v##p} ${v%p} ${v%%p} ${v/p/r} ...                              *)

\* A pattern with a quoted character never uses extended groups.
ParameterPatternMatches(p, value) ==
  IF \A i \in DOMAIN p : p[i].active
  THEN GlobMatchBytes([i \in DOMAIN p |-> p[i].ch], value)
  ELSE GlobMatchTokens(p, value)

Least(S) == CHOOSE x \in S : \A y \in S : x <= y
Greatest(S) == CHOOSE x \in S : \A y \in S : x >= y

PrefixCuts(value, p) == {n \in 0..Len(value) : ParameterPatternMatches(p, SubSeq(value, 1, n))}
SuffixCuts(value, p) == {n \in 0..Len(value) : ParameterPatternMatches(p, From(value, n + 1))}

RemovePatternPrefixMutant(value, p, longest) ==
  LET Drop(cuts) == IF cuts = {} THEN value ELSE From(value, Least(cuts) + 1)
  IN Drop(PrefixCuts(value, p))
RemovePatternPrefix(value, p, longest) ==
  LET Drop(cuts) == IF cuts = {} THEN value
                    ELSE From(value, (IF longest THEN Greatest(cuts) ELSE Least(cuts)) + 1)
  IN Drop(PrefixCuts(value, p))
RemovePatternSuffix(value, p, longest) ==
  LET Drop(cuts) == IF cuts = {} THEN value
                    ELSE SubSeq(value, 1, IF longest THEN Least(cuts) ELSE Greatest(cuts))
  IN Drop(SuffixCuts(value, p))

\* The leftmost longest match at or after a position: [start, stop), as cuts.
Matches(value, p, from) ==
  {m \in (from..Len(value)) \X (from..Len(value)) :
     m[1] <= m[2] /\ GlobMatchBytes(p, SubSeq(value, m[1] + 1, m[2]))}
FindPatternMatch(value, p, from) ==
  LET Longest(all, start) == <<start, Greatest({m[2] : m \in {n \in all : n[1] = start}})>>
      First(all) == IF all = {} THEN <<>> ELSE Longest(all, Least({m[1] : m \in all}))
  IN First(Matches(value, p, from))

RECURSIVE ReplaceMatches(_, _, _, _)
\* replace_all_pattern_matches: an empty match also copies one character.
ReplaceMatches(value, p, r, from) ==
  LET Before(m) == SubSeq(value, from + 1, m[1]) \o r
      Replace(m) ==
        IF m = <<>> THEN From(value, from + 1)
        ELSE IF m[2] > m[1] THEN Before(m) \o ReplaceMatches(value, p, r, m[2])
        ELSE IF m[2] >= Len(value) THEN Before(m)
        ELSE Before(m) \o <<value[m[2] + 1]>> \o ReplaceMatches(value, p, r, m[2] + 1)
  IN IF from >= Len(value) THEN <<>> ELSE Replace(FindPatternMatch(value, p, from))

ReplaceFirst(value, p, r) ==
  LET Replace(m) == IF m = <<>> THEN value ELSE SubSeq(value, 1, m[1]) \o r \o From(value, m[2] + 1)
  IN Replace(FindPatternMatch(value, p, 0))
ReplacePrefix(value, p, r) ==
  LET Replace(ends) == IF ends = {} THEN value ELSE r \o From(value, Greatest(ends) + 1)
  IN Replace({n \in 0..Len(value) : GlobMatchBytes(p, SubSeq(value, 1, n))})
ReplaceSuffix(value, p, r) ==
  LET Replace(starts) == IF starts = {} THEN value ELSE SubSeq(value, 1, Least(starts)) \o r
  IN Replace({n \in 0..Len(value) : GlobMatchBytes(p, From(value, n + 1))})

\* substitute_pattern: an empty pattern replaces nothing.
SubstitutePattern(value, p, r, mode) ==
  CASE p = <<>> -> value
    [] p # <<>> /\ mode = "first" -> ReplaceFirst(value, p, r)
    [] p # <<>> /\ mode = "global" -> ReplaceMatches(value, p, r, 0)
    [] p # <<>> /\ mode = "prefix" -> ReplacePrefix(value, p, r)
    [] p # <<>> /\ mode = "suffix" -> ReplaceSuffix(value, p, r)

-----------------------------------------------------------------------------
(* Brace expansion of finished text.                                       *)

\* The first balanced pair of braces; a closing brace too many ends the search.
RECURSIVE BracePair(_, _, _, _)
BracePair(s, i, depth, open) ==
  IF i > Len(s) THEN <<>>
  ELSE IF s[i] = "{" THEN BracePair(s, i + 1, depth + 1, IF depth = 0 THEN i ELSE open)
  ELSE IF s[i] # "}" THEN BracePair(s, i + 1, depth, open)
  ELSE IF depth = 0 THEN <<>>
  ELSE IF depth = 1 THEN <<open, i>>
  ELSE BracePair(s, i + 1, depth - 1, open)
FindBracePair(s) == BracePair(s, 1, 0, 0)

RECURSIVE SplitBraces(_, _, _, _)
SplitBraces(s, i, start, depth) ==
  IF i > Len(s) THEN <<From(s, start)>>
  ELSE IF s[i] = "," /\ depth = 0
  THEN <<SubSeq(s, start, i - 1)>> \o SplitBraces(s, i + 1, i + 1, depth)
  ELSE SplitBraces(s, i + 1, start,
                   IF s[i] = "{" THEN depth + 1
                   ELSE IF s[i] = "}" /\ depth > 0 THEN depth - 1 ELSE depth)
SplitBraceAlternatives(s) == SplitBraces(s, 1, 1, 0)

\* A number: an optional sign and digits.
Digits == <<"0", "1", "2", "3", "4", "5", "6", "7", "8", "9">>
Unsigned(t) == IF At(t, 1) \in {"-", "+"} THEN Tail(t) ELSE t
Numeric(t) == Unsigned(t) # <<>> /\ ToSet(Unsigned(t)) \subseteq ToSet(Digits)
NumberOf(t) ==
  LET size == FoldLeft(LAMBDA n, d : 10 * n + (CHOOSE k \in 1..10 : Digits[k] = d) - 1, 0, Unsigned(t))
  IN IF t[1] = "-" THEN -size ELSE size
RECURSIVE Decimal(_)
Decimal(n) == (IF n < 10 THEN <<>> ELSE Decimal(n \div 10)) \o <<Digits[(n % 10) + 1]>>

\* brace_pad_width and format_brace_number: numbers are padded with zeros to the
\* longer end as soon as one end is written with a leading zero.
PadWidth(a, b) ==
  LET ends == {Unsigned(a), Unsigned(b)}
  IN IF \E t \in ends : Len(t) > 1 /\ t[1] = "0"
     THEN CHOOSE n \in {Len(t) : t \in ends} : \A t \in ends : n >= Len(t) ELSE 0
FormatNumber(n, pad) ==
  LET digits == Decimal(IF n < 0 THEN -n ELSE n)
  IN (IF n < 0 THEN <<"-">> ELSE <<>>) \o [k \in 1..(pad - Len(digits)) |-> "0"] \o digits

\* expand_brace_range: start..end or start..end..step of numbers or of letters; the
\* magnitude of a step counts and is at least one.  A range of more numbers than
\* the limit is none; the numbers stay far from the ends of i64.
RangeParts(s) ==
  LET Between(cuts) == [k \in 1..(Len(cuts) - 1) |-> SubSeq(s, cuts[k] + 1, cuts[k + 1] - 1)]
  IN Between(<<0>> \o SetToSortSeq({i \in DOMAIN s : s[i] = ".."}, <) \o <<Len(s) + 1>>)
RangeKind(parts) ==
  IF Len(parts) \notin {2, 3} \/ (Len(parts) = 3 /\ ~Numeric(parts[Len(parts)])) THEN "none"
  ELSE IF \A k \in 1..2 : Numeric(parts[k]) THEN "numbers"
  ELSE IF \A k \in 1..2 : Len(parts[k]) = 1 /\ Ord(At(parts[k], 1)) # 0 THEN "letters" ELSE "none"
Walked(from, to, step) ==
  LET Size(n) == IF n < 0 THEN -n ELSE n
      By(size) == [k \in 1..((Size(to - from) \div size) + 1) |->
                     IF from <= to THEN from + (k - 1) * size ELSE from - (k - 1) * size]
  IN By(IF step = 0 THEN 1 ELSE Size(step))
BraceRange(s) ==
  LET Step(parts) == IF Len(parts) = 2 THEN 1 ELSE NumberOf(parts[3])
      Written(numbers, pad) == IF Len(numbers) > MaxBraces THEN <<>>
                               ELSE [k \in DOMAIN numbers |-> FormatNumber(numbers[k], pad)]
      Spelt(orders) == [k \in DOMAIN orders |-> <<Letters[orders[k]]>>]
      Texts(parts, kind) ==
        CASE kind = "none" -> <<>>
          [] kind = "numbers" -> Written(Walked(NumberOf(parts[1]), NumberOf(parts[2]), Step(parts)),
                                         PadWidth(parts[1], parts[2]))
          [] kind = "letters" -> Spelt(Walked(Ord(parts[1][1]), Ord(parts[2][1]), Step(parts)))
      Read(parts) == Texts(parts, RangeKind(parts))
  IN Read(RangeParts(s))

Alternatives(inner) ==
  LET Choose(alts) == IF Len(alts) > 1 THEN alts ELSE BraceRange(inner)
  IN Choose(SplitBraceAlternatives(inner))

RECURSIVE ExpandBracesDepth(_, _)
\* expand_braces_depth: the alternatives, each with what follows; too deep, more
\* than the limit of them, or a pair that is neither a list nor a range, leaves
\* this text - and only this one: the pairs around it are expanded all the same.
ExpandBracesDepth(s, depth) ==
  LET Limited(out) == IF Len(out) > MaxBraces THEN <<s>> ELSE out
      Around(pair, heads, tails) ==
        FlattenSeq([h \in DOMAIN heads |->
          [t \in DOMAIN tails |-> SubSeq(s, 1, pair[1] - 1) \o heads[h] \o tails[t]]])
      Listed(pair, alts) ==
        IF alts = <<>> THEN <<s>>
        ELSE Limited(Around(pair, FlattenSeq([k \in DOMAIN alts |-> ExpandBracesDepth(alts[k], depth + 1)]),
                            ExpandBracesDepth(From(s, pair[2] + 1), depth + 1)))
      Inside(pair) == IF pair = <<>> THEN <<s>>
                      ELSE Listed(pair, Alternatives(SubSeq(s, pair[1] + 1, pair[2] - 1)))
  IN IF depth > MaxBraceDepth THEN <<s>> ELSE Inside(FindBracePair(s))
ExpandBraces(s) == ExpandBracesDepth(s, 0)

-----------------------------------------------------------------------------
(* Pathname expansion over a tree: a function from paths (sequences of     *)
(* names, a name being text) to "dir" or "file"; <<>> is the base.         *)

HasActiveGlob(part) == \E i \in DOMAIN part : part[i].active /\ part[i].ch \in {"*", "?", "["}
Plain(part) == [i \in DOMAIN part |-> part[i].ch]

RECURSIVE SplitParts(_, _, _)
SplitParts(p, i, start) ==
  IF i > Len(p) THEN <<From(p, start)>>
  ELSE IF p[i].ch = "/" THEN <<SubSeq(p, start, i - 1)>> \o SplitParts(p, i + 1, i + 1)
  ELSE SplitParts(p, i + 1, start)
SplitGlobParts(p) == SplitParts(p, 1, 1)

Hidden(name) == At(name, 1) = "."

Small(c) == IF c \in DOMAIN Lower THEN Lower[c] ELSE c

\* glob_component_matches: a hidden name needs a dot in the pattern or dotglob;
\* nocaseglob does not reach extended groups.
GlobComponentMatches(part, name, opts) ==
  /\ Hidden(name) => opts.dotglob \/ TokenAt(part, 1).ch = "."
  /\ IF HasGroup(Plain(part)) THEN GlobMatchBytes(Plain(part), name)
     ELSE IF opts.nocaseglob
     THEN GlobMatchTokens([i \in DOMAIN part |-> [part[i] EXCEPT !.ch = Small(@)]], [i \in DOMAIN name |-> Small(name[i])])
     ELSE GlobMatchTokens(part, name)

Entries(tree, base) ==
  {path \in DOMAIN tree : Len(path) = Len(base) + 1 /\ SubSeq(path, 1, Len(base)) = base}
IsDir(tree, path) == path = <<>> \/ (path \in DOMAIN tree /\ tree[path] = "dir")
Below(tree, base, dotglob) ==
  {path \in DOMAIN tree :
     /\ Len(path) > Len(base) /\ SubSeq(path, 1, Len(base)) = base
     /\ \A k \in (Len(base) + 1)..Len(path) : Hidden(path[k]) => dotglob}

RECURSIVE ExpandGlobParts(_, _, _, _)
\* expand_glob_parts: the paths below base the remaining parts name.
ExpandGlobParts(tree, base, parts, opts) ==
  IF parts = <<>> THEN {base} \ {<<>>}
  ELSE LET part == Head(parts)
           rest == Tail(parts)
       IN IF part = <<>> THEN ExpandGlobParts(tree, base, rest, opts)
          ELSE IF opts.globstar /\ part = <<T("*"), T("*")>>
          THEN IF rest = <<>> THEN ({base} \ {<<>>}) \cup Below(tree, base, opts.dotglob)
               ELSE UNION {ExpandGlobParts(tree, d, rest, opts) :
                           d \in {base} \cup {b \in Below(tree, base, opts.dotglob) : IsDir(tree, b)}}
          ELSE UNION {ExpandGlobParts(tree, e, rest, opts) :
                 e \in {x \in Entries(tree, base) :
                          IF HasActiveGlob(part)
                          THEN GlobComponentMatches(part, Last(x), opts)
                          ELSE Last(x) = Plain(part)}}

\* expand_glob: a trailing slash keeps directories only.
ExpandGlob(tree, p, opts) ==
  {m \in ExpandGlobParts(tree, <<>>, SplitGlobParts(p), opts) :
     TokenAt(p, Len(p)).ch = "/" => IsDir(tree, m)}

=============================================================================
