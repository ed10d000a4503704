--------------------------- MODULE ShellReference ---------------------------
(***************************************************************************)
(* What the language components of agsh are compared with: the meaning of  *)
(* a pattern as a set of texts, field splitting as a rule over the         *)
(* characters of a word and their quoting, arithmetic over expression      *)
(* trees, and command trees.  Each has a writer that puts the tree down as *)
(* the text the shell reads.  Nothing here models code.                    *)
(***************************************************************************)
EXTENDS Integers, Sequences, SequencesExt

Pre(s, k) == SubSeq(s, 1, k)
Suf(s, k) == SubSeq(s, k + 1, Len(s))
Between(seqs, sep) ==
  IF seqs = <<>> THEN <<>>
  ELSE FoldLeft(LAMBDA acc, s : acc \o sep \o s, Head(seqs), Tail(seqs))

-----------------------------------------------------------------------------
(* Patterns: elements [k, ..] and the texts they denote.                   *)

RECURSIVE Denotes(_, _), Repeats(_, _), PatternText(_)
SomeAlt(alts, t) == \E i \in DOMAIN alts : Denotes(alts[i], t)
Repeats(alts, t) ==
  t = <<>> \/ \E k \in 1..Len(t) : SomeAlt(alts, Pre(t, k)) /\ Repeats(alts, Suf(t, k))
Element(e, t) ==
  CASE e.k = "lit" -> t = <<e.c>>
    [] e.k = "any" -> Len(t) = 1
    [] e.k = "star" -> TRUE
    [] e.k = "set" -> Len(t) = 1 /\ (t[1] \in ToSet(e.members)) # e.neg
    [] e.k = "@" -> SomeAlt(e.alts, t)
    [] e.k = "?" -> t = <<>> \/ SomeAlt(e.alts, t)
    [] e.k = "*" -> Repeats(e.alts, t)
    [] e.k = "+" -> t # <<>> /\ Repeats(e.alts, t)
    [] e.k = "!" -> ~SomeAlt(e.alts, t)
Denotes(p, t) ==
  IF p = <<>> THEN t = <<>>
  ELSE \E k \in 0..Len(t) : Element(Head(p), Pre(t, k)) /\ Denotes(Tail(p), Suf(t, k))

ElementText(e) ==
  CASE e.k = "lit" -> <<e.c>>
    [] e.k = "any" -> <<"?">>
    [] e.k = "star" -> <<"*">>
    [] e.k = "set" -> <<"[">> \o (IF e.neg THEN <<"!">> ELSE <<>>) \o e.members \o <<"]">>
    [] OTHER -> <<e.k, "(">> \o Between([i \in DOMAIN e.alts |-> PatternText(e.alts[i])], <<"|">>) \o <<")">>
PatternText(p) == FlattenSeq([i \in DOMAIN p |-> ElementText(p[i])])

\* What ${v#p}, ${v##p}, ${v%p}, ${v%%p} and ${v/p/r} leave of a text.
Removed(t, p, longest, prefix) ==
  LET Cut(k) == IF prefix THEN Denotes(p, Pre(t, k)) ELSE Denotes(p, Suf(t, Len(t) - k))
      cuts == {k \in 0..Len(t) : Cut(k)}
      size == CHOOSE k \in cuts : \A j \in cuts : IF longest THEN k >= j ELSE k <= j
  IN IF cuts = {} THEN t ELSE IF prefix THEN Suf(t, size) ELSE Pre(t, Len(t) - size)
Replaced(t, p, r) ==
  LET found == {m \in (0..Len(t)) \X (0..Len(t)) : m[1] <= m[2] /\ Denotes(p, SubSeq(t, m[1] + 1, m[2]))}
      first == CHOOSE m \in found :
                 \A n \in found : m[1] < n[1] \/ (m[1] = n[1] /\ m[2] >= n[2])
  IN IF found = {} THEN t ELSE Pre(t, first[1]) \o r \o Suf(t, first[2])

-----------------------------------------------------------------------------
(* Fields.  A unit is a character with whether splitting may cut at it, a  *)
(* mark that a field exists although it may be empty, or a boundary.       *)

Unit(c, cut) == [c |-> c, cut |-> cut]
Units(text, cut) == [i \in DOMAIN text |-> Unit(text[i], cut)]
Mark == Unit("mark", FALSE)
Boundary == Unit("boundary", FALSE)

RECURSIVE Split(_, _, _)
\* POSIX field splitting: blanks of IFS at the ends are dropped; a field ends at
\* a run of them, or at another character of IFS with the blanks around it.
Split(units, ifs, blanks) ==
  LET White(i) == units[i].cut /\ units[i].c \in ifs \cap blanks
      Delim(i) == units[i].cut /\ units[i].c \in ifs
      Skip(i) == CHOOSE k \in i..(Len(units) + 1) :
                   (k > Len(units) \/ ~White(k)) /\ \A j \in i..(k - 1) : White(j)
      from == Skip(1)
      stops == {k \in from..Len(units) : Delim(k) \/ units[k] = Boundary}
      stop == IF stops = {} THEN Len(units) + 1 ELSE CHOOSE k \in stops : \A j \in stops : k <= j
      field == SelectSeq(SubSeq(units, from, stop - 1), LAMBDA u : u # Mark)
      text == [i \in DOMAIN field |-> field[i].c]
      there == stop > from \/ (stop <= Len(units) /\ Delim(stop))
      hard == Skip(stop)
      next == IF stop <= Len(units) /\ units[stop] = Boundary THEN stop + 1
              ELSE IF hard <= Len(units) /\ Delim(hard) THEN Skip(hard + 1) ELSE hard
  IN IF from > Len(units) THEN <<>>
     ELSE (IF there THEN <<text>> ELSE <<>>)
          \o (IF stop > Len(units) THEN <<>> ELSE Split(SubSeq(units, next, Len(units)), ifs, blanks))

-----------------------------------------------------------------------------
(* Arithmetic: expression trees, their value and their text.               *)

Num(n) == [k |-> "num", text |-> n]
Var(x) == [k |-> "var", text |-> x]
Un(op, e) == [k |-> "un", op |-> op, a |-> e]
Bin(op, a, b) == [k |-> "bin", op |-> op, a |-> a, b |-> b]
Set(x, op, e) == [k |-> "set", op |-> op, x |-> x, a |-> e]
Cond(c, a, b) == [k |-> "cond", c |-> c, a |-> a, b |-> b]
Step(x, op, post) == [k |-> "step", x |-> x, op |-> op, post |-> post]

\* C precedence: the larger binds tighter.
Binds(op) ==
  CASE op = "||" -> 3 [] op = "&&" -> 4 [] op = "|" -> 5 [] op = "^" -> 6 [] op = "&" -> 7
    [] op \in {"==", "!="} -> 8 [] op \in {"<", ">", "<=", ">="} -> 9 [] op \in {"<<", ">>"} -> 10
    [] op \in {"+", "-"} -> 11 [] op \in {"*", "/", "%"} -> 12 [] op = "**" -> 13
Strength(e) ==
  CASE e.k = "set" -> 1 [] e.k = "cond" -> 2 [] e.k = "bin" -> Binds(e.op) [] e.k = "un" -> 14 [] OTHER -> 15

RECURSIVE ExprText(_)
In(e, least) == IF Strength(e) >= least THEN ExprText(e) ELSE <<"(">> \o ExprText(e) \o <<")">>
ExprText(e) ==
  CASE e.k \in {"num", "var"} -> <<e.text>>
    [] e.k = "un" -> <<e.op>> \o In(e.a, 14)
    [] e.k = "bin" -> IF e.op = "**" THEN In(e.a, 14) \o <<"**">> \o In(e.b, 13)
                      ELSE In(e.a, Binds(e.op)) \o <<e.op>> \o In(e.b, Binds(e.op) + 1)
    [] e.k = "set" -> <<e.x, e.op>> \o In(e.a, 1)
    [] e.k = "cond" -> In(e.c, 3) \o <<"?">> \o In(e.a, 2) \o <<":">> \o In(e.b, 2)
    [] e.k = "step" -> IF e.post THEN <<e.x, e.op>> ELSE <<e.op, e.x>>

-----------------------------------------------------------------------------
(* Commands: a list has items, an item commands, a command a kind and the  *)
(* lists that are its parts.                                               *)

Simple(w) == [kind |-> "simple", redirs |-> <<>>, parts |-> w]
Holding(kind, lists) == [kind |-> kind, redirs |-> <<>>, parts |-> lists]
Item(op, neg, bg, commands) == [op |-> op, neg |-> neg, bg |-> bg, commands |-> commands]
ListOf(items) == [err |-> "none", items |-> items]

Word1(t) == [t |-> t, q |-> "bare", op |-> FALSE]
Oper(t) == [t |-> t, q |-> "bare", op |-> TRUE]
Semi == <<Oper(";")>>

RECURSIVE ListText(_), CommandText(_)
Joint(l, k) ==
  LET next == l.items[k + 1].op
  IN IF l.items[k].bg THEN <<Oper("&")>>
     ELSE IF next = "and" THEN <<Oper("&&")>> ELSE IF next = "or" THEN <<Oper("||")>> ELSE Semi
ItemText(item) ==
  (IF item.neg THEN <<Word1("!")>> ELSE <<>>)
  \o Between([c \in DOMAIN item.commands |-> CommandText(item.commands[c])], <<Oper("|")>>)
ListText(l) ==
  FlattenSeq([k \in DOMAIN l.items |->
    ItemText(l.items[k])
    \o (IF k < Len(l.items) THEN Joint(l, k) ELSE IF l.items[k].bg THEN <<Oper("&")>> ELSE <<>>)])
\* A list before a reserved word needs an end.
Ended(l) == ListText(l) \o (IF l.items[Len(l.items)].bg THEN <<>> ELSE Semi)
Reserved(t, l) == <<Word1(t)>> \o Ended(l)
CommandText(c) ==
  LET p == c.parts
      text == CASE c.kind = "simple" -> p
        [] c.kind = "if" -> Reserved("if", p[1]) \o Reserved("then", p[2])
             \o (IF Len(p) = 3 THEN Reserved("else", p[3]) ELSE <<>>)
             \o (IF Len(p) = 4 THEN Reserved("elif", p[3]) \o Reserved("then", p[4]) ELSE <<>>)
             \o <<Word1("fi")>>
        [] c.kind = "while" -> Reserved("while", p[1]) \o Reserved("do", p[2]) \o <<Word1("done")>>
        [] c.kind = "for" -> <<Word1("for"), Word1("x"), Word1("in"), Word1("w")>> \o Semi
             \o Reserved("do", p[1]) \o <<Word1("done")>>
        [] c.kind = "cfor" -> <<Word1("for"), Word1("((;;))")>> \o Semi
             \o Reserved("do", p[1]) \o <<Word1("done")>>
        [] c.kind = "case" -> <<Word1("case"), Word1("w"), Word1("in")>>
             \o FlattenSeq([k \in DOMAIN p |-> <<Word1("p)")>> \o ListText(p[k]) \o Semi \o Semi])
             \o <<Word1("esac")>>
        [] c.kind = "sub" -> <<Word1("(")>> \o ListText(p[1]) \o <<Word1(")")>>
        [] c.kind = "brace" -> Reserved("{", p[1]) \o <<Word1("}")>>
        [] c.kind = "func" -> <<Word1("f()")>> \o Reserved("{", p[1]) \o <<Word1("}")>>
  IN text \o FlattenSeq([r \in DOMAIN c.redirs |-> <<Oper(c.redirs[r][1]), Word1(c.redirs[r][2])>>])

=============================================================================
