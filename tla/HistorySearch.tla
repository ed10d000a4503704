--------------------------- MODULE HistorySearch ----------------------------
(***************************************************************************)
(* Searching the command history: the picker of the line editor, the       *)
(* suggestion behind the cursor and the history builtin ask it.            *)
(*                                                                         *)
(* An entry is a command (a sequence of characters) with what was recorded *)
(* about it: [command, cwd, code, age, family].                            *)
(***************************************************************************)
EXTENDS Integers, Sequences, SequencesExt, FiniteSets

CONSTANTS
  LowerOf,     \* the upper case letters with their lower case
  Wrappers,    \* words that are not the command itself: output modes, lookup
  Hour, Day    \* ages up to which a command is very, or fairly, recent

Lower(text) == [i \in DOMAIN text |-> IF text[i] \in DOMAIN LowerOf THEN LowerOf[text[i]] ELSE text[i]]
Trimmed(text) ==
  LET solid == {i \in DOMAIN text : text[i] # " "}
  IN IF solid = {} THEN <<>>
     ELSE SubSeq(text, CHOOSE i \in solid : \A j \in solid : i <= j, CHOOSE i \in solid : \A j \in solid : j <= i)

frecency_weight(age) ==
  CASE age <= Hour -> 100
    [] Hour < age /\ age <= Day -> 50
    [] Day < age /\ age <= 7 * Day -> 20
    [] 7 * Day < age /\ age <= 30 * Day -> 8
    [] age > 30 * Day -> 2

RECURSIVE FuzzyFrom(_, _, _, _)
\* Each letter of the query at its first place behind the last one.
FuzzyFrom(q, t, i, prev) ==
  IF q = <<>> THEN <<0>>
  ELSE IF i > Len(t) THEN <<>>
  ELSE IF t[i] # q[1] THEN FuzzyFrom(q, t, i + 1, prev)
  ELSE LET here == 10 + (IF prev = i - 1 /\ prev > 0 THEN 15 ELSE 0)
                      + (IF i = 1 \/ t[i - 1] \in {" ", "/", "-"} THEN 10 ELSE 0)
           add(rest) == IF rest = <<>> THEN <<>> ELSE <<here + rest[1]>>
       IN add(FuzzyFrom(Tail(q), t, i + 1, i))

\* <<score>>, or <<>> when the query is no subsequence of the text.
fuzzy_score(query, text) ==
  LET less(found) == IF found = <<>> THEN <<>> ELSE <<found[1] - (Len(text) \div 4)>>
  IN IF query = <<>> THEN <<0>> ELSE less(FuzzyFrom(Lower(query), Lower(text), 1, 0))

RECURSIVE Words(_)
Words(text) ==
  LET blanks(t) == {i \in DOMAIN t : t[i] = " "}
      end(t) == IF blanks(t) = {} THEN Len(t) ELSE (CHOOSE i \in blanks(t) : \A j \in blanks(t) : i <= j) - 1
      split(t, n) == <<SubSeq(t, 1, n)>> \o Words(SubSeq(t, n + 1, Len(t)))
      words(t) == IF t = <<>> THEN <<>> ELSE split(t, end(t))
  IN words(Trimmed(text))

\* The command behind assignments and wrappers, without its directory.
command_family(command) ==
  LET assignment(w) == "=" \in ToSet(w) /\ w[1] # "=" /\ "/" \notin ToSet(w)
      slashes(w) == {i \in DOMAIN w : w[i] = "/"}
      base(w) == IF slashes(w) = {} THEN w
                 ELSE SubSeq(w, (CHOOSE i \in slashes(w) : \A j \in slashes(w) : j <= i) + 1, Len(w))
      family(own) == IF own = <<>> THEN <<>> ELSE Lower(base(own[1]))
  IN family(SelectSeq(Words(command), LAMBDA w : ~ assignment(w) /\ w \notin Wrappers /\ base(w) # <<>>))

search_score(entry, query, mode) ==
  LET places(hay, needle) ==
        {i \in 1..(Len(hay) - Len(needle) + 1) : SubSeq(hay, i, i + Len(needle) - 1) = needle}
      fulltext(at) == IF at = {} THEN <<>> ELSE <<8001 - (CHOOSE i \in at : \A j \in at : i <= j)>>
      prefix(hay, needle, score) == IF hay # <<>> /\ IsPrefix(needle, hay) THEN <<score>> ELSE <<>>
      score(text, needle, hay) ==
        CASE text = <<>> -> <<100>>
          [] mode = "fuzzy" -> fuzzy_score(text, entry.command)
          [] mode = "prefix" -> prefix(hay, needle, 10000 - Len(hay))
          [] mode = "fulltext" -> fulltext(places(hay, needle))
          [] mode = "exact" -> IF entry.command = text THEN <<20000>> ELSE <<>>
          [] mode = "family" -> prefix(command_family(entry.command), needle, 12000)
  IN score(Trimmed(query), Lower(Trimmed(query)), Lower(entry.command))

\* The scopes the picker offers; the builtin's filters are of the same kind.
entry_matches_filters(entry, scope) ==
  CASE scope.kind = "global" -> TRUE
    [] scope.kind = "cwd" -> entry.cwd = scope.dir
    [] scope.kind = "failures" -> entry.code > 0

Score(entry, found) ==
  found + frecency_weight(entry.age) + (IF entry.code = 0 THEN 20 ELSE IF entry.code > 0 THEN -10 ELSE 0)

\* Mutant: duplicates are dropped before the filters are applied.
DedupeFirstMutant(entries, hits) ==
  {i \in hits : \A j \in DOMAIN entries : entries[j].command = entries[i].command => j <= i}

\* The newest entry of every command among the hits.
Newest(entries, hits) == {i \in hits : \A j \in hits : entries[j].command = entries[i].command => j <= i}

\* Best first; entries of one score stay newest first (sort_by_key is stable).
\* The count tells how many entries stand behind a row.
query(entries, text, scope, mode, limit) ==
  LET rows(hits, order) ==
        [k \in 1..(IF Len(order) < limit THEN Len(order) ELSE limit) |->
           [index |-> order[k], count |-> Cardinality({j \in hits : entries[j].command = entries[order[k]].command})]]
      best(hits, score) ==
        rows(hits, SetToSortSeq(Newest(entries, hits),
                                LAMBDA i, j : score[i] > score[j] \/ (score[i] = score[j] /\ i > j)))
      ranked(hits, found) == best(hits, [i \in hits |-> Score(entries[i], found[i][1])])
      among(found) ==
        ranked({i \in DOMAIN entries : entry_matches_filters(entries[i], scope) /\ found[i] # <<>>}, found)
  IN among([i \in DOMAIN entries |-> search_score(entries[i], text, mode)])

\* The newest command that continues what is typed: <<command>> or <<>>.
suggest(entries, prefix) ==
  LET longer == {i \in DOMAIN entries : Len(entries[i].command) > Len(prefix) /\ IsPrefix(prefix, entries[i].command)}
  IN IF prefix = <<>> \/ longer = {} THEN <<>>
     ELSE <<entries[CHOOSE i \in longer : \A j \in longer : j <= i].command>>

=============================================================================
