------------------------------- MODULE Editor -------------------------------
(***************************************************************************)
(* The interactive line editor: a line buffer, lines continued until the   *)
(* command is complete, browsing and searching the history, the suggestion *)
(* behind the cursor and the completion menu.                              *)
(*                                                                         *)
(* A text is a sequence of characters; Keys turns bytes into the keys this *)
(* module gets.                                                            *)
(***************************************************************************)
EXTENDS HistorySearch

CONSTANTS
  Typed,          \* characters the user types
  History,        \* the entries history_recent gives, oldest first
  CommandNames,   \* candidates in command position
  VariableNames,  \* variables, for $NAME and behind export
  Listing,        \* directory prefix -> candidates
  NameTakers,     \* commands whose arguments are variable names
  DirTakers,      \* commands whose argument is a directory
  Specs,          \* command -> candidates of a completion spec or of git
  Cols,           \* columns of the terminal
  Initial,        \* texts the editor may be started with
  MaxKeys         \* bound: keys pressed in one run

VARIABLES
  line,         \* the LineBuffer: [text, cursor]
  accumulated,  \* the lines entered so far of a command that goes on
  menu,         \* <<>>, or <<[start, candidates, selected]>>
  hist_pos,     \* 0, or the index of the entry shown
  stash,        \* what was being typed before the history was browsed
  ghost,        \* the suggestion shown behind the cursor
  picker,       \* <<>>, or <<[query, selected, scope, mode]>>
  result,       \* <<>>, or <<[how, line]>>
  keys,         \* keys pressed
  draft,        \* observer: the text before browsing began
  opened,       \* observer: the text around the word when the menu opened
  entered       \* observer: the lines entered

vars == <<line, accumulated, menu, hist_pos, stash, ghost, picker, result, keys, draft, opened, entered>>

-----------------------------------------------------------------------------
(* LineBuffer *)

Line(text, cursor) == [text |-> text, cursor |-> cursor]
Least(a, b) == IF a < b THEN a ELSE b
Before(l) == SubSeq(l.text, 1, l.cursor)
After(l) == SubSeq(l.text, l.cursor + 1, Len(l.text))
set(text) == Line(text, Len(text))
insert_str(l, s) == Line(Before(l) \o s \o After(l), l.cursor + Len(s))
text_range(l, start, end) == SubSeq(l.text, start + 1, end)
replace_range(l, start, end, s) ==
  LET a == Least(start, Len(l.text))
      e == Least(end, Len(l.text))
      b == IF e < a THEN a ELSE e
  IN Line(SubSeq(l.text, 1, a) \o s \o SubSeq(l.text, b + 1, Len(l.text)), a + Len(s))
backspace(l) == IF l.cursor = 0 THEN l ELSE Line(SubSeq(l.text, 1, l.cursor - 1) \o After(l), l.cursor - 1)
delete(l) == Line(Before(l) \o SubSeq(l.text, l.cursor + 2, Len(l.text)), l.cursor)
at_end(l) == l.cursor = Len(l.text)

\* Blanks, then the word in front of them; word, then the blanks in front of it.
prev_word_start(l) ==
  LET solid == {i \in 1..l.cursor : l.text[i] # " "}
      end == CHOOSE i \in solid : \A j \in solid : j <= i
      blanks == {i \in 1..end : l.text[i] = " "}
  IN IF solid = {} THEN 0 ELSE IF blanks = {} THEN 0 ELSE CHOOSE i \in blanks : \A j \in blanks : j <= i
next_word_end(l) ==
  LET n == Len(l.text)
      solid == {i \in (l.cursor + 1)..n : l.text[i] # " "}
      from == CHOOSE i \in solid : \A j \in solid : i <= j
      blanks == {i \in from..n : l.text[i] = " "}
  IN IF solid = {} THEN n ELSE IF blanks = {} THEN n ELSE (CHOOSE i \in blanks : \A j \in blanks : i <= j) - 1

\* The keys that only change the buffer.
Motion(l, key) ==
  CASE key = "Backspace" -> backspace(l)
    [] key = "Delete" -> delete(l)
    [] key = "Left" -> Line(l.text, IF l.cursor = 0 THEN 0 ELSE l.cursor - 1)
    [] key = "Home" -> Line(l.text, 0)
    [] key = "End" -> Line(l.text, Len(l.text))
    [] key = "WordLeft" -> Line(l.text, prev_word_start(l))
    [] key = "WordRight" -> Line(l.text, next_word_end(l))
    [] key = "KillToEnd" -> Line(Before(l), l.cursor)
    [] key = "KillToStart" -> Line(After(l), 0)
    [] key = "KillWord" -> replace_range(l, prev_word_start(l), l.cursor, <<>>)
    [] key = "DeleteWord" ->
         Line(Before(l) \o SubSeq(l.text, next_word_end(l) + 1, Len(l.text)), l.cursor)
MotionKeys == {"Backspace", "Delete", "Left", "Home", "End", "WordLeft", "WordRight",
               "KillToEnd", "KillToStart", "KillWord", "DeleteWord"}

-----------------------------------------------------------------------------
(* Completion *)

Candidate(value, kind) == [value |-> value, kind |-> kind, append_space |-> kind \notin {"dir", "name"}]
Separators == {" ", "|", "&", ";"}
After1(t, i) == SubSeq(t, i + 1, Len(t))
LastAt(t, chars) ==
  LET at == {i \in DOMAIN t : t[i] \in chars} IN IF at = {} THEN 0 ELSE CHOOSE i \in at : \A j \in at : j <= i
FirstAt(t, c) ==
  LET at == {i \in DOMAIN t : t[i] = c} IN IF at = {} THEN 0 ELSE CHOOSE i \in at : \A j \in at : i <= j

parse_assignment_word(w) == FirstAt(w, "=") > 1
\* split_path: the directory typed so far, and where the file's name starts.
split_path(word) == SubSeq(word, 1, LastAt(word, {"/"}))
path_candidates(dir, dirs_only) ==
  LET all == IF dir \in DOMAIN Listing THEN Listing[dir] ELSE <<>>
  IN IF dirs_only THEN SelectSeq(all, LAMBDA c : c.kind = "dir") ELSE all
variable_candidates(style) ==
  [i \in DOMAIN VariableNames |->
     CASE style = "dollar" -> Candidate(<<"$">> \o VariableNames[i], "variable")
       [] style = "assignment" -> Candidate(Append(VariableNames[i], "="), "name")
       [] OTHER -> Candidate(VariableNames[i], "variable")]
\* Values the history gave to the variable, newest first.
assignment_value_candidates(name) ==
  LET given == SelectSeq(Reverse([i \in DOMAIN History |-> History[i].command]),
                         LAMBDA c : IsPrefix(Append(name, "="), c) /\ Len(c) > Len(name) + 1)
  IN [i \in DOMAIN given |-> Candidate(SubSeq(given[i], Len(name) + 2, Len(given[i])), "value")]
\* Commands by name, then earlier commands of one line.
command_candidates ==
  LET earlier == SelectSeq(Reverse([i \in DOMAIN History |-> History[i].command]),
                           LAMBDA c : "nl" \notin ToSet(c) /\ c \notin ToSet(CommandNames))
  IN [i \in DOMAIN CommandNames |-> Candidate(CommandNames[i], "command")]
     \o [i \in DOMAIN earlier |-> Candidate(earlier[i], "history")]

complete(l) ==
  LET before == Before(l)
      word_start == LastAt(before, Separators)
      word == After1(before, word_start)
      prefix == SubSeq(before, 1, word_start)
      tokens == Words(prefix)
      last == IF tokens = <<>> THEN <<>> ELSE tokens[Len(tokens)]
      command_position == tokens = <<>> \/ last = <<"|">>
      named == SubSeq(word, 1, FirstAt(word, "=") - 1)
      first == IF tokens = <<>> THEN <<>> ELSE tokens[1]
      Found(start, candidates) == [start |-> start, candidates |-> candidates]
  IN CASE word # <<>> /\ word[1] = "$" -> Found(word_start, variable_candidates("dollar"))
       [] /\ parse_assignment_word(word)
          /\ \/ command_position \/ first \in NameTakers
             \/ \A i \in DOMAIN tokens : parse_assignment_word(tokens[i]) ->
            Found(word_start + Len(named) + 1, assignment_value_candidates(named))
       [] command_position /\ "/" \notin ToSet(word) -> Found(word_start, command_candidates)
       [] first \in DOMAIN Specs -> Found(word_start, Specs[first])
       [] first \in NameTakers /\ {"=", "/", "$"} \cap ToSet(word) = {} ->
            Found(word_start, variable_candidates("assignment"))
       [] OTHER -> Found(word_start + Len(split_path(word)),
                         path_candidates(split_path(word), last \in DirTakers))

\* filter_rank: prefixes before subsequences, short before long.
match_score(needle, hay) ==
  IF IsPrefix(needle, hay) THEN <<10000 - Len(hay)>>
  ELSE LET f == FuzzyFrom(needle, hay, 1, 0) IN IF f = <<>> THEN <<>> ELSE <<f[1] - (Len(hay) \div 4)>>
filter_rank(candidates, word) ==
  LET score == [i \in DOMAIN candidates |-> match_score(Lower(word), Lower(candidates[i].value))]
      hits == {i \in DOMAIN candidates : score[i] # <<>>}
  IN IF word = <<>> THEN [i \in DOMAIN candidates |-> i]
     ELSE SetToSortSeq(hits, LAMBDA i, j : score[i][1] > score[j][1] \/ (score[i][1] = score[j][1] /\ i < j))

longest_common_prefix(items) ==
  LET shared == {n \in 0..Len(items[1]) : \A i \in DOMAIN items : IsPrefix(SubSeq(items[1], 1, n), items[i])}
  IN SubSeq(items[1], 1, CHOOSE n \in shared : \A m \in shared : m <= n)

apply_candidate(l, start, c) ==
  LET placed == replace_range(l, start, l.cursor, c.value)
  IN IF c.append_space THEN insert_str(placed, <<" ">>) ELSE placed

Word(l, m) == text_range(l, m.start, l.cursor)
completion_visible(l, m) == filter_rank(m.candidates, Word(l, m))
Menu(start, candidates) == <<[start |-> start, candidates |-> candidates, selected |-> 1]>>

-----------------------------------------------------------------------------
\* The rest of the newest command that continues the line, up to its line's end
\* and only where it fits.
single_line_ghost(full, n) ==
  LET rest == After1(full, n)
      end == FirstAt(rest, "nl")
  IN IF end = 0 THEN rest ELSE SubSeq(rest, 1, end - 1)
PromptWidth == IF accumulated = <<>> THEN 1 ELSE 2
clip_ghost(g, used) ==
  LET avail == Cols - (used % Cols) - 1 IN Len(g) <= avail \/ avail >= 2
GhostFor(l, m, width) ==
  LET found == suggest(History, l.text)
      g == IF found = <<>> THEN <<>> ELSE single_line_ghost(found[1], Len(l.text))
  IN IF m = <<>> /\ at_end(l) /\ l.text # <<>> /\ g # <<>> /\ clip_ghost(g, width + Len(l.text)) THEN g ELSE <<>>

\* Every handler ends by painting, which is when the ghost is computed.
render(l, m) ==
  /\ line' = l /\ menu' = m
  /\ ghost' = GhostFor(l, m, PromptWidth)
  /\ draft' = IF hist_pos' = 0 THEN l.text ELSE draft

Editing == picker = <<>> /\ result = <<>>
Steady == UNCHANGED <<accumulated, picker, result, entered>>

Init ==
  /\ \E t \in Initial : line = set(t) /\ draft = t
  /\ ghost = GhostFor(line, <<>>, 1)
  /\ accumulated = <<>> /\ menu = <<>>
  /\ hist_pos = 0 /\ stash = <<>> /\ picker = <<>> /\ result = <<>>
  /\ keys = 0 /\ opened = <<<<>>, <<>>>> /\ entered = <<>>

\* A key the menu does not take closes it first.
Insert(s) ==
  /\ Editing
  /\ UNCHANGED <<hist_pos, stash, opened>> /\ Steady
  /\ render(insert_str(line, s), <<>>)

Move(key) ==
  /\ Editing /\ (menu # <<>> => key # "Backspace")
  /\ UNCHANGED <<hist_pos, stash, opened>> /\ Steady
  /\ render(Motion(line, key), <<>>)

Right ==
  /\ Editing /\ menu = <<>>
  /\ UNCHANGED <<hist_pos, stash, opened>> /\ Steady
  /\ render(IF at_end(line) THEN insert_str(line, ghost) ELSE Line(line.text, line.cursor + 1), <<>>)

\* Keys without a meaning here are not even painted.
Ignored ==
  /\ Editing /\ menu # <<>>
  /\ menu' = <<>>
  /\ UNCHANGED <<line, ghost, draft, hist_pos, stash, opened>> /\ Steady

history_prev ==
  LET next == IF hist_pos = 0 THEN Len(History) ELSE IF hist_pos = 1 THEN 1 ELSE hist_pos - 1
  IN /\ Editing /\ menu = <<>> /\ History # <<>>
     /\ hist_pos' = next
     /\ stash' = IF hist_pos = 0 THEN line.text ELSE stash
     /\ UNCHANGED <<opened>> /\ Steady
     /\ render(set(History[next].command), <<>>)

history_next ==
  /\ Editing /\ menu = <<>> /\ hist_pos # 0
  /\ hist_pos' = IF hist_pos >= Len(History) THEN 0 ELSE hist_pos + 1
  /\ UNCHANGED <<stash, opened>> /\ Steady
  /\ render(set(IF hist_pos' = 0 THEN stash ELSE History[hist_pos'].command), <<>>)

\* is_incomplete (the parser's), for these characters: a pipe at the end.
is_incomplete(text) == LET t == Trimmed(text) IN t # <<>> /\ t[Len(t)] = "|"

on_enter ==
  LET all == accumulated \o line.text
  IN /\ Editing /\ menu = <<>>
     /\ entered' = Append(entered, line.text)
     /\ UNCHANGED <<stash, opened, picker>>
     /\ IF is_incomplete(all)
        THEN /\ accumulated' = Append(all, "nl") /\ hist_pos' = 0
             /\ line' = Line(<<>>, 0) /\ menu' = <<>> /\ ghost' = <<>> /\ draft' = <<>>
             /\ UNCHANGED result
        ELSE /\ result' = <<[how |-> "line", line |-> all]>>
             /\ UNCHANGED <<line, accumulated, menu, ghost, hist_pos, draft>>

Interrupt ==
  /\ Editing /\ menu = <<>>
  /\ result' = <<[how |-> "interrupt", line |-> <<>>]>>
  /\ UNCHANGED <<line, accumulated, menu, hist_pos, stash, ghost, picker, draft, opened, entered>>

Eof ==
  /\ Editing
  /\ UNCHANGED <<hist_pos, stash, opened, accumulated, picker, entered>>
  /\ IF line.text = <<>> /\ accumulated = <<>>
     THEN /\ result' = <<[how |-> "eof", line |-> <<>>]>>
          /\ menu' = <<>>
          /\ UNCHANGED <<line, ghost, draft>>
     ELSE UNCHANGED result /\ render(delete(line), <<>>)

-----------------------------------------------------------------------------
open_completion ==
  LET c == complete(line)
      word == text_range(line, c.start, line.cursor)
      found == filter_rank(c.candidates, word)
      lcp == longest_common_prefix([i \in DOMAIN found |-> c.candidates[found[i]].value])
      long == Len(lcp) > Len(word)
  IN /\ Editing /\ menu = <<>>
     /\ UNCHANGED <<hist_pos, stash>> /\ Steady
     /\ opened' = <<SubSeq(line.text, 1, c.start), After(line)>>
     /\ CASE found = <<>> -> render(line, <<>>)
          [] Len(found) = 1 -> render(apply_candidate(line, c.start, c.candidates[found[1]]), <<>>)
          [] OTHER -> render(IF long THEN replace_range(line, c.start, line.cursor, lcp) ELSE line,
                             Menu(c.start, c.candidates))

\* The selection moves around the candidates that match what is typed.
MenuMove(step) ==
  LET m == menu[1]
      n == Len(completion_visible(line, m))
  IN /\ Editing /\ menu # <<>>
     /\ UNCHANGED <<hist_pos, stash, opened>> /\ Steady
     /\ render(line, <<[m EXCEPT !.selected = IF n = 0 THEN @ ELSE ((@ - 1 + step + n) % n) + 1]>>)

\* Accepting a directory opens the menu of what is in it.
accept_completion(at) ==
  LET m == menu[1]
      visible == completion_visible(line, m)
  IN /\ Editing /\ menu # <<>>
     /\ UNCHANGED <<hist_pos, stash, opened>> /\ Steady
     /\ IF at \notin DOMAIN visible THEN render(line, <<>>)
        ELSE LET c == m.candidates[visible[at]]
                 l == apply_candidate(line, m.start, c)
                 next == complete(l)
             IN render(l, IF c.kind = "dir" /\ next.candidates # <<>>
                          THEN Menu(next.start, next.candidates) ELSE <<>>)

MenuAccept == menu # <<>> /\ accept_completion(menu[1].selected)
\* A digit picks a row of the window that is shown.
MenuDigit(row, rows) ==
  LET n == Len(completion_visible(line, menu[1]))
      sel == menu[1].selected
      start == IF n <= rows \/ sel <= rows THEN 0 ELSE Least(sel - rows, n - rows)
  IN menu # <<>> /\ row <= Least(rows, n - start) /\ accept_completion(start + row)

MenuCancel ==
  /\ Editing /\ menu # <<>>
  /\ UNCHANGED <<hist_pos, stash, opened>> /\ Steady
  /\ render(line, <<>>)

Clamped(m, n) == IF n = 0 THEN [m EXCEPT !.selected = 1] ELSE [m EXCEPT !.selected = Least(@, n)]
refilter_completion(l, m) == Clamped(m, Len(completion_visible(l, m)))

MenuChar(c) ==
  LET l == insert_str(line, <<c>>)
  IN /\ Editing /\ menu # <<>>
     /\ UNCHANGED <<hist_pos, stash, opened>> /\ Steady
     /\ render(l, IF c = " " THEN <<>> ELSE <<refilter_completion(l, menu[1])>>)

\* Mutant: the menu stays open when the word is gone.
StayOpenMutant == FALSE

\* A backspace in front of the word closes the menu.
AtStart == line.cursor <= menu[1].start

MenuBackspace ==
  LET l == backspace(line)
  IN /\ Editing /\ menu # <<>>
     /\ UNCHANGED <<hist_pos, stash, opened>> /\ Steady
     /\ render(l, IF AtStart THEN <<>> ELSE <<refilter_completion(l, menu[1])>>)

-----------------------------------------------------------------------------
(* The history picker *)

Scopes == <<[kind |-> "global"], [kind |-> "cwd", dir |-> "d"], [kind |-> "failures"]>>
next_history_mode(m) ==
  CASE m = "fuzzy" -> "prefix" [] m = "prefix" -> "fulltext" [] m = "fulltext" -> "family"
    [] m = "family" -> "exact" [] m = "exact" -> "fuzzy"
Rows(p) == query(History, p.query, Scopes[p.scope], p.mode, Len(History))
Chosen(p) == History[Rows(p)[Least(p.selected, Len(Rows(p)))].index].command

ReverseSearch ==
  /\ Editing
  /\ picker' = <<[query |-> line.text, selected |-> 1, scope |-> 1, mode |-> "fuzzy"]>>
  /\ menu' = <<>>
  /\ UNCHANGED <<line, accumulated, hist_pos, stash, ghost, result, draft, opened, entered>>

PickerKey(key) ==
  LET p == picker[1]
      sel == Least(p.selected, IF Rows(p) = <<>> THEN 1 ELSE Len(Rows(p)))
  IN /\ picker # <<>> /\ result = <<>>
     /\ picker' = <<CASE key = "Up" -> [p EXCEPT !.selected = IF sel = 1 THEN 1 ELSE sel - 1]
                      [] key = "Down" -> [p EXCEPT !.selected = IF sel < Len(Rows(p)) THEN sel + 1 ELSE sel]
                      [] key = "ReverseSearch" -> [p EXCEPT !.scope = (@ % Len(Scopes)) + 1, !.selected = 1]
                      [] key = "SearchMode" -> [p EXCEPT !.mode = next_history_mode(@), !.selected = 1]
                      [] key = "Backspace" -> [p EXCEPT !.query = IF @ = <<>> THEN @ ELSE Front(@), !.selected = 1]
                      [] key = "KillToStart" -> [p EXCEPT !.query = <<>>, !.selected = 1]>>
     /\ UNCHANGED <<line, accumulated, menu, hist_pos, stash, ghost, result, draft, opened, entered>>

PickerChar(c) ==
  /\ picker # <<>> /\ result = <<>>
  /\ picker' = <<[picker[1] EXCEPT !.query = Append(@, c), !.selected = 1]>>
  /\ UNCHANGED <<line, accumulated, menu, hist_pos, stash, ghost, result, draft, opened, entered>>

\* Enter runs the row at once, whatever was entered before.
PickerRun ==
  /\ picker # <<>> /\ result = <<>> /\ Rows(picker[1]) # <<>>
  /\ result' = <<[how |-> "picked", line |-> Chosen(picker[1])]>>
  /\ picker' = <<>>
  /\ UNCHANGED <<line, accumulated, menu, hist_pos, stash, ghost, draft, opened, entered>>

PickerEdit ==
  /\ picker # <<>> /\ result = <<>> /\ Rows(picker[1]) # <<>>
  /\ picker' = <<>>
  /\ UNCHANGED <<accumulated, result, entered, hist_pos, stash, opened>>
  /\ render(set(Chosen(picker[1])), <<>>)

\* Escape, Ctrl-C, or Enter without a row.
PickerCancel ==
  /\ picker # <<>> /\ result = <<>>
  /\ picker' = <<>>
  /\ UNCHANGED <<accumulated, result, entered, hist_pos, stash, opened>>
  /\ render(line, <<>>)

Next ==
  /\ keys < MaxKeys /\ keys' = keys + 1
  /\ \/ \E c \in Typed : (menu = <<>> /\ Insert(<<c>>)) \/ MenuChar(c) \/ PickerChar(c)
     \/ Insert(<<"a", "nl">>)
     \/ \E k \in MotionKeys : Move(k)
     \/ Right \/ Ignored \/ history_prev \/ history_next \/ on_enter \/ Interrupt \/ Eof
     \/ open_completion \/ MenuAccept \/ MenuCancel \/ MenuBackspace
     \/ \E s \in {1, -1} : MenuMove(s)
     \/ \E r \in 1..2 : MenuDigit(r, 2)
     \/ ReverseSearch \/ PickerRun \/ PickerEdit \/ PickerCancel
     \/ \E k \in {"Up", "Down", "ReverseSearch", "SearchMode", "Backspace", "KillToStart"} : PickerKey(k)

Spec == Init /\ [][Next]_vars

-----------------------------------------------------------------------------
Joined == LET all[k \in 0..Len(entered)] == IF k = 0 THEN <<>> ELSE all[k - 1] \o entered[k] \o (IF k < Len(entered) THEN <<"nl">> ELSE <<>>)
          IN all[Len(entered)]

\* While the menu is open the text in front of and behind the word is what it
\* was when it opened, through typing, erasing, directories and windows; the
\* suggestion that Right would accept always continues the text that is shown to
\* a command of the history; browsing the history keeps the draft; and a line is
\* returned exactly as it was entered, continuation by continuation (editor.rs,
\* handle_completion_key, accept_completion, render, history_prev, on_enter).
EditorKeepsText ==
  /\ line.cursor \in 0..Len(line.text)
  /\ menu # <<>> =>
       /\ menu[1].start <= line.cursor
       /\ IsPrefix(opened[1], line.text) /\ After(line) = opened[2]
  /\ ghost # <<>> /\ picker = <<>> =>
       /\ at_end(line) /\ menu = <<>>
       /\ \E i \in DOMAIN History : IsPrefix(line.text \o ghost, History[i].command)
  /\ hist_pos # 0 => stash = draft
  /\ result # <<>> /\ result[1].how = "line" => result[1].line = Joined

=============================================================================
