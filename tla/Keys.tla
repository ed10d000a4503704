-------------------------------- MODULE Keys --------------------------------
(***************************************************************************)
(* The keyboard side of the line editor: bytes arrive in reads of any size *)
(* and become keys.  A byte is named by what it is: "esc", "enter", "intr" *)
(* (the interrupt key), "ctrl" (another byte that is a key of its own),    *)
(* "lead" and "cont" (a two-byte character), "bad" (no character starts    *)
(* with it), or the character itself.  Every line has an editor and a      *)
(* reader of its own, with a buffer that begins empty.                     *)
(***************************************************************************)
EXTENDS Integers, Sequences, SequencesExt

Key(k, used) == [how |-> "key", key |-> k, used |-> used]
Incomplete == [how |-> "incomplete"]

PASTE_START == <<"esc", "[", "2", "0", "0", "~">>
PASTE_END == <<"esc", "[", "2", "0", "1", "~">>
Digits == {"0", "1", "2", "3"}
Finals == {"A", "C", "O", "a", "b", "[", "~"}

csi_key(params, final, used) ==
  CASE final = "~" -> Key(IF params = <<"3">> THEN "Delete" ELSE "Unknown", used)
    [] final = "A" -> Key("Up", used)
    [] final = "C" -> Key(IF ";" \in ToSet(params) THEN "WordRight" ELSE "Right", used)
    [] OTHER -> Key("Unknown", used)

decode_csi(buf) ==
  LET ends == {i \in 3..Len(buf) : buf[i] \in Finals}
      end == CHOOSE i \in ends : \A j \in ends : i <= j
  IN IF ends = {} THEN Incomplete ELSE csi_key(SubSeq(buf, 3, end - 1), buf[end], end)

decode_ss3(buf) ==
  CASE Len(buf) < 3 -> Incomplete
    [] buf[3] = "A" -> Key("Up", 3)
    [] buf[3] = "C" -> Key("Right", 3)
    [] OTHER -> Key("Unknown", 3)

decode_escape(buf) ==
  CASE Len(buf) < 2 -> Incomplete
    [] buf[2] = "[" -> decode_csi(buf)
    [] buf[2] = "O" -> decode_ss3(buf)
    [] buf[2] = "b" -> Key("WordLeft", 2)
    [] buf[2] \in Digits \ {"0"} -> Key("AltDigit", 2)
    [] OTHER -> Key("Escape", 1)

\* Bug shape: a character whose rest is not there yet is taken for a broken one.
ShortReadMutant(buf) ==
  CASE buf[1] \in {"bad", "cont"} -> Key("Unknown", 1)
    [] buf[1] # "lead" -> Key(<<buf[1]>>, 1)
    [] Len(buf) >= 2 /\ buf[2] = "cont" -> Key(<<"lead", "cont">>, 2)
    [] OTHER -> Key("Unknown", 1)

decode_utf8(buf) ==
  CASE buf[1] = "bad" -> Key("Unknown", 1)
    [] buf[1] = "cont" -> Key("Unknown", 1)
    [] buf[1] # "lead" -> Key(<<buf[1]>>, 1)
    [] Len(buf) < 2 -> Incomplete
    [] buf[2] = "cont" -> Key(<<"lead", "cont">>, 2)
    [] OTHER -> Key("Unknown", 1)

decode(buf) ==
  CASE buf = <<>> -> Incomplete
    [] buf[1] = "enter" -> Key("Enter", 1)
    [] buf[1] = "intr" -> Key("Interrupt", 1)
    [] buf[1] = "ctrl" -> Key("Control", 1)
    [] buf[1] = "esc" -> decode_escape(buf)
    [] OTHER -> decode_utf8(buf)

\* Where the needle starts, 0 when it does not occur.
find_sub(hay, needle) ==
  LET at == {i \in 1..(Len(hay) - Len(needle) + 1) : SubSeq(hay, i, i + Len(needle) - 1) = needle}
  IN IF at = {} THEN 0 ELSE CHOOSE i \in at : \A j \in at : i <= j

RECURSIVE Lossy(_)
\* from_utf8_lossy: what is no character becomes the replacement character.
Lossy(bytes) ==
  CASE bytes = <<>> -> <<>>
    [] bytes # <<>> /\ IsPrefix(<<"lead", "cont">>, bytes) -> <<"lead", "cont">> \o Lossy(SubSeq(bytes, 3, Len(bytes)))
    [] OTHER -> <<IF bytes[1] \in {"lead", "cont", "bad"} THEN "replacement" ELSE bytes[1]>> \o Lossy(Tail(bytes))

\* KeyReader::try_extract: a bracketed paste is one key.
try_extract(buf) ==
  LET end == find_sub(buf, PASTE_END)
  IN IF IsPrefix(PASTE_START, buf)
     THEN IF end = 0 THEN Incomplete
          ELSE Key(<<"Paste", Lossy(SubSeq(buf, Len(PASTE_START) + 1, end - 1))>>, end + Len(PASTE_END) - 1)
     ELSE IF IsStrictPrefix(buf, PASTE_START) THEN Incomplete
     ELSE decode(buf)

\* Editor::run returns on an interrupt, and on Enter when the command is complete;
\* the reader goes with the editor, and so does what is in its buffer.
LineEnds(buf, complete) == buf[1] = "intr" \/ (buf[1] = "enter" /\ complete)

RECURSIVE Extracted(_, _)
\* The keys that are in the buffer, and what stays in it.
Extracted(buf, complete) ==
  LET k == try_extract(buf)
  IN IF k.how = "incomplete" THEN [keys |-> <<>>, rest |-> buf]
     ELSE IF LineEnds(buf, complete) THEN [keys |-> <<k.key>>, rest |-> <<>>]
     ELSE LET more == Extracted(SubSeq(buf, k.used + 1, Len(buf)), complete)
          IN [keys |-> <<k.key>> \o more.keys, rest |-> more.rest]

RECURSIVE next_keys(_, _, _)
\* KeyReader::next_key over the reads to come, line after line; a read of nothing
\* is the end of the input.  A read that comes later than forty milliseconds after
\* a lone escape byte finds the escape key taken.
next_keys(buf, reads, complete) ==
  LET now == Extracted(buf, complete)
      late == reads = <<>> \/ Head(reads).late
      taken == IF now.rest = <<"esc">> /\ late THEN <<"Escape">> ELSE <<>>
      kept == IF taken = <<>> THEN now.rest ELSE <<>>
  IN now.keys \o taken
     \o (CASE reads = <<>> -> <<>>
           [] reads # <<>> /\ Head(reads).bytes = <<>> -> <<"Eof">>
           [] OTHER -> next_keys(kept \o Head(reads).bytes, Tail(reads), complete))
=============================================================================
