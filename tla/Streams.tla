------------------------------ MODULE Streams ------------------------------
(***************************************************************************)
(* What becomes of the bytes a command writes: the outcome that carries    *)
(* the two streams, the order in which they were written and what a trace  *)
(* may keep of them; the redirections that send the streams elsewhere; and *)
(* the choice, made once for every command of a line, between showing its  *)
(* bytes and showing an observation of them.  A byte is a record that says *)
(* who wrote it; an optional value is a sequence of at most one.           *)
(***************************************************************************)
EXTENDS Naturals, Sequences, SequencesExt, FiniteSets, Functions

CONSTANTS
  Kept,       \* CAPTURE_HEAD and CAPTURE_TAIL: bytes kept at either end of a preview
  Marker,     \* the text that stands for what was left out
  MaxBytes,   \* MAX_AGGREGATE_CAPTURE_BYTES
  MaxSpans,   \* MAX_OUTPUT_SPANS
  MaxSegments,\* MAX_EXACT_TRACE_SEGMENTS
  SpoolBudget \* bytes a trace, or the trace spools of one line, may hold

Fds == {"out", "err"}
Both(out, err) == [s \in Fds |-> IF s = "out" THEN out ELSE err]
\* An Option: nothing, or some value.
Nil == <<>>
Some(x) == <<x>>

-----------------------------------------------------------------------------
(* Spans: the order in which the two streams were written.                 *)

Span(s, at, n) == [s |-> s, at |-> at, n |-> n]
initial_output_order(bytes) ==
  SelectSeq(<<Span("out", 0, Len(bytes["out"])), Span("err", 0, Len(bytes["err"]))>>, LAMBDA p : p.n > 0)

push_output_span(spans, p) ==
  LET k == Len(spans)
  IN IF p.n = 0 THEN spans
     ELSE IF k > 0 /\ spans[k].s = p.s /\ spans[k].at + spans[k].n = p.at
     THEN [spans EXCEPT ![k].n = @ + p.n] ELSE Append(spans, p)

\* Both kinds of streams, raw and presented, have bytes and an order.
validated_output_order(streams) ==
  IF streams.order # Nil
     /\ \A k \in DOMAIN streams.order[1] :
          streams.order[1][k].at + streams.order[1][k].n <= Len(streams.bytes[streams.order[1][k].s])
  THEN streams.order ELSE Nil

\* The spans of what is appended lie behind the bytes that are there.
Appended(dest, source, bytes, included) ==
  LET shifted == [k \in DOMAIN source |-> [source[k] EXCEPT !.at = @ + Len(bytes[source[k].s])]]
  IN FoldLeft(push_output_span, dest, SelectSeq(shifted, LAMBDA p : p.s \in included))
append_output_order(self, other, included) ==
  LET dest == validated_output_order(self)
      source == validated_output_order(other)
      spans == Appended(dest[1], source[1], self.bytes, included)
  IN IF dest = Nil \/ source = Nil THEN Nil
     ELSE IF Len(spans) > MaxSpans THEN Nil ELSE Some(spans)

\* The pieces in the order they are written out.
Pieces(streams) ==
  LET order == validated_output_order(streams)
      spans == IF order = Nil THEN initial_output_order(streams.bytes) ELSE order[1]
  IN [k \in DOMAIN spans |-> [s |-> spans[k].s,
        bytes |-> SubSeq(streams.bytes[spans[k].s], spans[k].at + 1, spans[k].at + spans[k].n)]]

-----------------------------------------------------------------------------
(* Outcomes.                                                               *)

captured(out, err) ==
  [bytes |-> Both(out, err), exact |-> Both(Nil, Nil), complete |-> Both(TRUE, TRUE), explicit |-> FALSE,
   mode |-> Nil, presented |-> Nil, handled |-> FALSE, observation |-> Nil, plan |-> Nil,
   order |-> Some(initial_output_order(Both(out, err)))]

\* The head, the marker and the tail.
Preview(bytes) ==
  IF Len(bytes) <= 2 * Kept THEN bytes
  ELSE SubSeq(bytes, 1, Kept) \o Marker \o SubSeq(bytes, Len(bytes) - Kept + 1, Len(bytes))
Memory(bytes) == [kind |-> "memory", bytes |-> bytes, total |-> Len(bytes)]
\* A spool holds what its budget allowed; its length is what the child wrote.
Stored(bytes, budget) == IF budget < Len(bytes) THEN budget ELSE Len(bytes)
Spool(bytes, budget) == [kind |-> "file", bytes |-> SubSeq(bytes, 1, Stored(bytes, budget)), total |-> Len(bytes)]
\* spool: whether the stream could be teed to a file, and how much of it.
captured_from_streams(out, err, spool) ==
  LET exact(b, budget) == IF spool.made THEN Some(<<Spool(b, budget)>>) ELSE Nil
  IN [captured(Preview(out), Preview(err)) EXCEPT
        !.exact = Both(exact(out, spool.budget), exact(err, spool.budget - Stored(out, spool.budget))),
        !.complete = Both(Len(out) <= 2 * Kept, Len(err) <= 2 * Kept)]

push_exact_segment(segments, g) ==
  LET k == Len(segments)
  IN IF g.kind = "memory" /\ g.bytes = <<>> THEN segments
     ELSE IF g.kind = "memory" /\ k > 0 /\ segments[k].kind = "memory"
     THEN [segments EXCEPT ![k] = Memory(@.bytes \o g.bytes)] ELSE Append(segments, g)

take_exact_or_complete_preview(o, s) ==
  IF o.exact[s] # Nil THEN o.exact[s]
  ELSE IF ~o.complete[s] THEN Nil
  ELSE Some(IF o.bytes[s] = <<>> THEN <<>> ELSE <<Memory(o.bytes[s])>>)

\* Bug shape: a stream whose middle is gone counts as kept.
KeepPreviewMutant(self, other, s) ==
  LET dest == IF self.exact[s] # Nil THEN self.exact[s] ELSE Some(<<Memory(self.bytes[s])>>)
      source == IF other.exact[s] # Nil THEN other.exact[s] ELSE Some(<<Memory(other.bytes[s])>>)
  IN IF self.exact[s] = Nil /\ other.exact[s] = Nil THEN Nil
     ELSE Some(FoldLeft(push_exact_segment, dest[1], source[1]))
append_exact_segments(self, other, s) ==
  LET dest == take_exact_or_complete_preview(self, s)
      source == take_exact_or_complete_preview(other, s)
  IN IF (self.exact[s] = Nil /\ other.exact[s] = Nil) \/ dest = Nil \/ source = Nil THEN Nil
     ELSE Some(FoldLeft(push_exact_segment, dest[1], source[1]))

\* The memory an append would take: previews, what is kept exactly in memory, and
\* the descriptions of spans and segments.
Held(segments) == FoldLeft(LAMBDA n, g : n + (IF g.kind = "memory" THEN Len(g.bytes) ELSE 0), 0, segments)
projected_stream_capture_bytes(self, other, s, included) ==
  LET both == Len(self.bytes[s]) + (IF included THEN Len(other.bytes[s]) ELSE 0)
      exact == IF included THEN append_exact_segments(self, other, s) ELSE self.exact[s]
  IN IF exact = Nil THEN both
     ELSE Held(exact[1]) + (IF both > 2 * Kept THEN 2 * Kept + Len(Marker) ELSE both)
projected_output_span_count(self, other, included) ==
  IF self.order = Nil \/ other.order = Nil THEN 0
  ELSE Len(self.order[1]) + Len(SelectSeq(other.order[1], LAMBDA p : p.s \in included))
\* The segments either side brings, before neighbours are joined.
projected_exact_segment_count(self, other, included) ==
  LET count(s) ==
        LET dest == take_exact_or_complete_preview(self, s)
            source == IF s \in included THEN take_exact_or_complete_preview(other, s) ELSE Some(<<>>)
        IN IF (self.exact[s] = Nil /\ (s \in included => other.exact[s] = Nil)) \/ dest = Nil \/ source = Nil THEN 0
           ELSE Len(dest[1]) + Len(source[1])
  IN count("out") + count("err")
projected_aggregate_capture_bytes(self, other, included) ==
  projected_stream_capture_bytes(self, other, "out", "out" \in included)
  + projected_stream_capture_bytes(self, other, "err", "err" \in included)
  + projected_output_span_count(self, other, included) + projected_exact_segment_count(self, other, included)

Fine(o) == [ok |-> TRUE, o |-> o]
TooLarge(o) == [ok |-> FALSE, o |-> o]
append_streams_with_limit(self, other, included) ==
  LET exact == [s \in Fds |-> IF s \in included THEN append_exact_segments(self, other, s) ELSE self.exact[s]]
      both == [s \in Fds |-> IF s \in included THEN self.bytes[s] \o other.bytes[s] ELSE self.bytes[s]]
      whole == [s \in Fds |-> self.complete[s] /\ (s \in included => other.complete[s])]
      bounded(s) == s \in included /\ exact[s] # Nil
  IN IF projected_aggregate_capture_bytes(self, other, included) > MaxBytes
        \/ projected_output_span_count(self, other, included) > MaxSpans
        \/ projected_exact_segment_count(self, other, included) > MaxSegments
     THEN TooLarge(self)
     ELSE Fine([self EXCEPT !.order = append_output_order(self, other, included), !.exact = exact,
                  !.bytes = [s \in Fds |-> IF bounded(s) THEN Preview(both[s]) ELSE both[s]],
                  !.complete = [s \in Fds |-> whole[s] /\ (bounded(s) => Len(both[s]) <= 2 * Kept)]])

-----------------------------------------------------------------------------
(* Presentations.                                                          *)

NothingPresented == [bytes |-> Both(<<>>, <<>>), order |-> Some(<<>>)]
resident_stream_bytes(o) ==
  LET size(b) == Len(b["out"]) + Len(b["err"])
  IN size(o.bytes) + (IF o.presented = Nil THEN 0 ELSE size(o.presented[1].bytes))

append_presented(o, p) ==
  LET d == IF o.presented = Nil THEN NothingPresented ELSE o.presented[1]
      crowded(order) == order = Nil /\ validated_output_order(d) # Nil /\ validated_output_order(p) # Nil
      extended(order) ==
        IF crowded(order) \/ resident_stream_bytes(o) + Len(p.bytes["out"]) + Len(p.bytes["err"]) > MaxBytes
        THEN TooLarge(o)
        ELSE Fine([o EXCEPT !.presented = Some([bytes |-> [s \in Fds |-> d.bytes[s] \o p.bytes[s]], order |-> order])])
  IN extended(append_output_order(d, p, Fds))

select_observation_presentation(o) ==
  IF o.observation = Nil THEN Fine(o)
  ELSE LET shown == Both(o.observation[1], <<>>)
       IN append_presented([o EXCEPT !.observation = Nil], [bytes |-> shown, order |-> Some(initial_output_order(shown))])

select_raw_presentation(o) ==
  IF o.presented # Nil THEN Fine(o)
  ELSE IF resident_stream_bytes(o) + Len(o.bytes["out"]) + Len(o.bytes["err"]) > MaxBytes THEN TooLarge(o)
  ELSE Fine([o EXCEPT !.presented = Some([bytes |-> o.bytes, order |-> o.order])])

select_empty_presentation(o) == IF o.presented # Nil THEN o ELSE [o EXCEPT !.presented = Some(NothingPresented)]

select_explicit_presentation(o) ==
  IF o.observation # Nil THEN select_observation_presentation(o)
  ELSE IF o.mode \in {Nil, Some("raw")} THEN select_raw_presentation(o)
  ELSE Fine(select_empty_presentation(o))

has_raw_output(o) == o.bytes["out"] # <<>> \/ o.bytes["err"] # <<>>
has_presentation_semantics(o) ==
  o.explicit \/ o.mode # Nil \/ o.observation # Nil \/ o.presented # Nil \/ o.handled

\* One operation after another, until one fails.
Then(r, Op(_)) == IF r.ok THEN Op(r.o) ELSE r

\* Nothing is left to show only when neither side still has something selected.
Handled(self, other) ==
  LET pending(o) == o.presented # Nil /\ ~o.handled
  IN ~pending(self) /\ ~pending(other) /\ (self.handled \/ other.handled)

append_streams(self, other) ==
  LET planned == self.plan # Nil \/ other.plan # Nil
      lone(a, b) == ~planned /\ has_presentation_semantics(b) /\ ~has_presentation_semantics(a) /\ has_raw_output(a)
      ready(a, b) == Then(IF lone(a, b) THEN select_raw_presentation(a) ELSE Fine(a), select_observation_presentation)
      merged(one, two) ==
        [one EXCEPT !.explicit = @ \/ two.explicit, !.mode = IF @ = Nil THEN two.mode ELSE @,
           !.plan = IF @ = Nil THEN two.plan ELSE @, !.handled = Handled(one, two)]
      presented(o, two) == IF two.presented = Nil THEN Fine(o) ELSE append_presented(o, two.presented[1])
      joined(first, second) ==
        IF ~first.ok \/ ~second.ok \/ resident_stream_bytes(first.o) + resident_stream_bytes(second.o) > MaxBytes
        THEN TooLarge(self)
        ELSE Then(presented(merged(first.o, second.o), second.o),
                  LAMBDA o : append_streams_with_limit(o, second.o, Fds))
  IN joined(ready(self, other), ready(other, self))

-----------------------------------------------------------------------------
(* Traces and observations.                                                *)

\* What is written of one stream, with room bytes left, and what is said of it.
write_private_trace_segments(o, s, room) ==
  LET segments == IF o.exact[s] # Nil THEN o.exact[s][1] ELSE <<Memory(o.bytes[s])>>
      all == FlattenSeq([k \in DOMAIN segments |-> segments[k].bytes])
      total == FoldLeft(LAMBDA n, g : n + g.total, 0, segments)
      stored == IF Len(all) < room THEN all ELSE SubSeq(all, 1, room)
      sound == IF o.exact[s] # Nil THEN \A k \in DOMAIN segments : Len(segments[k].bytes) = segments[k].total
               ELSE o.complete[s]
  IN [bytes |-> stored, complete |-> sound /\ Len(stored) = total]

\* The observation shows the previews, nothing in the silent mode; w keeps the
\* trace that its reference names.
Display(mode, o) ==
  IF mode = "silent" THEN <<>> ELSE <<[k |-> "seen", mode |-> mode, out |-> o.bytes["out"], err |-> o.bytes["err"]]>>
record_trace_and_attach_observation_for(o, mode, w) ==
  LET trace(first) == Both(first, write_private_trace_segments(o, "err", SpoolBudget - Len(first.bytes)))
  IN [o |-> [o EXCEPT !.exact = Both(Nil, Nil), !.observation = Some(Display(mode, o))],
      w |-> [w EXCEPT !.traces = Append(@, [trace |-> trace(write_private_trace_segments(o, "out", SpoolBudget)),
                                            seen |-> o.bytes])]]

-----------------------------------------------------------------------------
(* Redirections.  A destination is out, err, discard or a file; files maps *)
(* the files to what they hold.  (Streams that have the same file open     *)
(* twice write over each other; no use of this module looks at that.)      *)

\* noclobber refuses a file that is there, unless it is forced.
open_write_redirection(files, path, noclobber, force) ==
  IF noclobber /\ ~force /\ path \in DOMAIN files THEN Nil
  ELSE Some([p \in DOMAIN files \cup {path} |-> IF p = path THEN <<>> ELSE files[p]])
open_append(files, path) == [p \in DOMAIN files \cup {path} |-> IF p \in DOMAIN files THEN files[p] ELSE <<>>]

validate_expanded_redirection_descriptors(redirs) ==
  \A k \in DOMAIN redirs :
    LET r == redirs[k]
    IN CASE r.mode \in {"read", "here"} -> r.fd = "in"
         [] r.mode \in {"write", "clobber", "append"} -> r.fd \in Fds
         [] r.mode = "both" -> r.fd = "out"
         [] r.mode = "close" -> r.fd \in Fds \cup {"in"}
         [] r.mode = "dup" -> {r.fd, r.target} = Fds
         [] OTHER -> FALSE

\* The file a redirection opens, if it can: the files there are then.  An input has
\* to be there.
Opened(files, r, noclobber) ==
  CASE r.mode = "read" -> IF r.target \in DOMAIN files THEN Some(files) ELSE Nil
    [] r.mode = "append" -> Some(open_append(files, r.target))
    [] r.mode \in {"write", "both"} -> open_write_redirection(files, r.target, noclobber, FALSE)
    [] r.mode = "clobber" -> open_write_redirection(files, r.target, noclobber, TRUE)
    [] OTHER -> Some(files)
\* Without the validation a copy or a close of another descriptor fails where it
\* stands, while a file opened for one is opened and goes nowhere.
Unrouted(r) == \/ r.mode = "dup" /\ {r.fd, r.target} # Fds
               \/ r.mode = "close" /\ r.fd \notin Fds \cup {"in"}
Writing(r) == IF r.mode = "both" THEN Fds ELSE IF r.mode \in {"write", "clobber", "append"} THEN {r.fd} \cap Fds ELSE {}
\* An open file is known by its path and by the redirection that opened it.
ToFile(r) == [kind |-> "file", path |-> r.target, at |-> r.at]
Discarded == [kind |-> "discard"]

\* Bug shape: 2>&1 copies where the other stream went before the line.
BaseDupMutant(st, r, base, noclobber) ==
  LET opened == IF r.mode = "read" THEN Some(st.files) ELSE Opened(st.files, r, noclobber)
  IN IF ~st.ok \/ opened = Nil \/ Unrouted(r) THEN [st EXCEPT !.ok = FALSE]
     ELSE [st EXCEPT !.files = opened[1],
             !.dests = [s \in Fds |-> CASE s \in Writing(r) -> ToFile(r)
                                       [] s = r.fd /\ r.mode = "close" -> Discarded
                                       [] s = r.fd /\ r.mode = "dup" -> base[r.target]
                                       [] OTHER -> st.dests[s]]]
\* A builtin: where its two streams go, redirection by redirection.  Its input was
\* opened before it ran.
builtin_redirection(st, r, base, noclobber) ==
  LET opened == IF r.mode = "read" THEN Some(st.files) ELSE Opened(st.files, r, noclobber)
  IN IF ~st.ok \/ opened = Nil \/ Unrouted(r) THEN [st EXCEPT !.ok = FALSE]
     ELSE [st EXCEPT !.files = opened[1],
             !.dests = [s \in Fds |-> CASE s \in Writing(r) -> ToFile(r)
                                       [] s = r.fd /\ r.mode = "close" -> Discarded
                                       [] s = r.fd /\ r.mode = "dup" -> st.dests[r.target]
                                       [] OTHER -> st.dests[s]]]

\* A compound command: the routing its body inherits, and its input.
prepare_compound_redirections(st, r, base, noclobber) ==
  LET opened == Opened(st.files, r, noclobber)
      input == CASE r.mode \in {"read", "here"} -> Some(r.target) [] r.mode = "close" /\ r.fd = "in" -> Some("empty")
                 [] OTHER -> st.input
  IN IF ~st.ok \/ opened = Nil THEN [st EXCEPT !.ok = FALSE]
     ELSE LET next == [st EXCEPT !.files = opened[1], !.input = input]
          IN CASE Writing(r) # {} -> [next EXCEPT !.dests = [s \in Fds |-> IF s \in Writing(r) THEN ToFile(r) ELSE @[s]]]
               [] r.mode = "close" /\ r.fd \in Fds -> [next EXCEPT !.dests[r.fd] = Discarded]
               [] r.mode = "dup" -> [next EXCEPT !.dests[r.fd] = next.dests[r.target]]
               [] OTHER -> next

\* An external command.  With sinks of its own (sinks) a copy is one of the sink
\* as it is now; without them, of the last file the other stream was sent to,
\* else of the stream of the shell.  The first here-document is the input, unless
\* a file is.
apply_external_redirections(st, r, sinks, noclobber) ==
  LET opened == Opened(st.files, r, noclobber)
      input == CASE r.mode = "read" -> Some(r.target) [] r.mode = "close" /\ r.fd = "in" -> Some("empty")
                 [] r.mode = "here" /\ st.input = Nil -> Some(r.target) [] OTHER -> st.input
      next == [st EXCEPT !.files = opened[1], !.input = input]
      source == IF sinks THEN st.dests[r.target]
                ELSE IF st.file[r.target] # Nil THEN st.file[r.target][1] ELSE [kind |-> r.target]
  IN IF ~st.ok \/ opened = Nil \/ Unrouted(r) THEN [st EXCEPT !.ok = FALSE]
     ELSE CASE Writing(r) # {} ->
                 [next EXCEPT !.dests = [s \in Fds |-> IF s \in Writing(r) THEN ToFile(r) ELSE @[s]],
                              !.file = [s \in Fds |-> IF s \in Writing(r) THEN Some(ToFile(r)) ELSE @[s]]]
            [] r.mode = "close" /\ r.fd \in Fds -> [next EXCEPT !.dests[r.fd] = Discarded, !.file[r.fd] = Nil]
            [] r.mode = "dup" -> [next EXCEPT !.dests[r.fd] = source]
            [] OTHER -> next

\* The input of a builtin, and of exec: the last one named, once every one of them
\* could be opened.
redirected_stdin_from_expanded_redirections(redirs, files) ==
  FoldLeft(LAMBDA st, r :
             CASE r.mode = "read" /\ r.fd = "in" ->
                    IF r.target \in DOMAIN files THEN [st EXCEPT !.input = Some(r.target)] ELSE [st EXCEPT !.ok = FALSE]
               [] r.mode = "here" /\ r.fd = "in" -> [st EXCEPT !.input = Some(r.target)]
               [] r.mode = "close" /\ r.fd = "in" -> [st EXCEPT !.input = Some("empty")]
               [] OTHER -> st,
           [ok |-> TRUE, input |-> Nil], redirs)

\* run_external gives a command sinks of its own when its streams already go
\* elsewhere or one is copied or closed; exec never does.
ordered_routing(redirs, base) ==
  \/ base # Both([kind |-> "out"], [kind |-> "err"])
  \/ \E k \in DOMAIN redirs : redirs[k].mode \in {"dup", "close"} /\ redirs[k].fd \in Fds

\* A compound command and a child have the descriptors looked at first; a builtin,
\* and exec, which is one, have their inputs opened first.
Start(route, redirs, base, files) ==
  [ok |-> IF route \in {"compound", "external"} THEN validate_expanded_redirection_descriptors(redirs)
          ELSE redirected_stdin_from_expanded_redirections(redirs, files).ok,
   dests |-> base, files |-> files, input |-> Nil, file |-> Both(Nil, Nil)]
\* The four routes: where the streams go in the end.
redirected(route, redirs, base, files, noclobber) ==
  FoldLeft(LAMBDA st, r :
             CASE route = "builtin" -> builtin_redirection(st, r, base, noclobber)
               [] route = "compound" -> prepare_compound_redirections(st, r, base, noclobber)
               [] route = "external" -> apply_external_redirections(st, r, ordered_routing(redirs, base), noclobber)
               [] route = "exec" -> apply_external_redirections(st, r, FALSE, noclobber),
           Start(route, redirs, base, files), redirs)

\* The exact streams follow the previews; two streams that meet are joined, or
\* given up when one of them is not whole.
route_exact_stream_destinations(o, to) ==
  LET joined(s, t) ==
        LET one == take_exact_or_complete_preview(o, s)
            two == take_exact_or_complete_preview(o, t)
        IN IF (o.exact[s] = Nil /\ o.exact[t] = Nil) \/ one = Nil \/ two = Nil THEN Nil ELSE Some(one[1] \o two[1])
      from(s) == {t \in Fds : to[t] = Some(s)}
      Of(s) == CASE from(s) = {} -> [exact |-> Nil, complete |-> TRUE]
                 [] from(s) = Fds -> [exact |-> joined(s, IF s = "out" THEN "err" ELSE "out"),
                                      complete |-> o.complete["out"] /\ o.complete["err"]]
                 [] OTHER -> LET t == CHOOSE t \in from(s) : TRUE IN [exact |-> o.exact[t], complete |-> o.complete[t]]
  IN [o EXCEPT !.exact = [s \in Fds |-> Of(s).exact], !.complete = [s \in Fds |-> Of(s).complete]]

\* One piece goes where its stream goes now.
resolve_builtin_sink(st, piece) ==
  LET to == st.dests[piece.s]
  IN CASE to.kind = "file" -> [st EXCEPT !.files[to.path] = @ \o piece.bytes]
       [] to.kind = "discard" -> st
       [] to.kind \in Fds ->
            [st EXCEPT !.o.bytes[to.kind] = @ \o piece.bytes,
               !.o.order = Some(push_output_span(@[1], Span(to.kind, Len(st.o.bytes[to.kind]), Len(piece.bytes))))]
\* What an outcome becomes once its streams go to dests: the new outcome and the
\* files.
apply_builtin_redirections(o, dests, files) ==
  LET stream(s) == IF dests[s].kind \in Fds THEN Some(dests[s].kind) ELSE Nil
      routed == route_exact_stream_destinations(o, [s \in Fds |-> stream(s)])
      empty == [routed EXCEPT !.bytes = Both(<<>>, <<>>), !.order = Some(<<>>)]
      done == FoldLeft(resolve_builtin_sink, [o |-> empty, files |-> files, dests |-> dests], Pieces(o))
  IN [o |-> done.o, files |-> done.files]

=============================================================================
