---------------------------- MODULE Presentation ----------------------------
(***************************************************************************)
(* How a line shows what its commands write.  Every graph - the line, the  *)
(* body of a compound command or a function, a trap handler - may show its *)
(* own items, leave them to the graph around it, or leave them to the      *)
(* front end, and an output wrapper decides for the command it wraps.  The *)
(* world w holds what was shown, what went to a file and the traces.       *)
(*                                                                         *)
(* A command is                                                            *)
(*   [k |-> "run", n, ext, size, spool] a builtin or an external program,  *)
(*                                      whose output may have a spool      *)
(*   [k |-> "wrap", mode, body]         raw, compact, silent before body   *)
(*   [k |-> "group", items, file]       { ...; }, its output to a file or  *)
(*                                      not                                *)
(* and an item of a list a command with the handlers that run behind it.   *)
(***************************************************************************)
EXTENDS Streams

\* The budget of the trace spools is one for the whole line.

should_capture(mode) == mode # "raw"
Bytes(n, s, size) == [i \in 1..size |-> [k |-> "byte", n |-> n, s |-> s, i |-> i]]
Shown(w, s, bytes) == IF bytes = <<>> THEN w ELSE [w EXCEPT !.shown = Append(@, [s |-> s, bytes |-> bytes])]
ShowPieces(w, streams) == FoldLeft(LAMBDA v, p : Shown(v, p.s, p.bytes), w, Pieces(streams))

\* The context of an execution: the mode asked of it, whether it may write to the
\* terminal as it goes, the wrapper around it, and whether stdout is redirected.
observation_display_plane(env) == ~env.file
effective_presentation_mode(env) == IF env.top \/ env.default = Nil THEN env.mode ELSE env.default[1]
cli_presentation_display_enabled(env) == env.flush /\ env.policy = Nil /\ observation_display_plane(env)
live_presentation_enabled(env) == cli_presentation_display_enabled(env) /\ should_capture(effective_presentation_mode(env))

Result(o, w) == [ok |-> TRUE, o |-> o, w |-> w]
Failed(w) == [ok |-> FALSE, o |-> captured(<<>>, <<>>), w |-> w]
\* An operation on the outcome; on the outcome and the world; a merge.
Having(w, x) == IF x.ok THEN Result(x.o, w) ELSE Failed(w)
On(r, Op(_)) == IF ~r.ok THEN r ELSE Having(r.w, Op(r.o))
Observed(x) == Result(x.o, x.w)
Observe(r, mode) == IF ~r.ok THEN r ELSE Observed(record_trace_and_attach_observation_for(r.o, mode, r.w))

emit_live_presentation(r) ==
  LET emit(ready) == IF ~ready.ok THEN ready
                     ELSE Result([ready.o EXCEPT !.presented = Some(NothingPresented), !.handled = TRUE],
                                 ShowPieces(ready.w, ready.o.presented[1]))
  IN emit(On(On(r, select_observation_presentation), select_raw_presentation))

present_completed_graph_if_live(r, env) ==
  LET mode == effective_presentation_mode(env)
      chosen == IF r.o.explicit THEN On(r, select_explicit_presentation)
                ELSE IF should_capture(mode) THEN On(Observe(r, mode), select_observation_presentation)
                ELSE On(r, select_raw_presentation)
  IN IF ~r.ok \/ r.o.handled \/ ~cli_presentation_display_enabled(env) THEN r ELSE emit_live_presentation(chosen)

\* What a list shows of an item at once: in a display of its own when the item or
\* the session asks for one, else its bytes, which are then no longer kept.
show_item(r, env) ==
  LET chosen == IF r.o.explicit THEN On(r, select_explicit_presentation)
                ELSE On(Observe(r, effective_presentation_mode(env)), select_observation_presentation)
      live == cli_presentation_display_enabled(env) /\ (live_presentation_enabled(env) \/ r.o.explicit)
      released(x) == IF ~x.ok THEN x
                     ELSE [x EXCEPT !.o.bytes = Both(<<>>, <<>>), !.o.exact = Both(Nil, Nil), !.o.order = Some(<<>>)]
      rest(x) == IF x.ok /\ env.flush /\ ~should_capture(env.mode) /\ ~x.o.handled
                 THEN released(emit_live_presentation(On(x, select_raw_presentation))) ELSE x
  IN rest(IF r.ok /\ live /\ ~r.o.handled THEN emit_live_presentation(chosen) ELSE r)

\* What a list that shows nothing itself selects of an item: once one item was
\* wrapped, everything before it is one observation and every later item its own.
select_item(acc, r, env) ==
  LET mode == effective_presentation_mode(env)
      plane == should_capture(mode) /\ observation_display_plane(env)
      waiting == ~live_presentation_enabled(env)
      turns == waiting /\ plane /\ r.o.explicit /\ ~acc.mixed
      mixed == acc.mixed \/ turns
      preceding == acc.preceding \/ (waiting /\ plane /\ ~mixed /\ ~r.o.explicit)
      seen(x) == IF plane /\ x.o.observation = Nil /\ ~x.o.explicit THEN Observe(x, mode) ELSE x
      picked(x) == IF x.o.observation # Nil THEN On(x, select_observation_presentation) ELSE x
      chosen(x) == IF x.o.explicit /\ ~x.o.handled THEN On(x, select_explicit_presentation) ELSE x
      after(before) ==
        IF ~r.ok \/ ~before.ok
        THEN [r |-> Failed(before.w), final |-> acc.final, mixed |-> mixed, preceding |-> preceding]
        ELSE [r |-> IF waiting /\ mixed THEN chosen(picked(seen([r EXCEPT !.w = before.w]))) ELSE [r EXCEPT !.w = before.w],
              final |-> before.o, mixed |-> mixed, preceding |-> preceding]
  IN after(IF turns /\ acc.preceding THEN On(Observe(Result(acc.final, r.w), mode), select_observation_presentation)
           ELSE Result(acc.final, r.w))

RECURSIVE RunCommand(_, _, _), RunGraph(_, _, _), RunItems(_, _, _)

\* A program that nobody captures writes by itself.  A builtin and a captured
\* program leave their bytes in the outcome, unless stdout goes to a file.
RunSimple(c, env, w) ==
  LET out == Bytes(c.n, "out", c.size)
      err == Bytes(c.n, "err", 1)
      written == [w EXCEPT !.written = @ \o out \o err]
      direct == Shown(IF env.file THEN [written EXCEPT !.file = @ \o out] ELSE Shown(written, "out", out), "err", err)
      dests == Both([kind |-> "file", path |-> "f", at |-> 0], [kind |-> "err"])
      kept == IF env.file THEN <<>> ELSE out
      whole == IF c.ext THEN captured_from_streams(kept, err, [made |-> c.spool, budget |-> w.budget]) ELSE captured(out, err)
      used == IF c.ext /\ c.spool THEN Stored(kept, w.budget) + Stored(err, w.budget - Stored(kept, w.budget)) ELSE 0
      done(routed) == Result(routed.o, [written EXCEPT !.file = routed.files.f, !.budget = @ - used])
  IN IF c.ext /\ ~env.capture THEN Result(captured(<<>>, <<>>), direct)
     ELSE done(IF ~env.file THEN [o |-> whole, files |-> [f |-> w.file]]
               ELSE IF c.ext THEN [o |-> whole, files |-> [f |-> w.file \o out]]
               ELSE apply_builtin_redirections(whole, dests, [f |-> w.file]))

\* The outermost wrapper decides; off the display a wrapper changes nothing.
run_output_mode_wrapper(c, env, w) ==
  LET raw == c.mode = "raw" /\ env.flush /\ observation_display_plane(env)
      capture == IF raw THEN FALSE ELSE env.capture \/ should_capture(c.mode)
      inner == [env EXCEPT !.policy = Some([mode |-> c.mode, capture |-> capture]), !.mode = c.mode, !.capture = capture]
      stripped(o) == [o EXCEPT !.observation = Nil, !.plan = Nil, !.presented = Nil, !.handled = FALSE,
                               !.explicit = FALSE, !.mode = Nil]
      decided(o) == [o EXCEPT !.explicit = TRUE, !.mode = Some(c.mode), !.observation = Nil,
                              !.plan = IF c.mode = "raw" THEN Nil ELSE Some(c.mode)]
      wrapped(r) == IF ~r.ok THEN r
                    ELSE Result(IF observation_display_plane(env) THEN decided(r.o) ELSE stripped(r.o), r.w)
  IN IF env.policy # Nil
     THEN RunCommand(c.body, [env EXCEPT !.mode = env.policy[1].mode, !.capture = @ \/ env.policy[1].capture], w)
     ELSE wrapped(RunCommand(c.body, inner, w))

RunCommand(c, env, w) ==
  CASE c.k = "run" -> RunSimple(c, env, w)
    [] c.k = "wrap" -> run_output_mode_wrapper(c, env, w)
    [] c.k = "group" -> RunGraph(c.items, [env EXCEPT !.top = FALSE, !.file = @ \/ c.file,
                                                      !.mode = IF env.capture THEN "clean" ELSE @], w)

\* An item of a list or of a line, and the observation its wrapper planned.
run_pipeline_item(c, env, w) ==
  LET planned(r) == IF ~r.ok \/ r.o.plan = Nil THEN r ELSE Observe([r EXCEPT !.o.plan = Nil], r.o.plan[1])
  IN planned(RunCommand(c, [env EXCEPT !.capture = should_capture(env.mode)], w))

\* Signal handlers add to the outcome of the item they run behind.
fire_signal_traps(r, handler, env) ==
  LET behind(h) == IF ~h.ok THEN h ELSE On(Result(r.o, h.w), LAMBDA o : append_streams(o, h.o))
  IN IF ~r.ok \/ handler = <<>> THEN r ELSE behind(RunGraph(handler, [env EXCEPT !.top = FALSE], r.w))

\* The ERR handler of a failed item: shown at once or added to the list.
run_err_handler(r, handler, env) ==
  LET behind(h) ==
        IF ~h.ok THEN r
        ELSE IF env.flush /\ ~should_capture(env.mode) /\ ~h.o.handled
        THEN Result(r.o, Shown(Shown(h.w, "out", h.o.bytes["out"]), "err", h.o.bytes["err"]))
        ELSE On(Result(r.o, h.w), LAMBDA o : append_streams(o, h.o))
  IN IF ~r.ok \/ handler = <<>> THEN r ELSE behind(RunGraph(handler, [env EXCEPT !.top = FALSE], r.w))

RunItems(items, env, acc) ==
  LET ran(item) == fire_signal_traps(show_item(run_pipeline_item(item.c, env, acc.w), env), item.trap, env)
      joined(step) ==
        IF ~step.r.ok THEN step.r ELSE On(Result(step.final, step.r.w), LAMBDA o : append_streams(o, step.r.o))
      next(step, r) ==
        RunItems(Tail(items), env,
          [ok |-> r.ok, final |-> r.o, w |-> r.w, mixed |-> step.mixed, preceding |-> step.preceding])
      after(step) == next(step, run_err_handler(joined(step), Head(items).err, env))
  IN IF items = <<>> \/ ~acc.ok THEN acc ELSE after(select_item(acc, ran(Head(items)), env))

run_command_list(items, env, w) ==
  LET finished(acc) ==
        IF ~acc.ok THEN Failed(acc.w)
        ELSE IF acc.mixed THEN Result([acc.final EXCEPT !.explicit = TRUE], acc.w)
        ELSE IF should_capture(env.mode) /\ env.top /\ ~acc.final.explicit /\ ~acc.final.handled
        THEN Observe(Result(acc.final, acc.w), env.mode) ELSE Result(acc.final, acc.w)
  IN finished(RunItems(items, env,
                [ok |-> TRUE, final |-> captured(<<>>, <<>>), w |-> w, mixed |-> FALSE, preceding |-> FALSE]))

run_graph_inner(items, env, w) ==
  LET finished(r) ==
        IF r.ok /\ should_capture(env.mode) /\ env.top /\ r.o.observation = Nil /\ ~r.o.explicit
           /\ ~live_presentation_enabled(env)
        THEN Observe(r, env.mode) ELSE r
  IN IF Len(items) > 1 THEN run_command_list(items, env, w)
     ELSE finished(run_pipeline_item(items[1].c, env, w))

RunGraph(items, env, w) == present_completed_graph_if_live(run_graph_inner(items, env, w), env)

\* The front end prints what nobody has shown.
print_captured_if_needed(r) ==
  IF ~r.ok THEN r.w
  ELSE IF r.o.presented # Nil THEN ShowPieces(r.w, r.o.presented[1])
  ELSE IF r.o.handled THEN r.w
  ELSE IF r.o.observation # Nil THEN Shown(r.w, "out", r.o.observation[1])
  ELSE ShowPieces(r.w, r.o)

NothingYet == [shown |-> <<>>, file |-> <<>>, traces |-> <<>>, written |-> <<>>, budget |-> SpoolBudget]
RunLine(items, mode, default, flush) ==
  LET env == [mode |-> mode, default |-> default, flush |-> flush, policy |-> Nil, file |-> FALSE, top |-> TRUE,
              capture |-> should_capture(mode)]
      printed(r) == [ok |-> r.ok, w |-> print_captured_if_needed(r)]
  IN printed(RunGraph(items, env, NothingYet))

=============================================================================
