------------------------------ MODULE Dispatch ------------------------------
(***************************************************************************)
(* Which of its routes a simple command takes: output wrapper, lookup      *)
(* wrapper (command, external, builtin), function, alias, abbreviation,    *)
(* pseudo-terminal, builtin or external program, and how it fails.         *)
(*                                                                         *)
(* The shell has two routers.  run_invocation_inner runs a command.        *)
(* preflight_invocation is asked about every stage of a buffered pipeline  *)
(* before the first one starts.                                            *)
(***************************************************************************)
EXTENDS Integers, Sequences, FiniteSets

CONSTANTS
  AliasLimit,   \* MAX_ALIAS_EXPANSIONS
  Stack         \* bound: nested calls the shell's stack has room for

\* A table is what lookups consult: the functions, what an alias or abbreviation
\* stands for, the builtins, what PATH and the default path hold under a name
\* ("exec", "noexec", "none"), and the allowlist (<<>> when not confined).

Has(f, name) == name \in DOMAIN f
OutputWrappers == {"raw", "clean", "compact", "semantic", "lossless-ref", "silent"}

Ran(how, name, mode) == [ok |-> TRUE, how |-> how, name |-> name, mode |-> mode]
Failed(why) == [ok |-> FALSE, how |-> why, name |-> "", mode |-> "none"]

\* output_wrapper_mode names the mode; under an active wrapper the outermost
\* one's policy stays in force (run_output_mode_wrapper).
output_wrapper_mode(name) == name \in OutputWrappers
WrapperMode(requested, active) == IF active = "none" THEN requested ELSE active

\* strip_wrapper: the wrapper needs a command.
strip_wrapper(argv) == Tail(argv)
MissingCommand(argv) == Len(argv) < 2

\* parse_command_options: where the command starts, whether it is only
\* described, and whether an unknown option hands it to the builtin.
parse_command_options(argv) ==
  LET ends == {i \in 2..Len(argv) + 1 :
                 /\ i > Len(argv) \/ argv[i] \notin {"-p", "-v", "-V"}
                 /\ \A k \in 2..(i - 1) : argv[k] \in {"-p", "-v", "-V"}}
      i == CHOOSE e \in ends : TRUE
      dashes == i <= Len(argv) /\ argv[i] = "--"
      unknown == i <= Len(argv) /\ argv[i] = "-x"
      read == {argv[k] : k \in 2..(i - 1)}
  IN [default_path |-> "-p" \in read, describe |-> {"-v", "-V"} \cap read # {},
      unsupported |-> unknown, index |-> IF dashes THEN i + 1 ELSE i]

strip_command_wrapper(argv, index) == SubSeq(argv, index, Len(argv))
CommandMissing(argv, o) == ~ o.describe /\ ~ o.unsupported /\ o.index > Len(argv)

\* resolve_external_command_with: a confined shell finds nothing outside its list.
resolve_external_command(t, name, where) ==
  IF t.allow # <<>> /\ name \notin t.allow[1] THEN "none"
  ELSE IF Has(t[where], name) THEN t[where][name] ELSE "none"

is_builtin(t, name) == name \in t.builtins
Forbidden(t, name) == t.allow # <<>> /\ ~ is_builtin(t, name) /\ name \notin t.allow[1]

\* expand_alias_invocation: the value's words, then the arguments; an alias to a
\* pipeline is an error, one to nothing is no alias.
Expansion(t, kind, argv) ==
  IF ~ Has(t[kind], argv[1]) THEN [how |-> "no"]
  ELSE LET value == t[kind][argv[1]]
       IN IF "|" \in {value[i] : i \in DOMAIN value} THEN [how |-> "error"]
          ELSE IF value = <<>> THEN [how |-> "no"]
          ELSE [how |-> "yes", argv |-> value \o Tail(argv)]
expand_alias_invocation(t, argv) == Expansion(t, "aliases", argv)
expand_abbreviation_invocation(t, argv) == Expansion(t, "abbreviations", argv)

External(status, name, mode) ==
  CASE status = "exec" -> Ran("external", name, mode)
    [] status = "noexec" -> Failed("not executable")
    [] OTHER -> Failed("not found")

run_resolved_invocation(t, argv, mode, look) ==
  LET name == argv[1]
  IN CASE Forbidden(t, name) -> Failed("not permitted")
       [] look = "BuiltinOnly" -> IF is_builtin(t, name) THEN Ran("builtin", name, mode)
                                  ELSE Failed("not found")
       [] look = "ExternalOnly" ->
            External(resolve_external_command(t, name, "path"), name, mode)
       [] OTHER ->
            IF is_builtin(t, name) THEN Ran("builtin", name, mode)
            ELSE External(resolve_external_command(
                            t, name, IF look = "DefaultPath" THEN "default" ELSE "path"),
                          name, mode)

\* run_pty_wrapper and run_under_pty; a stage fed by the pipeline is refused when
\* it runs, which preflight does not look at.
run_pty_wrapper(t, argv, mode) ==
  IF MissingCommand(argv) THEN Failed("missing command")
  ELSE External(resolve_external_command(t, argv[2], "path"), argv[2], mode)

\* agview FILE is `cat -- FILE` under the rich mode.
agview_argv(argv) == <<"cat", "--">> \o Tail(argv)

RECURSIVE run_invocation_inner(_, _, _, _, _, _)
run_invocation_inner(t, argv, mode, look, depth, stack) ==
  LET name == argv[1]
      again(a, m, l, d) == run_invocation_inner(t, a, m, l, d, stack - 1)
      wrapped(a, requested) == again(a, WrapperMode(requested, mode), "Normal", 0)
      expanded(e) ==
        CASE e.how = "error" -> Failed("pipeline alias")
          [] depth >= AliasLimit -> Failed("limit")
          [] OTHER -> again(e.argv, mode, "Normal", depth + 1)
  IN CASE stack = 0 -> Failed("stack overflow")
       [] argv = <<>> -> Ran("nothing", "", mode)
       [] look = "Normal" /\ output_wrapper_mode(name) ->
            IF MissingCommand(argv) THEN Failed("missing command")
            ELSE wrapped(strip_wrapper(argv), name)
       [] look = "Normal" /\ name = "command" ->
            LET o == parse_command_options(argv)
            IN IF CommandMissing(argv, o) THEN Failed("missing command")
               ELSE IF o.describe \/ o.unsupported THEN Ran("builtin", name, mode)
               ELSE again(strip_command_wrapper(argv, o.index), mode,
                          IF o.default_path THEN "DefaultPath" ELSE "BypassAliases", depth)
       [] look = "Normal" /\ name \in {"external", "builtin"} ->
            IF MissingCommand(argv) THEN Failed("missing command")
            ELSE again(strip_wrapper(argv), mode,
                       IF name = "external" THEN "ExternalOnly" ELSE "BuiltinOnly", depth)
       [] look \notin {"Normal", "ExternalOnly"} /\ name = "agview" ->
            wrapped(agview_argv(argv), "rich")
       [] look \notin {"Normal", "ExternalOnly"} /\ name = "pty" ->
            run_pty_wrapper(t, argv, mode)
       [] look = "Normal" ->
            LET a == expand_alias_invocation(t, argv)
                b == expand_abbreviation_invocation(t, argv)
            IN CASE name \in t.functions -> Ran("function", name, mode)
                 [] a.how # "no" -> expanded(a)
                 [] b.how # "no" -> expanded(b)
                 [] name = "agview" -> wrapped(agview_argv(argv), "rich")
                 [] name = "pty" -> run_pty_wrapper(t, argv, mode)
                 [] OTHER -> run_resolved_invocation(t, argv, mode, look)
       [] OTHER -> run_resolved_invocation(t, argv, mode, look)

-----------------------------------------------------------------------------
\* Mutant: preflight looks for aliases before functions.
AliasesFirstMutant(t, argv) == FALSE

\* A function's body is looked at only when it runs.
FunctionStage(t, argv) == argv[1] \in t.functions

preflight_resolved_invocation(t, argv, look) ==
  run_resolved_invocation(t, argv, "none", look).ok

RECURSIVE preflight_invocation(_, _, _, _)
preflight_invocation(t, argv, look, depth) ==
  LET name == argv[1]
      again(a, l, d) == preflight_invocation(t, a, l, d)
      stripped(l) == ~ MissingCommand(argv) /\ again(strip_wrapper(argv), l, depth)
      expanded(e) == /\ e.how = "yes" /\ depth < AliasLimit
                     /\ again(e.argv, "Normal", depth + 1)
  IN CASE argv = <<>> -> TRUE
       [] look = "Normal" /\ output_wrapper_mode(name) -> stripped("Normal")
       [] look = "Normal" /\ name = "command" ->
            LET o == parse_command_options(argv)
            IN /\ ~ CommandMissing(argv, o)
               /\ \/ o.describe \/ o.unsupported
                  \/ again(strip_command_wrapper(argv, o.index),
                           IF o.default_path THEN "DefaultPath" ELSE "BypassAliases", depth)
       [] look = "Normal" /\ name = "external" -> stripped("ExternalOnly")
       [] look = "Normal" /\ name = "builtin" -> stripped("BuiltinOnly")
       [] look \notin {"Normal", "ExternalOnly"} /\ name = "agview" ->
            again(agview_argv(argv), "Normal", depth)
       [] look \notin {"Normal", "ExternalOnly"} /\ name = "pty" -> stripped("ExternalOnly")
       [] look = "Normal" ->
            LET a == expand_alias_invocation(t, argv)
                b == expand_abbreviation_invocation(t, argv)
            IN CASE FunctionStage(t, argv) -> TRUE
                 [] a.how # "no" -> expanded(a)
                 [] b.how # "no" -> expanded(b)
                 [] name = "agview" -> again(agview_argv(argv), "Normal", depth)
                 [] name = "pty" -> stripped("ExternalOnly")
                 [] OTHER -> preflight_resolved_invocation(t, argv, look)
       [] OTHER -> preflight_resolved_invocation(t, argv, look)

-----------------------------------------------------------------------------
Run(t, argv) == run_invocation_inner(t, argv, "none", "Normal", 0, Stack)
Preflight(t, argv) == preflight_invocation(t, argv, "Normal", 0)
=============================================================================
