---------------------------- MODULE Interception ----------------------------
(***************************************************************************)
(* Shell interception (mode:intercept, AGSH_INTERCEPT) and command         *)
(* confinement (confine, AGSH_CONFINE) of one shell.  Both work by putting *)
(* a private directory of shims in front of PATH and pointing SHELL into   *)
(* it, and both promise to take back what they changed.                    *)
(*                                                                         *)
(* A value is a sequence: of directories for PATH and SHELL, of libraries  *)
(* for the preload variable (LD_PRELOAD), a single number otherwise.       *)
(***************************************************************************)
EXTENDS Integers, Sequences, FiniteSets, SequencesExt

CONSTANTS
  Commands,    \* names an allowlist may hold
  MaxShims     \* bound: shim directories made in one run

Bin == 1               \* the system's directory, which holds the real shells
Own == 2               \* a directory of the user's, without a shell
InterceptDir(n) == 100 + n
ConfineDir(n) == 200 + n
Lib == 5               \* libagsh_intercept
UserLib == 6
Unbound == <<-1>>
EnvNames == {"PATH", "SHELL", "ASKPASS", "PRELOAD", "SELF", "TOKEN"}

VARIABLES
  env,       \* exported variables; ASKPASS stands for the fail-fast names,
             \* SELF for AGSH_SELF and AGSH_INTERCEPT_MODE, TOKEN for a credential
  record,    \* <<>>, or <<the InterceptInstall record>>
  confine,   \* <<>>, or <<the allowlist in force in this shell>>
  listed,    \* <<>>, or <<AGSH_CONFINE as children inherit it>>
  frame,     \* <<>>, or <<what a running confine -- COMMAND gives back>>
  made,      \* shim generations made so far
  before,    \* history: the environment interception was turned on in
  over,      \* history: a confinement was installed over the interception in force
  phase      \* "startup" or "running"

interceptVars == <<env, record, confine, listed, frame, made, before, over, phase>>

-----------------------------------------------------------------------------
Value(v) == IF env[v] = Unbound THEN <<>> ELSE env[v]

\* The directories that answer for a shell's name.
resolve_on_path(path) == SelectSeq(path, LAMBDA d : d # Own)
is_managed_intercept_directory(d) == d \in 101..199
NotManaged(path) == SelectSeq(path, LAMBDA d : ~ is_managed_intercept_directory(d))

\* A temporary directory to work in: the user's own, or one all users share that
\* is sticky; never one that somebody else may write to.
TempBases == {"own", "sticky", "writable", "foreign"}
validate_shim_temp_parent(base) == base \in {"own", "sticky"}

\* A generation is a fresh private directory with one executable per shell;
\* when a file cannot be written the directory is removed again.
build_shim_generation(base, written) == validate_shim_temp_parent(base) /\ written

\* A shell has to be on PATH.
CanInstall(e) ==
  e["PATH"] # Unbound /\ resolve_on_path(e["PATH"]) # <<>>

InterceptRecord(e, n) ==
  [directory |-> InterceptDir(n), prior_path |-> e["PATH"],
   prior_shell |-> e["SHELL"], introduced |-> e["ASKPASS"] = Unbound,
   deep_env |-> [v \in {"PRELOAD", "SELF"} |-> e[v]]]

\* set_agent_fail_fast_env binds only the names that are unset.
set_agent_fail_fast_env(e) ==
  [e EXCEPT !["ASKPASS"] = IF @ = Unbound THEN <<0>> ELSE @]

install_intercept_shims(e, n) ==
  set_agent_fail_fast_env(
    [e EXCEPT !["PATH"] = <<InterceptDir(n)>> \o @, !["SHELL"] = <<InterceptDir(n)>>])

install_deep_intercept(e) ==
  [e EXCEPT !["PRELOAD"] = IF @ = Unbound \/ @ = <<>> THEN <<Lib>> ELSE <<Lib>> \o @,
            !["SELF"] = <<1>>]

\* With a record the prior bindings come back; a fail-fast binding goes only
\* while it still has the value the installation gave it.
RestoreRecorded(e, r) ==
  [e EXCEPT !["PATH"] = r.prior_path, !["SHELL"] = r.prior_shell,
            !["ASKPASS"] = IF r.introduced /\ @ = <<0>> THEN Unbound ELSE @,
            !["PRELOAD"] = r.deep_env["PRELOAD"], !["SELF"] = r.deep_env["SELF"]]

\* Without one (an inherited installation) the managed entries are filtered out
\* and SHELL falls back to a shell on the cleaned PATH.
CleanInherited(e) ==
  LET cleaned == NotManaged(IF e["PATH"] = Unbound THEN <<>> ELSE e["PATH"])
      kept == SelectSeq(e["PRELOAD"], LAMBDA l : l # Lib)
      real == resolve_on_path(cleaned)
      shelled == e["SHELL"] # Unbound /\ is_managed_intercept_directory(e["SHELL"][1])
  IN [e EXCEPT !["PATH"] = cleaned,
               !["PRELOAD"] = IF @ = Unbound \/ kept = <<>> THEN Unbound ELSE kept,
               !["SELF"] = Unbound,
               !["SHELL"] = IF ~ shelled THEN @
                            ELSE IF real = <<>> THEN Unbound ELSE <<real[1]>>]

uninstall_intercept(e) ==
  IF record = <<>> THEN CleanInherited(e) ELSE RestoreRecorded(e, record[1])

-----------------------------------------------------------------------------
\* AllowPolicy: a set of names; intersecting only narrows it.
Narrowed(names) == IF confine = <<>> THEN names ELSE confine[1] \cap names
set_confine(names) == confine' = <<Narrowed(names)>>

install_confine_shims(e) ==
  [e EXCEPT !["PATH"] = <<ConfineDir(made + 1)>> \o (IF @ = Unbound THEN <<>> ELSE @),
            !["SHELL"] = <<ConfineDir(made + 1)>>]

\* confine's words: options, presets, names to allow.
NoSpec == [ok |-> TRUE, names |-> {}, force |-> FALSE, best_effort |-> FALSE,
           preset |-> "none", net |-> "none", rw |-> FALSE]
select_preset(o, p) ==
  IF o.preset \notin {"none", p} THEN [o EXCEPT !.ok = FALSE] ELSE [o EXCEPT !.preset = p]
select_network(o, n) ==
  IF o.net \notin {"none", n} THEN [o EXCEPT !.ok = FALSE] ELSE [o EXCEPT !.net = n]
parse_spec(tokens) ==
  LET Read(o, t) ==
        CASE ~ o.ok -> o
          [] t = "--force" -> [o EXCEPT !.force = TRUE]
          [] t = "--best-effort" -> [o EXCEPT !.best_effort = TRUE]
          [] t = "--net" -> select_network(o, "allow")
          [] t \in {"--no-net", "offline"} -> select_network(o, "deny")
          [] t \in {"exec-only", "read-only", "workspace"} -> select_preset(o, t)
          [] t = "--rw" -> [o EXCEPT !.rw = TRUE]
          [] t \in Commands -> [o EXCEPT !.names = @ \cup {t}]
          [] OTHER -> [o EXCEPT !.ok = FALSE]
  IN FoldLeft(Read, NoSpec, tokens)

\* Caps::resolve: what the sandbox takes away.
Caps(o) ==
  LET guarded == o.preset \in {"read-only", "workspace"}
  IN [net_deny |-> IF o.net = "none" THEN guarded ELSE o.net = "deny",
      write |-> CASE o.preset = "workspace" \/ o.rw -> "roots"
                  [] o.preset = "read-only" -> "none"
                  [] OTHER -> "open",
      scrub_env |-> guarded]

\* agent_in_payload: behind assignments the command itself, or what a wrapper
\* command starts.
agent_in_payload(words) ==
  LET rest == SelectSeq(words, LAMBDA w : w # "x=1")
  IN rest # <<>> /\ (rest[1] = "agent" \/ (rest[1] = "env" /\ "agent" \in ToSet(Tail(rest))))

plan(o, words, backend) ==
  CASE ~ o.force /\ agent_in_payload(words) -> "refuse"
    [] backend = "sandbox" -> "sandboxed"
    [] backend = "broken" \/ backend = "none" -> IF o.best_effort THEN "best" ELSE "refuse"

UserEnv == [PATH : {<<Bin>>, Unbound}, SHELL : {<<Bin>>, Unbound}, ASKPASS : {Unbound},
            PRELOAD : {Unbound, <<UserLib>>}, SELF : {Unbound}, TOKEN : {<<7>>}]
\* What a shell inherits from an intercepted parent.
Inherited(e) ==
  [e EXCEPT !["PATH"] = <<InterceptDir(90)>> \o @, !["SHELL"] = <<InterceptDir(90)>>,
            !["ASKPASS"] = <<0>>, !["SELF"] = <<1>>, !["PRELOAD"] = <<Lib>> \o @]

InterceptInit ==
  /\ \/ env \in UserEnv
     \/ env = Inherited([PATH |-> <<Bin>>, SHELL |-> <<Bin>>, ASKPASS |-> Unbound,
                         PRELOAD |-> <<UserLib>>, SELF |-> Unbound, TOKEN |-> <<7>>])
  /\ listed \in {<<>>} \cup {<<s>> : s \in SUBSET Commands}
  /\ confine = <<>> /\ record = <<>> /\ frame = <<>>
  /\ made = 0 /\ before = env /\ over = FALSE /\ phase = "startup"

-----------------------------------------------------------------------------
\* Startup: AGSH_CONFINE narrows first (apply_confinement), then --allow, then
\* AGSH_INTERCEPT installs over whatever environment was inherited.
Startup(allow, on, deep) ==
  LET shimmed == allow # {}
      narrowed == IF listed = <<>> THEN allow ELSE listed[1] \cap allow
      n == IF shimmed THEN 1 ELSE 0
      e == IF shimmed THEN install_confine_shims(env) ELSE env
  IN /\ phase = "startup"
     /\ phase' = "running"
     /\ confine' = IF shimmed THEN <<narrowed>> ELSE listed
     /\ listed' = IF shimmed THEN <<narrowed>> ELSE listed
     /\ before' = e
     /\ IF on /\ CanInstall(e)
        THEN /\ record' = <<InterceptRecord(e, n + 1)>>
             /\ env' = IF deep THEN install_deep_intercept(install_intercept_shims(e, n + 1))
                       ELSE install_intercept_shims(e, n + 1)
             /\ made' = n + 1
        ELSE /\ env' = e /\ made' = n
             /\ UNCHANGED record
     /\ UNCHANGED <<frame, over>>

\* Mutant: turning interception on again over the installation in force.
InstallOverMutant(e) == e

\* `mode:intercept SPEC` takes a previous installation back before it installs.
TakenBack(e) == uninstall_intercept(e)

ModeInterceptOn(base, written, deep) ==
  LET clean == TakenBack(env)
  IN /\ phase = "running" /\ frame = <<>> /\ made < MaxShims
     /\ before' = IF record = <<>> THEN clean ELSE before
     /\ over' = (over /\ record # <<>>)
     /\ IF build_shim_generation(base, written) /\ CanInstall(clean)
        THEN /\ record' = <<InterceptRecord(clean, made + 1)>>
             /\ env' = IF deep THEN install_deep_intercept(install_intercept_shims(clean, made + 1))
                       ELSE install_intercept_shims(clean, made + 1)
             /\ made' = made + 1
        ELSE /\ env' = clean /\ record' = <<>>
             /\ UNCHANGED made
     /\ UNCHANGED <<confine, listed, frame, phase>>

ModeInterceptOff ==
  /\ phase = "running" /\ frame = <<>>
  /\ env' = uninstall_intercept(env)
  /\ record' = <<>>
  /\ UNCHANGED <<confine, listed, frame, made, before, over, phase>>

\* Assignments of the user's: export and unset.
UserSets(v, x) ==
  /\ phase = "running"
  /\ env[v] # x
  /\ env' = [env EXCEPT ![v] = x]
  /\ UNCHANGED <<record, confine, listed, frame, made, before, over, phase>>

\* `confine LIST`: the shims first, and nothing changes when they fail.
ConfineSticky(o) ==
  /\ phase = "running" /\ frame = <<>> /\ made < MaxShims
  /\ o.ok /\ o.preset \in {"none", "exec-only"} /\ o.net = "none"
  /\ env' = install_confine_shims(env)
  /\ set_confine(o.names)
  /\ listed' = <<Narrowed(o.names)>>
  /\ made' = made + 1
  /\ over' = (record # <<>>)
  /\ UNCHANGED <<record, frame, before, phase>>

\* `confine LIST -- COMMAND` where the operating system enforces it: variables
\* that carry credentials or inject code are taken out while the command runs.
RunSandboxed(o, words, backend) ==
  LET scrub == Caps(o).scrub_env
  IN /\ phase = "running" /\ frame = <<>>
     /\ o.ok /\ plan(o, words, backend) = "sandboxed"
     /\ frame' = <<[how |-> "sandboxed", token |-> IF scrub THEN env["TOKEN"] ELSE Unbound,
                    preload |-> IF scrub THEN env["PRELOAD"] ELSE Unbound]>>
     /\ env' = IF scrub THEN [env EXCEPT !["TOKEN"] = Unbound, !["PRELOAD"] = Unbound] ELSE env
     /\ UNCHANGED <<record, confine, listed, made, before, over, phase>>

\* With --best-effort and no backend: shims and AGSH_CONFINE for the command.
RunBestEffort(o, words, backend) ==
  /\ phase = "running" /\ frame = <<>> /\ made < MaxShims
  /\ o.ok /\ plan(o, words, backend) = "best"
  /\ frame' = <<[how |-> "best", path |-> env["PATH"], shell |-> env["SHELL"],
                 list |-> listed]>>
  /\ env' = install_confine_shims(env)
  /\ listed' = <<Narrowed(o.names)>>
  /\ made' = made + 1
  /\ UNCHANGED <<record, confine, before, over, phase>>

\* The command has ended, well or not: restore_env, restore_exported_env.
PayloadEnds ==
  /\ frame # <<>>
  /\ frame' = <<>>
  /\ LET f == frame[1]
     IN IF f.how = "best"
        THEN /\ env' = [env EXCEPT !["PATH"] = f.path, !["SHELL"] = f.shell]
             /\ listed' = f.list
        ELSE /\ env' = [env EXCEPT !["TOKEN"] = IF f.token = Unbound THEN @ ELSE f.token,
                                   !["PRELOAD"] = IF f.preload = Unbound THEN @ ELSE f.preload]
             /\ UNCHANGED listed
  /\ UNCHANGED <<record, confine, made, before, over, phase>>

\* Restoring a recorded session replays AGSH_CONFINE through set_confine, and
\* exports the recorded list as it was (journal.rs).
RestoreSession(names) ==
  /\ phase = "running" /\ frame = <<>>
  /\ set_confine(names)
  /\ listed' = <<names>>
  /\ UNCHANGED <<env, record, frame, made, before, over, phase>>

UserValues == {<<"PATH", <<Own, Bin>>>>, <<"SHELL", <<Own>>>>, <<"ASKPASS", <<3>>>>,
               <<"PRELOAD", Unbound>>}
Specs == LET names == SetToSeq(Commands)
         IN {<<"--net", "offline">>, <<"workspace">>, <<"read-only", "--rw">>}
            \cup {[i \in 1..k |-> names[i]] : k \in 0..Len(names)}
            \cup {<<"--best-effort", c>> : c \in Commands}
            \cup {<<"--best-effort", "--force", c>> : c \in Commands}
Payloads == {<<"run">>, <<"x=1", "env", "agent">>}
InterceptNext ==
  \/ \E a \in SUBSET Commands, on \in BOOLEAN, deep \in BOOLEAN : Startup(a, on, deep)
  \/ \E b \in TempBases, written \in BOOLEAN, deep \in BOOLEAN : ModeInterceptOn(b, written, deep)
  \/ ModeInterceptOff
  \/ \E p \in UserValues : UserSets(p[1], p[2])
  \/ \E t \in Specs : ConfineSticky(parse_spec(t))
  \/ \E t \in Specs, w \in Payloads, b \in {"sandbox", "none", "broken"} :
       RunSandboxed(parse_spec(t), w, b) \/ RunBestEffort(parse_spec(t), w, b)
  \/ \E s \in SUBSET Commands : RestoreSession(s)
  \/ PayloadEnds

InterceptSpec == InterceptInit /\ [][InterceptNext]_interceptVars

-----------------------------------------------------------------------------
Replays == \E s \in SUBSET Commands : RestoreSession(s)

\* Turning interception off, or failing to turn it on again, gives back the
\* PATH, SHELL and preload bindings it was turned on in, however often it was
\* turned on again in between, and keeps a fail-fast variable the user has set
\* since (executor.rs, uninstall_intercept; builtins.rs, mode_intercept).  A
\* sticky confinement installed over the interception is the exception: its
\* shims sit in the PATH that is thrown away (ConfinementKept).
OffRestores ==
  record # <<>> /\ record' = <<>> =>
    /\ ~ over => \A v \in {"PATH", "SHELL", "PRELOAD", "SELF"} : env'[v] = before[v]
    /\ env["ASKPASS"] = <<3>> => env'["ASKPASS"] = <<3>>

\* The allowlist of a shell only ever narrows: not by confine, not by a scoped
\* run and not by a restored session (state.rs, set_confine).  The list its
\* children inherit narrows too; only the end of a scoped run widens it, giving
\* back the list the run found, and a restored session (ConfinementKept).
ShellNarrows == confine # <<>> => confine' # <<>> /\ confine'[1] \subseteq confine[1]
ListNarrows ==
  listed # <<>> /\ frame = <<>> /\ ~ Replays =>
    listed' # <<>> /\ listed'[1] \subseteq listed[1]
NarrowOnly == ShellNarrows /\ ListNarrows

\* Every step of a shell keeps both promises.
InterceptionUndone == [][OffRestores /\ NarrowOnly]_interceptVars

\* "Sticky (no COMMAND): confine the current session (and its children, via the
\* inherited AGSH_CONFINE env). Narrow-only and irreversible for the session"
\* (run_confine_invocation): no step but the user's own assignments gives the
\* children of a confined shell a wider list, or takes the shims of a sticky
\* confinement out of PATH.
ConfineDirs(e) == {d \in ToSet(e["PATH"]) : d > 200}
StaysConfined ==
  confine # <<>> /\ frame = <<>> /\ (\A p \in UserValues : ~ UserSets(p[1], p[2])) =>
    /\ listed' # <<>> /\ listed'[1] \subseteq listed[1]
    /\ ConfineDirs(env) \subseteq ConfineDirs(env')
ConfinementKept == [][StaysConfined]_interceptVars
=============================================================================
