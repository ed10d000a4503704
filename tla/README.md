# A TLA+ model of agsh

agsh is a Unix shell for people and agents. This directory holds TLA+ modules
for its core: the *broker* daemon, which keeps jobs alive behind a PTY while
clients come and go; the *session*, whose journal, history, traces and command
line must survive crashes and other shells; the *executor*, which runs command
lines, pipelines, jobs and substitutions and must leave every construct correctly
however it is interrupted; the *variables* it saves and restores around calls;
and the *language* it reads. TLC checks the modules on small instances; TLAPS
proves for every instance the safety properties of all the state machines but
three (see *Proofs*).

Paths are relative to `src/`; a bare file name is in the crate its row names.

## Inventory

| Part | State | Operations | Hard behaviour |
|---|---|---|---|
| Kept job (`crates/agsh-broker`: `daemon.rs`) | run state, output (ring, attach slot, generation), log pair, child | pump loop, reap, publish, attach, detach, input, signal, resize, status | three locks, slow clients, blocked input, exit racing everything |
| Job table (same file) | table, running count, pending attach exits, id counter | spawn, prune, remove, status | prune under the table lock while jobs exit, failed spawns, bounded status cache |
| Daemon generation (same file, `client.rs`) | lock file, socket path, log files | start, sweep, serve, end | crash and restart, a socket unlinked under a live daemon |
| Attach client (`attach.rs`, `client.rs`) | stream, token | send, detach, classify the end | an ended stream is ambiguous |
| Session journal (`agsh-store`: `session.rs`, `agsh-exec`: `journal.rs`) | one file per session, last snapshot | append, fold, list, prune, diff, resume | crash at any point, lost appends, several shells in one directory |
| History (`history.rs`) | one log for all shells, the entries in memory | load, compact, append, search | a rewrite while another shell appends |
| Traces (`trace.rs`, `state.rs`) | spools, files of a shared directory, ring of references | tee, persist, prune, resolve | no lock between shells, limits at every stage |
| Executor (`executor.rs`), state, builtins | shell state, traps, interrupt | command lists, compounds, functions, traps | leaving nested constructs on exit, return, break, errors and signals |
| Pipelines and captures (`executor.rs`) | pipe ends, stages, readers, drain workers | choose a runner, start, wait, clean up; read, limit, hand over | a pipe end too many or too few; a grandchild that outlives its parent |
| Background jobs (`state.rs`, `builtins.rs`) | job table and markers | launch, notice, wait, fg, bg, kill | failed handoffs, retained statuses, recycled pids |
| Substitutions (`executor.rs`) | private files, pending stderr | run, queue, clean up | graphs inside graphs, errors half way |
| Streams and presentation (`executor.rs`) | captured streams, their order, exact traces | append, redirect, show | which of the nested graphs shows what; three ways of redirecting |
| Variables (`state.rs`, `builtins.rs`) | bindings with attributes, function scopes, project environment | assign, export, readonly, unset, declare, local, call, return, cd | three keepers of snapshots that meet on one name |
| Language (`agsh-core`: `lexer.rs`, `parser.rs`; `executor.rs`) | none that outlives a call | lex, parse, rebuild, expand, match, evaluate, dispatch | text that is written out and read again; limits and empty matches |
| Confinement and interception (`confine.rs`, `executor.rs`) | environment, record of what was replaced, allowlist | install, uninstall, confine, restore | must narrow only and give back what it took |
| Agent tools (`agent.rs`) | a file, its temporary copies; a running git | patch, capture | crash between write and rename; a git that does not end |
| Editor (`agsh-tty`: `editor.rs`, `buffer.rs`, `complete.rs`, `key.rs`) | line, menu, picker, history position, unread bytes | one per key | any order of keys, reads cut anywhere |
| Policy, compaction, rendering, index, compatibility, agent protocol | none, or text | transformations | none that a model reaches |

The components meet in few places. The shell talks to the broker over one
connection per request; an attach keeps its connection as a byte stream. Inside
the daemon every connection has a worker thread and every job a pump thread;
they share the job table and each job's `state`, `output` and `controller`
mutexes. Inside a shell, captured streams have reader threads, some stages of a
pipeline are threads, and the hang-up hook runs on a signal thread; everything
else is one interpreter. Shells share nothing but the directories of journals,
history and traces, and a file they patch.

What makes each part correct:

* a job's output reaches log, scrollback and client completely and in order;
  nothing touches the pid of a reaped child; the last client to attach holds the
  job until it leaves, is taken over or the job exits; the exit is published and
  everybody attached is hung up; no set of threads waits for ever;
* the table keeps running jobs and bounds finished ones; the running ceiling
  holds; the client of an exited job learns its own exit code; one daemon
  generation serves at a time and never damages live logs;
* a dead session restores to the state it died with, and a live session is never
  offered for restore; a recorded command is not lost to another shell; a trace
  that calls itself complete is;
* exit, return, break and continue reach the call they are meant for; every
  counter is undone on every way out; an interrupt ends the line; the next line
  starts like the first;
* a capture that calls itself complete is; pipelines return and leave no process;
  every background child is accounted for; private files live as long as the
  graph that made them;
* a local or prefix assignment is gone when its call ends, and nothing else is;
  children see the exported values and no others; readonly values stay;
* text means what the shell language says, also after it was rebuilt and read
  again; output is shown once and redirected alike by everyone who can run a
  command.

## Modules

State machines:

| Module | Models | State | Actions |
|---|---|---|---|
| `KeptJob` | `pump_job`, `serve_attach`, `with_running_state`, `Output`, `JobLog` | child and PTY, `runState` with its lock, ring, attach slot, log pair, program counters of the pump and of each connection worker | one per critical section |
| `JobContract` | what a kept job promises, without threads | phase, holder, epoch | attach, drop, reap, exit |
| `Broker` | spawn, publish, prune, remove, pending exits, attach clients | job table, running slots, `pending_attach_exits`, per job and client program counters | one per lock section |
| `BrokerGeneration` | `run`: lock, probe, bind, seed, sweep, serve, end | per daemon program counter, lock, socket path, log files | start-up steps, spawn, rotate, remove, crash, user unlink |
| `SessionFold` | `diff_snapshots`, `fold_session`, `apply_session` | live state, snapshot, folded journal, folded journal of the dead session | one per state change, boundary, resume, death |
| `SessionJournal` | `try_append`, the recorder's event order, hang-up hook, prune, resume | one file per shell and which files were modified later, read-loop position, hook position | append, short write, signal, hook, prune, resume, die |
| `HistoryStore` | `with_file_load_limit`, `rewrite`, `persist_with_file_limit`, the locks | the log, its lock, each shell's memory and temporary file | load, rewrite step, record, finalize, append, torn append, clear, crash |
| `TraceStore` | `TraceSpoolWriter`, `record_trace_captured`, `persist_trace_segments_to_dir`, `prune_trace_dir_protecting`, `open_trace_reader` | the files of the directory with the times they were written, spools, the prunes in progress, each shell's line budget and ring | write, end the readers, persist each stream, scan, remove one file, end a prune, record, crash |
| `Executor` | `run_graph`, `run_command_list`, compounds, functions, `eval`, `source`, subshells, traps, the read loop | stack of calls in progress, result register, the control fields of `ShellState`, interrupt and trap flags | one per call or return point |
| `Pipeline` | `run_pipeline` and the six runners it chooses from | stages, who holds which end of which pipe, position of the shell | start a stage, wire, write, read, fail, kill, wait, record |
| `Capture` | `run_external`, `DirectChildCaptureReader`, the drain workers and their admission | processes, pipes, each reader and worker, slots, spool budget | one per step between two effects another thread can see |
| `Jobs` | `run_background_item`, `JobTable`, `jobs`, `fg`, `bg`, `wait`, `kill` | the table and its markers, the pids of the system | launch, handoff, notice, list, wait, signal, exit, reuse of a pid |
| `Substitutions` | `run_graph` around `$(...)` and `<(...)`, `cleanup_new_proc_sub_temps`, the stderr queue | stack of graphs, shells and their clones, files | run an item, substitute, enter a body, overflow, fail, unwind |
| `GitCapture` | `capture_command_with_limits`, `capture_pipe` | git's processes and pipes, both readers, the caller | read, wait, time out, kill, join |
| `Variables` | variable methods of `ShellState`, the builtins on them, function and builtin prefix assignments, `activate_project_env` | one binding per name, `local_scopes`, snapshots of the running builtin, `active_env` | one per operation |
| `VarScopes` | what variables promise: dynamic scoping | frames of bindings | write, declare, enter, leave, rebind |
| `Interception` | `install_intercept_shims`, `uninstall_intercept`, `set_confine`, `run_confine_invocation`, `mode_intercept`, the planner of `confine.rs` | environment, install record, allowlist, running payload | on, off, confine, user changes, restore of a session |
| `Editor` | the key loop (`run`), completion menu, picker | line, menu, picker, stash, ghost, accumulated lines | one per key and mode |
| `Patch` | `apply_unified_diff`, `atomic_replace` | the file and its durable copy, temporaries, processes | read, create, write, sync, rename, crash, power loss, a foreign save |

Pure components, whose operators `MCLanguage` evaluates on every input of a
bounded set:

| Module | Models |
|---|---|
| `Lexer` | `tokenize`, here-documents, and the writers that turn words back into text |
| `Syntax` | `parse_line`, `is_incomplete`, the readers of compound bodies, `source_logical_lines` |
| `Expansion` | words to fields: parameters and operators, quoting, splitting, whole invocations with their assignments and redirections |
| `Patterns` | matching, extended groups, removal and replacement, pathnames, braces |
| `Arithmetic` | the expression parser with assignments, in `Width` bits |
| `Conditions` | `test` and `[[` |
| `ReadBuiltin` | `read`: logical lines of a stdin that arrives in pieces, unescaping, splitting |
| `Dispatch` | the running router and the one that vets pipeline stages |
| `Keys` | keys out of reads of any size |
| `HistorySearch` | `query`, `suggest`, scores |
| `Streams` | captured outcomes, their order, exact traces, three appliers of redirections |
| `Presentation` | which graph shows which item, output wrappers, live and captured modes |
| `ShellReference` | nothing of the code: the meaning of patterns, words, expressions and command trees that the others are compared with |

`Captures` puts `Capture` and `GitCapture` side by side and states the one property
both keep. `MCProcesses` has `Captures`, `Pipeline` and `Jobs`; `MCSession` has `SessionFold`, `SessionJournal`, `Interception`,
`Editor`, `Patch` and `TraceStore`; `MCBroker` has `Broker`, `BrokerGeneration` and the
safety of `KeptJob`, whose liveness is `MCKeptJob`; `MCLanguage` has the pure components,
`Variables`, `HistoryStore` and `Substitutions`. What is proved about is extended, so that a run checks the very definitions the proofs
use; the rest is instanced. A behaviour of such a module is
a behaviour of one of its components, chosen by `which` at the start: the
components share no state in the program, so their product would show nothing
more. In `MCLanguage` the input says which component it is for. `MCBroker` also
splits the behaviours of one component in two kinds, each with its
own bounds, where the product of the bounds is out of reach: clients or a crowd of
spawners, racing connections or a failing log. `MCExecutor` gives the vocabularies
of commands. `*Proofs` modules hold theorems.

How the modules relate: `Broker` treats a job as the phase `KeptJob` says it is
in; `KeptJob` is shown to implement `JobContract`, which is what `Broker` relies
on. `BrokerGeneration` wraps whole daemons and keeps only their log files and
ids. `SessionJournal` treats a journal as the set of work it holds; `SessionFold`
is what one journal holds in detail. `Variables`, which saves and restores one
current binding per name, is shown to implement `VarScopes`, which keeps a stack
of frames; `Executor` has the same scopes but only counts them. `Pipeline` has
stages where `Capture` looks at one stream; `Presentation` builds on `Streams`,
`Expansion` on `Patterns`. `TraceStore` says when the spool of a stream that
`Streams` calls exact is kept.

### Abstractions

* `KeptJob`: output bytes are numbered, so a gap, a duplicate or a reordering is
  visible; the job's processes, the kernel's PTY and the clients are external.
  An `output` lock section is one action because nothing inside it waits for
  another thread; the `state` lock is held over several actions because input
  writes wait for the job.
* `Broker`: exit codes are job ids. The table lock is held over a whole prune,
  which is many steps, because jobs change state meanwhile. `BrokerGeneration`:
  the byte cap of the sweep counts files.
* `SessionFold`: no event is lost. Aliases, abbreviations and functions are
  treated alike by the code and are one kind of name. A resume does not activate the
  project environment of the directory it goes to (`journal.rs:566`). The window of 16384 events
  is not modelled, nor is a variable whose export attribute alone changes.
* `SessionJournal`: each shell makes one piece of work, named after it. An append
  of the read loop is one action (it holds the file lock and does not wait); the
  hang-up hook runs on its own thread and is seen holding the lock. Background
  `Job` events and reuse of a pid are left out.
* `HistoryStore`: an entry is its identity, its size and whether its line is whole.
  `TraceStore`: a file is a number of bytes, always a prefix of what was written.
  A shell reads the directory in one step and removes from what it saw one file at a
  time; a file that is still there can be removed, and no two were written at the
  same time.
* `Executor`: a program is not fixed beforehand. Every frame picks its next
  command, operator or arm when it gets there, so a behaviour is a run of some
  program. A status is ok or fail; a pipeline is a command with a status or an
  error; one signal can be trapped. A `for` has a bounded number of words, a `select`
  reads lines without bound. The closed-pipe flag of multi-stage pipelines (in `Stopping`
  and `ItemStatuses`) and hooks are left out. The fields `leak`, `wantErr` and `target` are history: no
  guard reads them.
* `Pipeline`: a stage passes on abstract items through pipes of bounded room.
  `Capture`: bytes say who wrote them, the child or an heir that outlives it; time
  is the order of events, a deadline may pass whenever its wait is possible.
* `Jobs`: the kernel may give the pid of a reaped child to any new process.
  A pipe that cannot be made stands also for a descriptor that cannot be copied.
* `Substitutions`: pieces of stderr are numbered in the order they are said. Of a
  pipeline only the commands the shell runs itself are seen, one at a time, each on its
  clone of the shell.
* `GitCapture`: any step may fail for want of resources: starting either reader, a read,
  waiting for git, whose process somebody else may have reaped.
* `Variables`: an array has one content. The integer attribute only decides which
  value is stored or that none is, so it is left out, and `set -a` is a choice.
  `born` is history: the frame for which a content was written. Any name may be
  `PWD`. Regular builtins that run another command (`confine`) are not run under
  prefix assignments.
* `Interception`: a directory is where it stands in `PATH` and whether it is managed;
  what the kernel's sandbox enforces is external, the choice of it is not.
* `Editor`: completion sources are small fixed tables; layout is left out except
  the number of columns that clips the suggestion.
* `Patch`: power loss brings back the last synced content of a file that was not
  synced since, or a file that is not whole.
* Language modules: text is a sequence of characters from a small alphabet in which
  every character the code treats specially occurs; one character takes two bytes, one
  has a lower case. `Syntax` begins at tokens: the answers of `is_incomplete` for an open
  quote, an open here-document and a line continuation (`parser.rs:380`) are not part of
  it. The limits of braces are constants. The work limit of the matcher
  (`MAX_MATCH_WORK`) is not reached by these inputs and is left out; the depth limit
  of extended groups is a constant.

## Runs

| Run | Instance | Shows |
|---|---|---|
| `broker` | a job with 2 connections of any kind, 2 output bytes, ring and log of 2; or 1 connection, 4 bytes and a log whose every write, unlink, rename and reopen may fail; or 2 jobs pruned at once with 2 clients and 1 pending exit kept; or 3 jobs of 2 spawners without clients, ceiling 2, unlinks may fail; or 3 daemons with 3 ids | `StreamContiguous`, `PidOpsTargetUnreapedChild`, `AttachmentTruthful`, `LogKept`, that `KeptJob` implements `JobContract`; `ExitLearned`, `TableOwned`, `GenerationsApart` |
| `kept_job_live` | 1 job with 2 connections and output that never has to end: bytes are renumbered, so that the states stay finite; fair | `PumpProgress`: output is pumped, the exit published, everyone hung up |
| `final_output` | 1 connection | *violated*: `FinalOutputDrained` |
| `session` | 1 variable, name and option, 2 directories and values, 3 edits; or 3 shells, 2 live, 2 lines, 1 incident; or 4 keys from 4 lines; or 2 processes patching; or 2 shells with 2 commands between them, a file left by an earlier one and 2 files kept; or interception with 2 shim directories | `StateRestored`, `FirstBoundaryExact`, `WorkSurvives`, `EditorKeepsText`, `PatchWhole`, `TraceTruthful`, `InterceptionUndone` |
| `session_consumed` | as `session`, 3 lines | *violated*: `ConsumedNotOffered` |
| `session_last_write` | as `session`, 1 directory | *violated*: `LastWriteWins` |
| `session_confinement` | as `session` | *violated*: `ConfinementKept` |
| `executor` | graphs 3 deep, 13 vocabularies of commands, fair | `CountersMatch`, `BreakExact`, `PromptClean`, `InterruptEndsLine` |
| `processes` | a capture of 2 bytes kept; pipelines of up to 3 stages of every kind; 3 children over 2 pids; git | `CaptureTruthful`, `StagesReaped`, `JobsAccounted`, `CaptureEnds`, `PipelineReturns` |
| `language` | every input of the sets in `MCLanguage`; 1 name with calls, prefixes and any number of other steps; 2 shells, 3 commands and a history over its limits; lines 3 graphs deep | `PatternsAgree`, `FieldsFollowQuoting`, `ExpressionsAgree`, `TextReadAgain`, `CommandsReadBack`, `RoutersAgree`, `KeysSurviveReads`, `SearchNarrows`, `OutputShownOnce`, `RedirectionsAgree`; `ChildEnvironment`, `NoEscape`, that `Variables` implements `VarScopes`; `RecentCommandsKept`, `SubstitutionsKept` |
| `language_nesting` | as `language` | *violated*: `CompoundsNest` |
| `language_aliases` | as `language` | *violated*: `AliasesEnd` |

Why the bounds are enough. Two connections make every takeover and every race of
a worker with a newer one; a third only repeats the second's part. Buffers of
two bytes fill, wrap and rotate within the bytes written. The cap on
finished records is 0, so a record goes as soon as its exit is published, and one
pending exit is kept, so the second evicts the first. Three daemons give a
dying, a serving and a starting one. Three edits set, unset and set again or
export a variable in one session, or spread this over a chain of sessions. Three
shells, two live, give a session resumed by one that dies and is resumed again.
Two shells and two kept files make each prune by a list that the other has made
old. The shells of either kind are interchangeable and begin in one order. In the
executor three graphs nest a line, a compound and a compound in it, and reach the
nesting limit at every call; the behaviours are unbounded in length.
The vocabularies keep the state space small: each pairs the requests (exit,
return, break, continue, errors, signals, traps) with constructs whose handling
of them differs. Three stages have a first, a middle and a last one of every kind,
and two items in pipes of one fill them. Two pids for three children force one to
be used again. Of the variables one name is enough because no operation relates
the bindings of two; one value is enough because the history field `born` tells
contents apart. Behaviours are followed up to a defect recorded in `broken`,
after which nothing is claimed of scopes. The inputs of `language` are as long as
it takes for two special characters, operators or constructs to meet with something
in between.

`CHECK_DEADLOCK FALSE` is given because every component legitimately ends: a job
exits and its connections return, a command is over, the shell is gone, an input
has been evaluated.

### Exceptions the properties name

A property that has an exception states it, and each exception is a behaviour of
the code worth knowing:

* `ExitLearned`: an eviction from the bounded cache loses a status, and so does a
  failed replay, whose client keeps a generation number that the next client is
  given as well (`daemon.rs:1323`).
* `PumpProgress`: a process that outlives the child and never stops writing keeps the
  exit from being published (`daemon.rs:1086`).
* `TableOwned`: finished records may exceed the cap by the pump threads that still
  owe a prune.
* `StateRestored`: a name of the rc file redefined and then removed; a variable both
  assigned and exported, or inherited and unset: the fold keeps both deltas of a key
  and replays the plain one last, whichever was written last (`session.rs:577`). That is
  against what the repository says of it, and the subject of `LastWriteWins`.
* `InterceptionUndone`: a confinement over an interception goes with it, and a restored
  session widens what children inherit: the subject of `ConfinementKept`.
* `WorkSurvives`: a shell that resumes a session and dies before its first
  boundary has consumed the journal and not yet written its own; a journal that was
  pruned under a live shell comes back without its Start record and is offered while
  the shell lives.
* `CountersMatch`, `BreakExact`, `PromptClean`: a function call whose redirection
  fails leaves its scope open (`executor.rs:4601`); an error or an interrupt can leave
  a loop or a function without serving the request made for it (`executor.rs:4061`,
  `:1754`).
* `InterruptEndsLine`: a `select` whose body continues looks at its next line before it
  looks at the interrupt (`executor.rs:4292`), for as long as there are lines.
* `ImplementsScopes`, `NoEscape`: the open scope above keeps its prefix
  assignments in force; a `declare` with a prefix assignment of the same name in
  a function (`X=1 declare X=2`) snapshots the prefix value as if it were the
  outer one, and the function's return restores it (`executor.rs:5034`).
  `NoEscape` also excepts a project environment undone in another scope than it
  was applied in (`state.rs:1785`): `X=1 cd project` saves the prefix value, and
  leaving the project makes it global.
* `StagesReaped`: a capture beyond its limit inside a shell stage between external
  ones returns before they are waited for (`executor.rs:10979`), and so do stages whose
  stderr together passes the limit, those after the one that passes it
  (`executor.rs:10757`). `PipelineReturns`:
  the clean-up after a `pipe()` failure joins a shell stage while it holds the reader
  that stage waits for.
* `CaptureTruthful`: of git's two readers the second is not joined when the first
  reports an error (`agent.rs:945`); it has been told to stop, or meets the end of a dead
  group's pipe. A git that somebody else reaped is neither killed nor reaped.
* `CaptureEnds`: no drain worker was available, or the reader of the command's stdin
  stays away while an heir lives: the shell then waits by design.
* `RecentCommandsKept`: entries that the retained window, in entries or in bytes, has
  moved past.
* `SubstitutionsKept`: the stderr of a substitution whose command then fails. A stage of a
  pipeline runs on a clone of the shell that nobody looks at afterwards: the files of its
  process substitutions stay behind and stderr still queued in it is not shown
  (`executor.rs:9258`).
* `RoutersAgree`: a chain of aliases as long as the limit, through an output wrapper, is
  refused before it runs and would run (`executor.rs:3114`).
* `KeysSurviveReads`: what stands in the same read behind a key that ends the line is
  dropped with its reader (`editor.rs:124`).
* `PatternsAgree`: beside an extended group `?` and `[..]` take one byte; braces beyond
  the limits are left in the texts.
* `CommandsReadBack`: the trees of `CompoundsNest` below, and `!` at the top level of
  an unfinished line. `FieldsFollowQuoting`, `ExpressionsAgree`, `TextReadAgain` and
  `RedirectionsAgree` name theirs where they are defined; the list under
  *Observations* says what they are.

### Fairness

* `KeptJob`: weak fairness of the pump and of every worker. They are OS threads
  without priorities. Weak fairness is enough for the state lock as a connection
  takes it a bounded number of times. The job and the clients owe nothing: they
  may never read, write or leave.
* `Executor`: weak fairness of the interpreter's own step, that is, commands end.
  Signals may never come. Nothing is assumed of what the program does next.
* `Capture`, `GitCapture`: weak fairness of the shell's thread, of each reader and
  drain worker, and of the clock of git's readers. Heirs and git owe nothing.
* `Pipeline`: weak fairness of the shell and of each stage: a stage that can read,
  write or end does one of them. What it chooses is free.

## Findings

1. **Final output can be lost** (`final_output`). `pump_job` finalizes in the
   iteration in which it reaps the child, if the drain before `try_wait` found
   nothing. Bytes written in between are never read.
2. **A consumed session can be offered again** (`session_consumed`). A record cut
   short leaves an unterminated line; the next record, such as `Restored`, is
   glued to it and does not parse.
3. **Not every compound nests** (`language_nesting`). An opening word behind `{`, `(`,
   `!`, the word that opens a condition or a case pattern is not counted, its closing
   word is: `if a; then { if b; then c; fi; }; fi` is refused (`parser.rs:947`).
4. **An alias can recurse without end** (`language_aliases`). `alias a='compact a'`
   overflows the stack, because the wrapped command starts with alias depth 0
   (`executor.rs:3112`).
5. **The last write does not always win** (`session_last_write`). The fold keeps one
   delta for a variable as exported and one as assigned, and replays the assigned one
   last: `x=1`, then `export x=2`, comes back as 1; an inherited variable unset and
   exported again does not come back (`session.rs:577`, `journal.rs:619`).
6. **A confined session can widen** (`session_confinement`). Restoring a session exports
   the recorded list as it is, so children of a shell confined further inherit the wider
   one (`journal.rs:607`). `mode:intercept off`, which puts back the `PATH` of the time
   interception was turned on, breaks the same property: it takes the shims of a later
   `confine` away (`executor.rs:5667`).

### Observations

Behaviours met while modelling that no document or test of the repository speaks
against; the models have them.

* Executor: exit, return or break in an ERR handler is first looked at after the
  next command (`executor.rs:1990`); `;&` runs the next arm (`:4408`) and an `if` whose
  condition returned starts its body (`:3998`); the EXIT trap runs with the exit
  request still set.
* Pipelines: `PIPESTATUS` is not current after some failures (`executor.rs:1832`). Jobs:
  a finished job keeps its pid, so `kill %n` may signal a recycled group, and
  `wait PID` finds the oldest job with it (`state.rs:2665`).
* Substitutions: the stderr of a substitution is lost when its command fails
  (`executor.rs:2388`, `:2508`).
* History: a torn append joins the next line. Traces: concurrent prunes remove more
  than each alone would (`state.rs:4089`).
* Interception: `mode:intercept off` restores the `PATH` and `SHELL` of install time,
  over what the user changed since.
* Conditions: both sides of `&&` and `||` are evaluated, and operators are recognised
  after expansion (`executor.rs:7614`); `-nt`, `-ot`, `-ef` and other file tests are
  always false (`:7706`). Arithmetic evaluates both branches of `?:`.
* `read`: backslashes go before the line is split; an unterminated last line returns
  0; stdin is read ahead, so a following program misses input (`executor.rs:6292`).
* Sourced files: a block that does not begin its line, a brace group, a here-document
  or a quote over several lines is cut line by line (`executor.rs:6560`).
* Text: a newline behind a quoted `;` or `|` is swallowed (`lexer.rs:43`); an unquoted
  `$(cmd arg)` in a function body is single-quoted when it is rebuilt
  (`executor.rs:4689`); quotes inside `"$(...)"` of a compound body are escaped (`:4672`);
  `((1<<2))` is taken for a here-document, which neither `lexer.rs:102` nor the comment at
  `parser.rs:612` intends.
* Expansion: `"$@"$v` joins the first field of `v` (`executor.rs:12616`); braces expand
  after parameters and make quoted pattern characters active (`:12056`); extended
  groups fail silently past depth 256 (`:14402`); an unquoted `${x[@]}` is not split at
  IFS (`:12380`), and `[*]` joins with nothing when IFS is unset (`:12420`); braces past a
  limit are left where they are in part of the texts, not in all (`:16182`).
* Redirections: for `exec`, a copy of a stream that was itself copied or closed
  (`executor.rs:15859`) differs from the order of `dup2`; `<file` beats a here-document
  wherever it stands (`:8529`).
* Aliases: `alias ls='ls -l'` always ends in "alias expansion limit exceeded"
  (`executor.rs:2937`).
* Editor: a key without meaning closes the completion menu; edits of a recalled line
  are lost on the next Up or Down. Patch: a hunk without context and old lines
  (`@@ -3,0 +4 @@`) is inserted before line 3, and an edit between read and rename is
  lost (`agent.rs:361`).

## Proofs

Every invariant below is checked by TLC on the small instance of a run and proved
here for every value of the constants. For each the property itself is not inductive;
the invariant named is, and says why the property holds.

`KeptJobProofs`, for any connections, buffer sizes and bounds
(`KeptJobAssumption`: sizes are positive, `NoConn` is not a connection):

* `TypeCorrect`: types and the bound of the scrollback. The work is in `LastOf`
  and the log pair, about which `LastOfType`, `PrefixType` and `LogWritesType`
  say what is needed.
* `PidOpsSafe`: no signal, resize or input write reaches a reaped pid. `LockInv`
  says that exactly the worker inside an operation holds the state lock, that a
  held lock means the job is running, and that a running job's child is not
  reaped. The pump reaps only with the lock free.
* `AttachmentAlwaysTruthful`: `AttachInv` ties the generation in the slot to its
  holder's token, says that no other worker that may still clear the slot has this
  token, and that a client connected and not leaving holds the slot.
* `StreamAlwaysContiguous`: what a client received, what is in the scrollback and the
  chunk in the pump's hand are runs of consecutive bytes that end where the next one
  begins (`StreamInv`), across replay, takeover and failed writes.
* `LogAlwaysKept`: while the log is open the two files together end with the last
  byte drained (`LogInv`), whichever step of a write or a rotation fails.
* `Refinement`: `KeptJob` implements `JobContract` under runState, attach.conn,
  attachGen. `SlotInv` says that an exited job has an empty slot and which pump
  positions mean "exited"; each action is then a contract step or stutters.

`BrokerProofs`, for any number of jobs, spawners and clients and any caps
(`BrokerAssumption`: the caps are naturals and the cache of exits holds at least one,
`NoClient` is not a client, spawners are not numbers of jobs or 0), and for any
daemons, ids and orphan window (`GenerationAssumption`: `NoDaemon` is not a daemon,
ids are bounded by a natural):

* `TableAlwaysOwned`. `TableInv` says of each job which of its child, phase, pump and
  record may go together and which single spawner has it before it is published;
  that the slots are counted by whoever owes one; and, of pruning, that finished
  records never exceed the cap by more than the pumps whose prune is still to come.
  A prune in progress counted its excess when it started, so the bound it keeps is the
  cap, what it has left to remove, and the owers other than itself.
* `ExitAlwaysLearned`. `ExitInv` follows the client that an exit took: its own worker
  will not discard the status, and until the client has asked, the status is still to
  be remembered, is in the cache under its key, or is lost for one of the two reasons
  the property excepts. That a client in the slot is attached to this job and a client
  taken was its holder carries the argument across takeovers.
* `GenerationsAlwaysApart`. `GenInv`: past `acquire_generation_lock` a daemon holds
  the lock until its process ends, only a serving one has jobs, and from the bind on
  its seed is above every log in the directory.

`ExecutorProofs`, for programs of any commands, any nesting limit and any number of
items (`ExecutorAssumption`: the limits are naturals, the depth limit is positive):

* `StateFollowsCalls`, `CountersAlwaysMatch`, `BreakAlwaysExact`, `PromptAlwaysClean`.
  `ExecInv` relates the stack of calls to the control fields of `ShellState` (`Match`):
  depths, loop levels and scopes are numbers of frames of a kind, a break is for the
  loops from its target inwards, a return for a function or file in progress, the ERR
  trap is away only under its handler. A subshell's saved state matches the stack below
  it, so the state it puts back matches as well. There is one lemma for each call
  and return point.

`SessionProofs`, for any keys, names, options, values and number of edits
(`FoldAssumption`: the markers are not values); any shells, lines, signals and failed
writes (`JournalAssumption`: events are not shells, `None` is not an event); any
processes, diffs, temporary names and faults; any commands and installations; and any
shells, limits, stream sizes and failing file operations of the trace store
(`TraceAssumption`: the shells are finitely many, the limit of files is at least 2, to
which `trace_dir_cap` is clamped, the directory starts within it, and the ring holds at
least one reference):

* `TypeCorrect`; `NamesAreRestored`, `VarsAreRestored`, `SettingsAreRestored`, which
  together are `StateIsRestored`; `FirstBoundaryIsExact`. `MirrorInv` says that a
  variable's environment entry mirrors its value exactly when it is exported. The
  invariants of the fold say, per name, variable and option, that the folded delta is
  what turns the base state into the snapshot, with the history sets telling which
  exception applies.
* `WorkAlwaysSurvives`. `JournalInv`: a journal that lost no event has its Start
  record, terminated lines and what its recorder compared against (`Intact`); a shell
  about to mark a journal consumed has all of its work (`Taken`); and whatever was
  recorded is with some shell that lives, ended cleanly or whose journal is on offer
  (`Keeps`).
* `PatchAlwaysWhole`. `PatchInv` says what each step of `atomic_replace` has already
  made of its temporary file (whole, then permissions, then synced), that the file is
  its own, and that the file in place is one that survives a power loss.
* `InterceptionAlwaysUndone`. `RecordInv`: while interception is on, its record holds
  the `PATH`, `SHELL` and loader settings it was turned on in, whatever was installed,
  changed or restored since; during start-up there is neither a record nor an allowlist.
  `ListInv`: the list children inherit allows all the shell allows, and so does the one
  that a scoped run will give back; this is why intersecting with the shell's own list
  narrows the inherited one.
* `TracesAlwaysTruthful`. `TraceInv` follows a stream from its spool to its file: a
  spool still teed was given all the command wrote, one that is not has stored less than
  it was given; a source that calls itself complete has all (`SourceTrue`), and so has
  the file whose status says so (`FileTrue`, `DiskTrue`), as no file of the same name
  exists before. For the size of the directory it finds a moment, the scan of the prune
  that read the directory last of those completed, up to which there are no more files
  than the limit, and after which every file belongs to a shell that owes a prune
  (`DirBounded`). A prune's tally is not what is there, but what it saw and is still
  there is no more than it counts (`PruneOK`); other shells only lower this. A prune that
  ends either has its files before the moment, which then still serves, or moves it to
  its own scan.

`VariablesProofs`, for any names, values and number of calls
(`VariablesAssumption`: `NoVal` is not a value, the empty one is; `NoneAssumption`:
`None` is neither a set of snapshots nor an environment):

* `TypeCorrect` and `ChildrenSeeExports`. `GoodInv`: bindings come back from
  snapshots, and the snapshots of scopes, prefix assignments and project environments
  are of consistent bindings. Each operation on one binding keeps it consistent (one
  lemma per method), and each action puts such bindings, or snapshots of them, in place.
* `NothingEscapes`: until a defect is recorded, the current binding of a name was
  written for the innermost frame that shadows it, each snapshot for the frame that owns
  the name below, and what an environment saved for the frame it was applied in
  (`Owned`).
* `ScopingImplemented`: `Variables` implements `VarScopes` under a mapping that gives
  each frame the bindings its snapshots say. `Owned` tells where the content of every
  frame is kept; each action is then a write, a declaration, a frame entered or left or
  a binding put back, a stutter, or sets `broken`, after which the refinement claims
  nothing. The proof needed `unset name[i]` to leave a readonly array alone, as the
  code does (`builtins.rs:2296`) and the model did not.

`ProcessProofs`, for any number of children, process ids and retained statuses
(`JobsAssumption`: the bound is a natural and "no status" is not an exit code), and for
every pipeline:

* `JobsAlwaysAccounted`. `JobsInv`: a process id in use belongs to one child and lives
  until that has a status; the handoff, the table, the list of a wait and the answers
  share no child and together have all that were started. Evictions and waits
  take jobs out of the table and keep the others in order: the nth of a set of positions
  is the one of rank n, and ranks are a bijection.
* `StagesAlwaysReaped`. `PipelineInv` says which stages each position of each of the
  six runners may find started, waited for or not yet there, on the failing paths too,
  and which the two early returns leave: only stages that come later in the order of
  waiting.

`CaptureProofs`, for any limits, pipe sizes, budgets and number of writes; of git also
(`GitAssumption`: limit and chunk are naturals):

* `CapturesAlwaysTruthful`. `CaptureInv`: until a worker discards, what was written to
  a stream is what was read and what is still in the pipe; a reader that saw the child
  gone before it found the pipe empty has read all the child wrote; the slots are the
  readers and workers alive. `GitInv`: while git lives it holds both pipes, and a reader
  that met the end has all that was written. `CallerOK` says at each position of the
  caller which readers it started, which it joined, whether the child is reaped and who
  was told to stop, on every failing path.

TLC evaluates the assumptions for the constants of the runs.

Induction over data is out of the prover's reach, but the theorem on minimal elements
of a well-founded relation is not: a least or greatest element (the first record of a
prune, the largest id of a log directory, the owner of a name) is had from it.

Only model-checked: liveness (`PumpProgress`, `InterruptEndsLine`, `CaptureEnds`,
`PipelineReturns`), which rests on fairness that this prover does not handle; the
language modules and `EditorKeepsText`, which rest on recursive operators (words, history
search, the reference definitions), out of the prover's reach; `RecentCommandsKept` and
`SubstitutionsKept`, which are about sums and concatenations over sequences of any length,
that is, about folds, and would need induction over them. The type invariants of
`KeptJob`, `SessionFold` and `Variables` are only proved, the other proofs have theirs
inside the invariants above.

## Not modelled

The wire format (framing of JSON) and the agent protocol (a codec that nothing calls
yet); policy tables and output compaction (patterns over text); rendering, style and
prompt layout; the project index and the compatibility resolver (directory scans);
`math` (floating point) and suggestions (edit distance); the listings of `keep` and
`sessions`; the daemon's accept loop with its ceiling of 64 connections, beyond which
`connect_or_start` reports that the broker did not come up (`client.rs:78`). The
builtins that only parse arguments and print, terminal process groups, coprocesses,
hooks and completion data files are left out of the modules that model their
neighbours. Each entry of `components` in `PROJECT.json` says what its modules leave
out.

## Plan

Done, in this order: `KeptJob` with `JobContract` and their proofs, `Broker`,
`BrokerGeneration`, `SessionFold` with proofs, `SessionJournal`, `Executor`,
`Variables` with `VarScopes` and proofs; then `Capture`, `Pipeline`, `Jobs`,
`Substitutions`, `GitCapture`; `HistoryStore`, `TraceStore`, `Interception`, `Editor`,
`Patch`; the language modules; then the proofs of the broker's two modules, of
`Executor`, `SessionJournal` and `Patch`, and the rest of those of `KeptJob`; then those
of `Jobs`, `Pipeline`, `Capture`, `GitCapture`, `Interception` and `TraceStore`, and the
refinement of `VarScopes`.

Next:

1. the accept loop of the daemon with its connection ceiling and `connect_or_start`;
2. coprocesses and terminal process groups, next to `Pipeline` and `Jobs`;
3. proofs: `SubstitutionsKept`, with the pieces that wait stated by their numbers instead
   of a concatenation over the stack.
