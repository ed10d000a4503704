-------------------------------- MODULE Jobs --------------------------------
(***************************************************************************)
(* Background jobs of one shell (agsh-exec: state.rs JobTable, executor.rs *)
(* run_background_item, the jobs, fg, bg, wait and kill builtins).         *)
(* `cmd &' starts a child shell, hands it a snapshot of the shell state    *)
(* and registers it once it acknowledged it.  A finished job stays in      *)
(* the table so that its status can still be waited for, up to a number of *)
(* retained statuses.  The operating system may give the process id of a   *)
(* reaped child to a new process.                                          *)
(***************************************************************************)
EXTENDS Naturals, Sequences, FiniteSets

CONSTANTS
  Pids,       \* process ids
  Names,      \* command texts, as far as %name tells them apart
  MaxJobs,    \* bound: children started
  Retained,   \* MAX_RETAINED_JOB_STATUSES
  ExitCodes   \* statuses of a child

VARIABLES
  jobs,      \* the table: [id, child, pid, name, done, told]
  lastId, current, previous,   \* next_id and the + and - markers, 0 for none
  os,        \* each process id: the child it belongs to and whether it lives
  exit,      \* each child's wait status, 0..; NoStatus while it lives
  doing,     \* what the shell does: "idle", "handoff", "waiting"
  handoff,   \* the child being started, 0 for none
  targets,   \* children a wait still has to collect, in order
  started,   \* children spawned so far
  answered   \* ghost: children whose status a wait has returned, and evicted ones

jobVars == <<jobs, lastId, current, previous, os, exit, doing, handoff, targets,
             started, answered>>

NoStatus == 999

ASSUME JobsAssumption ==
  /\ MaxJobs \in Nat
  /\ NoStatus \notin ExitCodes

Free == [child |-> 0, st |-> "free"]
JobIds == {jobs[i].id : i \in DOMAIN jobs}
JobChildren == {jobs[i].child : i \in DOMAIN jobs}
Waited == {targets[i] : i \in DOMAIN targets}
JobOf(id) == CHOOSE i \in DOMAIN jobs : jobs[i].id = id
PidOf(child) == CHOOSE p \in Pids : os[p].child = child

JobsInit ==
  /\ jobs = <<>> /\ lastId = 0 /\ current = 0 /\ previous = 0
  /\ os = [p \in Pids |-> Free]
  /\ exit = [c \in 1..MaxJobs |-> NoStatus]
  /\ doing = "idle" /\ handoff = 0 /\ targets = <<>> /\ started = 0
  /\ answered = {}

-----------------------------------------------------------------------------
(* The table.                                                              *)

\* The first job that satisfies a test, as resolve_spec searches.
FirstJob(Test(_)) ==
  LET hits == {i \in DOMAIN jobs : Test(jobs[i])}
  IN IF hits = {} THEN 0 ELSE jobs[CHOOSE i \in hits : \A j \in hits : i <= j].id

\* resolve_spec: %+ %- %n %name and a bare process id.
ResolveSpec(spec) ==
  CASE spec.by = "current" -> current
    [] spec.by = "previous" -> previous
    [] spec.by = "id" -> FirstJob(LAMBDA job : job.id = spec.val)
    [] spec.by = "name" -> FirstJob(LAMBDA job : job.name = spec.val)
    [] spec.by = "pid" -> FirstJob(LAMBDA job : job.pid = spec.val)

Specs == [by : {"current", "previous"}, val : {0}] \cup [by : {"id"}, val : 1..MaxJobs]
         \cup [by : {"name"}, val : Names] \cup [by : {"pid"}, val : Pids]

\* refresh_markers, on the table that is about to hold.
NewCurrent(table) ==
  IF \E i \in DOMAIN table : table[i].id = current THEN current
  ELSE IF table = <<>> THEN 0 ELSE table[Len(table)].id

NewPrevious(table) ==
  LET cur == NewCurrent(table)
      rest == {i \in DOMAIN table : table[i].id # cur}
  IN IF previous # cur /\ \E i \in DOMAIN table : table[i].id = previous THEN previous
     ELSE IF rest = {} THEN 0
     ELSE table[CHOOSE i \in rest : \A j \in rest : j <= i].id

RefreshMarkers(table) ==
  /\ current' = NewCurrent(table)
  /\ previous' = NewPrevious(table)

\* try_wait on every running job: a zombie is reaped and its id is free again.
Polled ==
  [i \in DOMAIN jobs |-> [jobs[i] EXCEPT !.done = @ \/ exit[jobs[i].child] # NoStatus]]

ReapedBy(table) ==
  [p \in Pids |-> IF \E i \in DOMAIN table : table[i].done /\ os[p].child = table[i].child
                     /\ os[p].st = "zombie"
                  THEN Free ELSE os[p]]

-----------------------------------------------------------------------------
(* Starting a job.                                                         *)

\* run_background_item: the child shell is spawned in a group of its own.
Launch ==
  /\ doing = "idle" /\ started < MaxJobs
  /\ \E p \in Pids :
       /\ os[p].st = "free"
       /\ os' = [os EXCEPT ![p] = [child |-> started + 1, st |-> "live"]]
  /\ started' = started + 1
  /\ handoff' = started + 1
  /\ doing' = "handoff"
  /\ UNCHANGED <<jobs, lastId, current, previous, exit, targets, answered>>

\* The child restored the snapshot and acknowledged it: register_job.
Register ==
  /\ doing = "handoff"
  /\ \E n \in Names :
       jobs' = Append(jobs, [id |-> lastId + 1, child |-> handoff, pid |-> PidOf(handoff),
                             name |-> n, done |-> FALSE, told |-> FALSE])
  /\ lastId' = lastId + 1
  /\ previous' = current
  /\ current' = lastId + 1
  /\ doing' = "idle" /\ handoff' = 0
  /\ UNCHANGED <<os, exit, targets, started, answered>>

\* The handoff as if a failed child were only forgotten.
HandoffFailsMutant ==
  /\ doing = "handoff"
  /\ doing' = "idle" /\ handoff' = 0
  /\ UNCHANGED <<jobs, lastId, current, previous, os, exit, targets, started,
                 answered>>

\* A snapshot that cannot be written, a wrong or missing acknowledgement, a
\* time-out: the child's group is killed and the child reaped.
HandoffFails ==
  /\ doing = "handoff"
  /\ os' = [os EXCEPT ![PidOf(handoff)] = Free]
  /\ exit' = [exit EXCEPT ![handoff] = IF @ = NoStatus THEN 137 ELSE @]
  /\ doing' = "idle" /\ handoff' = 0
  /\ UNCHANGED <<jobs, lastId, current, previous, targets, started, answered>>

\* A child ends by itself; job_exit_status maps a signal to 128 plus it.
ChildExits ==
  /\ \E p \in Pids, c \in ExitCodes :
       /\ os[p].st = "live"
       /\ os' = [os EXCEPT ![p].st = "zombie"]
       /\ exit' = [exit EXCEPT ![os[p].child] = c]
  /\ UNCHANGED <<jobs, lastId, current, previous, doing, handoff, targets,
                 started, answered>>

-----------------------------------------------------------------------------
(* The builtins and the prompt.                                            *)

\* Told jobs beyond the retained number are dropped, oldest first, never the
\* current one.
Evicted(table) ==
  LET excess == IF Len(table) > Retained THEN Len(table) - Retained ELSE 0
      old == {i \in DOMAIN table : table[i].told /\ table[i].id # current}
  IN {i \in old : Cardinality({j \in old : j < i}) < excess}

\* The k-th smallest position of a set, and a table without some of its jobs.
Nth(S, k) == CHOOSE i \in S : Cardinality({j \in S : j <= i}) = k

Without(table, dropped) ==
  LET keep == DOMAIN table \ dropped
  IN [k \in 1..Cardinality(keep) |-> table[Nth(keep, k)]]

\* reap_finished_jobs, before each prompt: poll, tell, evict.
ReapFinishedJobs ==
  /\ doing = "idle"
  /\ LET told == [i \in DOMAIN Polled |->
                    [Polled[i] EXCEPT !.told = @ \/ Polled[i].done]]
         gone == Evicted(told)
     IN /\ jobs' = Without(told, gone)
        /\ os' = ReapedBy(told)
        /\ RefreshMarkers(Without(told, gone))
        /\ answered' = answered \cup {told[i].child : i \in {j \in gone : told[j].done}}
  /\ UNCHANGED <<lastId, exit, doing, handoff, targets, started>>

\* job_listing: poll only.
ListJobs ==
  /\ doing = "idle"
  /\ jobs' = Polled
  /\ os' = ReapedBy(Polled)
  /\ UNCHANGED <<lastId, current, previous, exit, doing, handoff, targets,
                 started, answered>>

\* wait_for_jobs takes the jobs out of the table before it waits.
TakeForWait(ids) ==
  LET taken == {i \in DOMAIN jobs : jobs[i].id \in ids}
      rest == Without(jobs, taken)
  IN /\ targets' = [k \in 1..Cardinality(taken) |-> jobs[Nth(taken, k)].child]
     /\ jobs' = rest
     /\ RefreshMarkers(rest)
     /\ doing' = "waiting"

\* builtin_fg: continue the group, then wait for the job; builtin_wait.
Foreground(spec) ==
  /\ doing = "idle" /\ ResolveSpec(spec) # 0
  /\ TakeForWait({ResolveSpec(spec)})
  /\ UNCHANGED <<lastId, os, exit, handoff, started, answered>>

Wait(spec) ==
  /\ doing = "idle" /\ ResolveSpec(spec) # 0
  /\ TakeForWait({ResolveSpec(spec)})
  /\ UNCHANGED <<lastId, os, exit, handoff, started, answered>>

WaitAll ==
  /\ doing = "idle" /\ jobs # <<>>
  /\ TakeForWait(JobIds)
  /\ UNCHANGED <<lastId, os, exit, handoff, started, answered>>

\* One child.wait of the loop; the status is cached when it was polled before.
Collect ==
  /\ doing = "waiting" /\ targets # <<>>
  /\ exit[Head(targets)] # NoStatus
  /\ os' = [p \in Pids |-> IF os[p].child = Head(targets) THEN Free ELSE os[p]]
  /\ answered' = answered \cup {Head(targets)}
  /\ targets' = Tail(targets)
  /\ doing' = IF Tail(targets) = <<>> THEN "idle" ELSE "waiting"
  /\ UNCHANGED <<jobs, lastId, current, previous, exit, handoff, started>>

\* builtin_bg: the group is continued and the job called running again.
Background(spec) ==
  /\ doing = "idle" /\ ResolveSpec(spec) # 0
  /\ jobs' = [jobs EXCEPT ![JobOf(ResolveSpec(spec))].done = FALSE]
  /\ UNCHANGED <<lastId, current, previous, os, exit, doing, handoff, targets,
                 started, answered>>

\* builtin_kill: %job reaches the process group registered for it, a bare
\* number that process, job or not.  Whoever has the id now gets the signal.
KillTarget(spec) ==
  IF spec.by = "pid" THEN spec.val
  ELSE IF ResolveSpec(spec) = 0 THEN 0 ELSE jobs[JobOf(ResolveSpec(spec))].pid

Kill(spec) ==
  /\ doing = "idle" /\ KillTarget(spec) \in Pids
  /\ os[KillTarget(spec)].st = "live"
  /\ os' = [os EXCEPT ![KillTarget(spec)].st = "zombie"]
  /\ exit' = [exit EXCEPT ![os[KillTarget(spec)].child] = 143]
  /\ UNCHANGED <<jobs, lastId, current, previous, doing, handoff, targets,
                 started, answered>>

JobsNext ==
  \/ Launch \/ Register \/ HandoffFails \/ ChildExits
  \/ ReapFinishedJobs \/ ListJobs \/ WaitAll \/ Collect
  \/ \E spec \in Specs : Foreground(spec) \/ Wait(spec) \/ Background(spec)
                         \/ Kill(spec)

JobsSpec == JobsInit /\ [][JobsNext]_jobVars

-----------------------------------------------------------------------------
(* What must hold.                                                         *)

\* Every child that was ever started is accounted for: it is being handed its
\* state, in the table, being waited for, reaped by a failed handoff, or its
\* status was returned or evicted after it was announced.  No live or unreaped
\* child is forgotten, and none is in two of these places or answered for twice.
\* A live job still owns the process id that fg, bg and kill signal, and
\* the + and - markers name jobs of the table.
JobsAccounted ==
  /\ \A p \in Pids : os[p].st # "free" => os[p].child \in JobChildren \cup Waited \cup {handoff}
  /\ \A i, j \in DOMAIN jobs : jobs[i].child = jobs[j].child => i = j
  /\ \A i, j \in DOMAIN targets : targets[i] = targets[j] => i = j
  /\ \A c \in JobChildren : c \notin Waited \cup answered \cup {handoff}
  /\ \A c \in Waited : c \notin answered \cup {handoff}
  /\ \A i \in DOMAIN jobs : exit[jobs[i].child] = NoStatus =>
       os[jobs[i].pid] = [child |-> jobs[i].child, st |-> "live"]
  /\ \A c \in answered : exit[c] # NoStatus /\ \A p \in Pids : os[p].child # c
  /\ current \in JobIds \cup {0} /\ (current = 0 <=> jobs = <<>>)
  /\ previous \in JobIds \cup {0} /\ (previous # 0 => previous # current)

=============================================================================
