-------------------------- MODULE BrokerGeneration --------------------------
(***************************************************************************)
(* Generations of the broker daemon on one machine: start-up, the advisory *)
(* generation lock, the socket path, crashes and restarts, and the job log *)
(* files they leave to each other (daemon.rs run and its helpers).  Every  *)
(* daemon is one process; it never comes back once it has ended.           *)
(*                                                                         *)
(* A log file is its job id; the byte cap of the start-up sweep counts     *)
(* files.  The user may remove the socket path at any time.                *)
(***************************************************************************)
EXTENDS Integers, FiniteSets

CONSTANTS
  Daemons,    \* daemon processes started during the behaviour
  NoDaemon,   \* not a daemon
  MaxId,      \* the last job id
  OrphanJobs, \* ORPHAN_LOG_JOB_CAP
  OrphanFiles \* ORPHAN_LOG_BYTES_CAP, in files

Ids == 1..MaxId

ASSUME GenerationAssumption == NoDaemon \notin Daemons /\ MaxId \in Nat

VARIABLES
  pc,       \* per daemon: where run() is; "refused" and "dead" are ends
  lock,     \* holder of agshd.lock
  path,     \* whose socket is bound at the socket path, NoDaemon if absent
  cur,      \* ids with a k<id>.log file
  old,      \* ids with a k<id>.log.old file
  nextIds,  \* per daemon: Broker.next_id
  jobs,     \* per daemon: ids of the jobs in its table
  logging   \* per daemon: ids of its jobs whose pump has its log open

generationVars == <<pc, lock, path, cur, old, nextIds, jobs, logging>>

\* The process exists; once bound it also accepts connections.
Alive(d) == pc[d] \in {"lock", "probe", "clear", "bind", "sweep", "serving"}
Listening(d) == pc[d] \in {"sweep", "serving"}

GenerationInit ==
  /\ pc = [d \in Daemons |-> "off"]
  /\ lock = NoDaemon /\ path = NoDaemon
  /\ cur = {} /\ old = {}
  /\ nextIds = [d \in Daemons |-> 0]
  /\ jobs = [d \in Daemons |-> {}]
  /\ logging = [d \in Daemons |-> {}]

Goto(d, label) == pc' = [pc EXCEPT ![d] = label]

\* The process ends with an error or is killed: the kernel drops its lock,
\* its socket file stays behind.
End(d, label) ==
  /\ Goto(d, label)
  /\ lock' = IF lock = d THEN NoDaemon ELSE lock
  /\ jobs' = [jobs EXCEPT ![d] = {}]
  /\ logging' = [logging EXCEPT ![d] = {}]

\* connect_or_start, or the user, launches a daemon.
Launch(d) ==
  /\ pc[d] = "off"
  /\ Goto(d, "lock")
  /\ UNCHANGED <<lock, path, cur, old, nextIds, jobs, logging>>

\* acquire_generation_lock: flock without waiting.
LockAvailableMutant == TRUE
LockAvailable == lock = NoDaemon

AcquireLock(d) ==
  /\ pc[d] = "lock"
  /\ IF LockAvailable
     THEN Goto(d, "probe") /\ lock' = d /\ UNCHANGED <<jobs, logging>>
     ELSE End(d, "refused")
  /\ UNCHANGED <<path, cur, old, nextIds>>

\* prepare_socket_path: absent, answered by a live daemon, or stale.
ProbeSocket(d) ==
  /\ pc[d] = "probe"
  /\ IF path = NoDaemon THEN Goto(d, "bind") /\ UNCHANGED <<lock, jobs, logging>>
     ELSE IF Listening(path) THEN End(d, "refused")
     ELSE Goto(d, "clear") /\ UNCHANGED <<lock, jobs, logging>>
  /\ UNCHANGED <<path, cur, old, nextIds>>

\* remove_file of the stale socket; an error when it is already gone.
ClearStale(d) ==
  /\ pc[d] = "clear"
  /\ IF path = NoDaemon THEN End(d, "dead") /\ UNCHANGED path
     ELSE /\ path' = NoDaemon
          /\ Goto(d, "bind") /\ UNCHANGED <<lock, jobs, logging>>
  /\ UNCHANGED <<cur, old, nextIds>>

\* existing_job_sequence: the highest id with a current log.
ExistingSequence == IF cur = {} THEN 0 ELSE CHOOSE i \in cur : \A k \in cur : k <= i

\* bind_private_listener fails on an existing path; then the ids are seeded.
BindSocket(d) ==
  /\ pc[d] = "bind"
  /\ IF path # NoDaemon THEN End(d, "refused") /\ UNCHANGED <<path, nextIds>>
     ELSE /\ path' = d
          /\ nextIds' = [nextIds EXCEPT ![d] = ExistingSequence]
          /\ Goto(d, "sweep") /\ UNCHANGED <<lock, jobs, logging>>
  /\ UNCHANGED <<cur, old>>

OverCaps == \/ Cardinality(cur \cup old) > OrphanJobs
            \/ Cardinality(cur) + Cardinality(old) > OrphanFiles

\* prune_orphan_logs: both generations of the oldest id, until within the caps.
SweepOldest(d) ==
  /\ pc[d] = "sweep" /\ OverCaps
  /\ cur \cup old # {}
  /\ LET oldest == CHOOSE i \in cur \cup old : \A k \in cur \cup old : i <= k
     IN cur' = cur \ {oldest} /\ old' = old \ {oldest}
  /\ UNCHANGED <<pc, lock, path, nextIds, jobs, logging>>

SweepDone(d) ==
  /\ pc[d] = "sweep" /\ ~(OverCaps /\ cur \cup old # {})
  /\ Goto(d, "serving")
  /\ UNCHANGED <<lock, path, cur, old, nextIds, jobs, logging>>

\* allocate_job_id refuses instead of wrapping (MaxId stands for u64::MAX).
IdLeft(d) == nextIds[d] < MaxId

\* A job is spawned; its pump opens the log in append mode, or cannot.
SpawnJob(d) ==
  /\ pc[d] = "serving" /\ IdLeft(d)
  /\ nextIds' = [nextIds EXCEPT ![d] = @ + 1]
  /\ jobs' = [jobs EXCEPT ![d] = @ \cup {nextIds[d] + 1}]
  /\ \/ /\ cur' = cur \cup {nextIds[d] + 1}
        /\ logging' = [logging EXCEPT ![d] = @ \cup {nextIds[d] + 1}]
     \/ UNCHANGED <<cur, logging>>
  /\ UNCHANGED <<pc, lock, path, old>>

\* rotate_job_log and the reopen; when the reopen fails the log is disabled
\* and only .log.old is left.
RotateLog(d, i) ==
  /\ pc[d] = "serving" /\ i \in logging[d]
  /\ old' = old \cup {i}
  /\ \/ UNCHANGED <<cur, logging>>
     \/ /\ cur' = cur \ {i}
        /\ logging' = [logging EXCEPT ![d] = @ \ {i}]
  /\ UNCHANGED <<pc, lock, path, nextIds, jobs>>

\* The job ends and its record is pruned or removed with its logs; an unlink
\* that fails leaves that file to the next generation's sweep.
RemoveLogs(d, i) ==
  /\ pc[d] = "serving" /\ i \in jobs[d]
  /\ cur' \in {cur, cur \ {i}} /\ old' \in {old, old \ {i}}
  /\ jobs' = [jobs EXCEPT ![d] = @ \ {i}]
  /\ logging' = [logging EXCEPT ![d] = @ \ {i}]
  /\ UNCHANGED <<pc, lock, path, nextIds>>

\* Shutdown request, fatal error or crash, at any point.
DaemonEnds(d) ==
  /\ Alive(d)
  /\ End(d, "dead")
  /\ UNCHANGED <<path, cur, old, nextIds>>

\* The user removes the socket path by hand.
UserUnlinks ==
  /\ path # NoDaemon
  /\ path' = NoDaemon
  /\ UNCHANGED <<pc, lock, cur, old, nextIds, jobs, logging>>

Startup(d) == \/ AcquireLock(d) \/ ProbeSocket(d) \/ ClearStale(d)
              \/ BindSocket(d) \/ SweepOldest(d) \/ SweepDone(d)

GenerationNext ==
  \/ UserUnlinks
  \/ \E d \in Daemons : \/ Launch(d) \/ Startup(d) \/ SpawnJob(d) \/ DaemonEnds(d)
                        \/ \E i \in Ids : RotateLog(d, i) \/ RemoveLogs(d, i)

GenerationSpec == GenerationInit /\ [][GenerationNext]_generationVars

-----------------------------------------------------------------------------
\* Two daemons never both serve, also when the live one's socket path was
\* removed and a second one was started (run: "Hold a separate advisory lock").
OneGeneration ==
  \A d, e \in Daemons : Listening(d) /\ Listening(e) => d = e

\* The log a pump is writing is never deleted under it: the start-up sweep only
\* meets logs of dead generations (prune_orphan_logs).
LiveLogsKept == \A d \in Daemons : logging[d] \subseteq cur

\* A new job never appends to a log an earlier job left behind.
FreshLogs ==
  \A d \in Daemons : pc[d] = "serving" => \A i \in cur : i <= nextIds[d]

\* The three together (daemon.rs, run, prune_orphan_logs, existing_job_sequence).
GenerationsApart == OneGeneration /\ LiveLogsKept /\ FreshLogs
=============================================================================
