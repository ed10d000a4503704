------------------------------- MODULE Broker -------------------------------
(***************************************************************************)
(* The control plane of the broker daemon (crates/agsh-broker/src):        *)
(* spawning and publishing jobs, the running-job ceiling, pruning of       *)
(* finished records, and how an attach client learns how its stream ended  *)
(* (daemon.rs, client.rs, attach.rs).                                      *)
(*                                                                         *)
(* The bytes of a job, its state lock and its PTY are KeptJob's business;  *)
(* here a job is the phase its pump has reached.  The job table's mutex is *)
(* held for a whole prune (many steps: job states change meanwhile), and   *)
(* for single actions elsewhere.  The exit code of job j is j, so that a   *)
(* status that belongs to another job is visible.                          *)
(***************************************************************************)
EXTENDS Integers, Sequences, FiniteSets

CONSTANTS
  MaxJobs,      \* bound: job ids allocated during the behaviour
  Spawners,     \* connection workers serving Spawn requests
  Clients,      \* attach clients, one attach each
  NoClient,     \* not a client
  FinishedCap,  \* FINISHED_CAP
  MaxRunning,   \* MAX_RUNNING_JOBS
  PendingCap,   \* PENDING_ATTACH_EXIT_CAP
  UnlinkMayFail \* whether removing a job's logs can fail

ASSUME BrokerAssumption ==
  /\ MaxJobs \in Nat /\ FinishedCap \in Nat
  /\ MaxRunning \in Nat /\ PendingCap \in Nat \ {0}
  /\ NoClient \notin Clients
  /\ Spawners \cap (0..MaxJobs) = {}
  /\ UnlinkMayFail \in BOOLEAN

Jobs == 1..MaxJobs

VARIABLES
  nextId,     \* Broker.next_id
  slots,      \* Broker.running_jobs
  table,      \* Broker.jobs, in spawn order
  pruning,    \* the prune in progress under the table lock, or NoPrune
  pending,    \* Broker.pending_attach_exits
  evicted,    \* history: keys dropped from pending to make room
  spawnPc,    \* per spawner: where Broker::spawn is
  spawnJob,   \* per spawner: the job it is setting up, 0 for none
  childOf,    \* per job: "none", "alive", "gone" (exited and reaped)
  phase,      \* per job: "none", or RunState
  pump,       \* per job: where the pump thread is
  holder,     \* per job: the client in the attach slot
  slotGen,    \* per job: Output.attach_gen
  taken,      \* per job: the client whose stream the exit took
  client,     \* per client: [pc, job, token, outcome, code]
  workerPc    \* per client: where its attach worker is in the daemon

tableVars  == <<nextId, slots, table, pruning>>
exitVars   == <<pending, evicted>>
spawnVars  == <<spawnPc, spawnJob>>
recordVars == <<childOf, phase, pump, holder, slotGen, taken>>
clientVars == <<client, workerPc>>
brokerVars == <<tableVars, exitVars, spawnVars, recordVars, clientVars>>

NoPrune == [by |-> 0, left |-> 0, failed |-> FALSE]
Locked == pruning # NoPrune
InTable(j) == \E i \in 1..Len(table) : table[i] = j
Finished(j) == phase[j] = "exited"
FinishedInTable == {i \in 1..Len(table) : Finished(table[i])}
Without(seq, i) == SubSeq(seq, 1, i - 1) \o SubSeq(seq, i + 1, Len(seq))
First(S) == CHOOSE i \in S : \A k \in S : i <= k

BrokerInit ==
  /\ nextId = 0 /\ slots = 0 /\ table = << >> /\ pruning = NoPrune
  /\ pending = << >> /\ evicted = {}
  /\ spawnPc = [w \in Spawners |-> "idle"]
  /\ spawnJob = [w \in Spawners |-> 0]
  /\ childOf = [j \in Jobs |-> "none"]
  /\ phase = [j \in Jobs |-> "none"]
  /\ pump = [j \in Jobs |-> "none"]
  /\ holder = [j \in Jobs |-> NoClient]
  /\ slotGen = [j \in Jobs |-> 0]
  /\ taken = [j \in Jobs |-> NoClient]
  /\ client = [c \in Clients |-> [pc |-> "idle", job |-> 0, token |-> 0,
                                  outcome |-> "none", code |-> 0]]
  /\ workerPc = [c \in Clients |-> "none"]

(***************************************************************************)
(* prune_finished: count the excess, then drop the first finished record   *)
(* that many times.  Jobs may exit in between; the table cannot change.    *)
(***************************************************************************)
Excess == IF Cardinality(FinishedInTable) > FinishedCap
          THEN Cardinality(FinishedInTable) - FinishedCap ELSE 0

BeginPrune(who) ==
  /\ ~Locked
  /\ pruning' = [by |-> who, left |-> Excess, failed |-> FALSE]

\* cleanup may fail; the record goes all the same and the error is kept.
PruneRecord ==
  /\ Locked /\ pruning.left > 0
  /\ table' = Without(table, First(FinishedInTable))
  /\ \E failed \in IF UnlinkMayFail THEN BOOLEAN ELSE {FALSE} :
       pruning' = [pruning EXCEPT !.left = @ - 1, !.failed = @ \/ failed]
  /\ UNCHANGED <<nextId, slots, exitVars, spawnVars, recordVars, clientVars>>

\* Release the table.  A spawn whose prune failed is refused; a pump thread
\* only logs the error and ends.
PruneEnd ==
  /\ Locked /\ pruning.left = 0
  /\ pruning' = NoPrune
  /\ \/ /\ pruning.by \in Spawners
        /\ spawnPc' = [spawnPc EXCEPT ![pruning.by] =
                         IF pruning.failed THEN "idle" ELSE "reserve"]
        /\ UNCHANGED pump
     \/ /\ pruning.by \in Jobs
        /\ pump' = [pump EXCEPT ![pruning.by] = "done"]
        /\ UNCHANGED spawnPc
  /\ UNCHANGED <<nextId, slots, table, exitVars, spawnJob, childOf, phase, holder,
                 slotGen, taken, clientVars>>

(***************************************************************************)
(* Broker::spawn.                                                          *)
(***************************************************************************)
SpawnPrune(w) ==
  /\ spawnPc[w] = "idle"
  /\ BeginPrune(w)
  /\ spawnPc' = [spawnPc EXCEPT ![w] = "prune"]
  /\ UNCHANGED <<nextId, slots, table, exitVars, spawnJob, recordVars, clientVars>>

\* reserve_running_job: compare-and-increment below the ceiling.
SlotFreeMutant == slots <= MaxRunning
SlotFree == slots < MaxRunning

SpawnReserve(w) ==
  /\ spawnPc[w] = "reserve"
  /\ IF SlotFree
     THEN slots' = slots + 1 /\ spawnPc' = [spawnPc EXCEPT ![w] = "setup"]
     ELSE UNCHANGED slots /\ spawnPc' = [spawnPc EXCEPT ![w] = "idle"]
  /\ UNCHANGED <<nextId, table, pruning, exitVars, spawnJob, recordVars, clientVars>>

\* PTY, id, log directory and child are all in place.
SpawnSetup(w) ==
  /\ spawnPc[w] = "setup"
  /\ nextId < MaxJobs
  /\ nextId' = nextId + 1
  /\ spawnJob' = [spawnJob EXCEPT ![w] = nextId + 1]
  /\ childOf' = [childOf EXCEPT ![nextId + 1] = "alive"]
  /\ spawnPc' = [spawnPc EXCEPT ![w] = "publish"]
  /\ UNCHANGED <<slots, table, pruning, exitVars, phase, pump, holder, slotGen,
                 taken, clientVars>>

\* Some setup call failed, before or after the id was allocated: the slot
\* guard is dropped.
SpawnSetupFails(w) ==
  /\ spawnPc[w] = "setup"
  /\ slots' = slots - 1
  /\ nextId' \in {nextId, IF nextId < MaxJobs THEN nextId + 1 ELSE nextId}
  /\ spawnPc' = [spawnPc EXCEPT ![w] = "idle"]
  /\ UNCHANGED <<table, pruning, exitVars, spawnJob, recordVars, clientVars>>

\* Under the table lock: start the pump thread and list the job.
SpawnPublish(w) ==
  /\ spawnPc[w] = "publish"
  /\ ~Locked
  /\ table' = Append(table, spawnJob[w])
  /\ phase' = [phase EXCEPT ![spawnJob[w]] = "running"]
  /\ pump' = [pump EXCEPT ![spawnJob[w]] = "run"]
  /\ spawnPc' = [spawnPc EXCEPT ![w] = "idle"]
  /\ spawnJob' = [spawnJob EXCEPT ![w] = 0]
  /\ UNCHANGED <<nextId, slots, pruning, exitVars, childOf, holder, slotGen, taken,
                 clientVars>>

\* The pump thread cannot be started: its closure drops the slot first, then
\* ReapOnDropChild kills and reaps the child.
SpawnThreadFails(w) ==
  /\ spawnPc[w] = "publish"
  /\ ~Locked
  /\ slots' = slots - 1
  /\ spawnPc' = [spawnPc EXCEPT ![w] = "drop"]
  /\ UNCHANGED <<nextId, table, pruning, exitVars, spawnJob, recordVars, clientVars>>

ReapOnDrop(j) == [childOf EXCEPT ![j] = "gone"]

SpawnDrop(w) ==
  /\ spawnPc[w] = "drop"
  /\ childOf' = ReapOnDrop(spawnJob[w])
  /\ spawnPc' = [spawnPc EXCEPT ![w] = "idle"]
  /\ spawnJob' = [spawnJob EXCEPT ![w] = 0]
  /\ UNCHANGED <<tableVars, exitVars, phase, pump, holder, slotGen, taken,
                 clientVars>>

(***************************************************************************)
(* The pump thread of job j, from the reap on.                             *)
(***************************************************************************)

\* The child has exited and try_wait reaps it.
ReapJob(j) ==
  /\ pump[j] = "run" /\ phase[j] = "running"
  /\ childOf' = [childOf EXCEPT ![j] = "gone"]
  /\ phase' = [phase EXCEPT ![j] = "finishing"]
  /\ UNCHANGED <<tableVars, exitVars, spawnVars, pump, holder, slotGen, taken,
                 clientVars>>

\* With an attachment taken, its terminal status is remembered before the
\* stream is hung up.
AfterPublish(j) == IF holder[j] = NoClient THEN "return" ELSE "remember"

\* publish_exit_and_take_attachment.
PublishExit(j) ==
  /\ pump[j] = "run" /\ phase[j] = "finishing"
  /\ phase' = [phase EXCEPT ![j] = "exited"]
  /\ taken' = [taken EXCEPT ![j] = holder[j]]
  /\ holder' = [holder EXCEPT ![j] = NoClient]
  /\ pump' = [pump EXCEPT ![j] = AfterPublish(j)]
  /\ UNCHANGED <<tableVars, exitVars, spawnVars, childOf, slotGen, clientVars>>

\* Where the key (id, token) is in pending, and pending without its first entry.
SameKeyMutant(entry, id, token) == entry.token = token
SameKey(entry, id, token) == entry.id = id /\ entry.token = token
Keyed(id, token) == {i \in 1..Len(pending) : SameKey(pending[i], id, token)}
Unkeyed(id, token) ==
  IF Keyed(id, token) = {} THEN pending ELSE Without(pending, First(Keyed(id, token)))

\* remember_attached_exit: replace the key, evict the oldest beyond the cap.
PumpRemember(j) ==
  LET token == client[taken[j]].token
      kept == Unkeyed(j, token)
      room == IF Len(kept) >= PendingCap THEN Len(kept) - PendingCap + 1 ELSE 0
  IN /\ pump[j] = "remember"
     /\ pending' = Append(SubSeq(kept, room + 1, Len(kept)),
                          [id |-> j, token |-> token, code |-> j])
     /\ evicted' = evicted \cup {<<kept[i].id, kept[i].token>> : i \in 1..room}
     /\ pump' = [pump EXCEPT ![j] = "notify"]
     /\ UNCHANGED <<tableVars, spawnVars, childOf, phase, holder, slotGen, taken,
                    clientVars>>

\* c's stream ends, unless the client has already left it.
HangUp(c) == [client EXCEPT ![c].pc = IF @ = "attached" THEN "eof" ELSE @]
HangUpHolder(j) == IF holder[j] = NoClient THEN client ELSE HangUp(holder[j])

NotifyHolder(j) ==
  /\ pump[j] = "notify"
  /\ client' = HangUp(taken[j])
  /\ pump' = [pump EXCEPT ![j] = "return"]
  /\ UNCHANGED <<tableVars, exitVars, spawnVars, childOf, phase, holder, slotGen,
                 taken, workerPc>>

\* pump_job returns: the running slot is free.
PumpReturn(j) ==
  /\ pump[j] = "return"
  /\ slots' = slots - 1
  /\ pump' = [pump EXCEPT ![j] = "prune"]
  /\ UNCHANGED <<nextId, table, pruning, exitVars, spawnVars, childOf, phase, holder,
                 slotGen, taken, clientVars>>

PumpPrune(j) ==
  /\ pump[j] = "prune"
  /\ BeginPrune(j)
  /\ pump' = [pump EXCEPT ![j] = "pruning"]
  /\ UNCHANGED <<nextId, slots, table, exitVars, spawnVars, childOf, phase, holder,
                 slotGen, taken, clientVars>>

(***************************************************************************)
(* keep rm: remove_finished.                                               *)
(***************************************************************************)
MayRemove(j) == Finished(j)

\* The record stays when a log cannot be removed, so only success is a step.
Remove(j) ==
  /\ ~Locked
  /\ InTable(j) /\ MayRemove(j)
  /\ table' = Without(table, First({i \in 1..Len(table) : table[i] = j}))
  /\ UNCHANGED <<nextId, slots, pruning, exitVars, spawnVars, recordVars, clientVars>>

(***************************************************************************)
(* Attach, as seen by the client: attach_conn and attach_interactive.      *)
(***************************************************************************)
Attach(c, j) ==
  /\ client[c].pc = "idle"
  /\ ~Locked /\ InTable(j) /\ phase[j] = "running"
  /\ slotGen' = [slotGen EXCEPT ![j] = @ + 1]
  /\ holder' = [holder EXCEPT ![j] = c]
  /\ client' = [HangUpHolder(j) EXCEPT ![c] = [pc |-> "attached", job |-> j,
                                          token |-> slotGen[j] + 1,
                                          outcome |-> "none", code |-> 0]]
  /\ workerPc' = [workerPc EXCEPT ![c] = "pump"]
  /\ UNCHANGED <<tableVars, exitVars, spawnVars, childOf, phase, pump, taken>>

\* The replay after the handshake fails: the client has its token and an ended
\* stream, the slot is empty and the generation was not used up.
AttachReplayFails(c, j) ==
  /\ client[c].pc = "idle"
  /\ ~Locked /\ InTable(j) /\ phase[j] = "running"
  /\ holder' = [holder EXCEPT ![j] = NoClient]
  /\ client' = [HangUpHolder(j) EXCEPT ![c] = [pc |-> "eof", job |-> j,
                                          token |-> slotGen[j] + 1,
                                          outcome |-> "none", code |-> 0]]
  /\ workerPc' = [workerPc EXCEPT ![c] = "done"]
  /\ UNCHANGED <<tableVars, exitVars, spawnVars, childOf, phase, pump, slotGen, taken>>

\* How the client's attach ended.
Settle(c, outcome, code) ==
  client' = [client EXCEPT ![c].pc = "done", ![c].outcome = outcome, ![c].code = code]

\* No such job, no longer running, or the handshake never arrived.
AttachRefusal(c, j) ==
  /\ client[c].pc = "idle"
  /\ ~Locked
  /\ \/ /\ ~InTable(j) \/ phase[j] # "running"
        /\ Settle(c, "error", 0)
        /\ UNCHANGED holder
     \/ /\ InTable(j) /\ phase[j] = "running"
        /\ holder' = [holder EXCEPT ![j] = NoClient]
        /\ client' = [HangUpHolder(j) EXCEPT ![c].pc = "done", ![c].outcome = "error"]
  /\ UNCHANGED <<tableVars, exitVars, spawnVars, childOf, phase, pump, slotGen, taken,
                 workerPc>>

\* A write to the holder timed out (push_and_forward), or its input did: the
\* daemon lets go of it while the job goes on.
DropHolder(j) ==
  /\ holder[j] # NoClient
  /\ holder' = [holder EXCEPT ![j] = NoClient]
  /\ client' = HangUpHolder(j)
  /\ UNCHANGED <<tableVars, exitVars, spawnVars, childOf, phase, pump, slotGen, taken,
                 workerPc>>

\* The detach key, or the local terminal is gone.
ClientDetach(c) ==
  /\ client[c].pc = "attached"
  /\ Settle(c, "detached", 0)
  /\ UNCHANGED <<tableVars, exitVars, spawnVars, recordVars, workerPc>>

\* The attach worker sees the end of its stream and clears its own slot.
WorkerDetach(c) ==
  /\ workerPc[c] = "pump" /\ client[c].pc # "attached"
  /\ holder' = [holder EXCEPT ![client[c].job] = IF @ = c THEN NoClient ELSE @]
  /\ workerPc' = [workerPc EXCEPT ![c] = "check"]
  /\ UNCHANGED <<tableVars, exitVars, spawnVars, childOf, phase, pump, slotGen, taken,
                 client>>

WorkerCheck(c) ==
  /\ workerPc[c] = "check"
  /\ workerPc' = [workerPc EXCEPT ![c] =
                    IF Finished(client[c].job) THEN "done" ELSE "discard"]
  /\ UNCHANGED <<tableVars, exitVars, spawnVars, recordVars, client>>

\* discard_attached_exit, with the state read a step earlier.
WorkerDiscard(c) ==
  /\ workerPc[c] = "discard"
  /\ pending' = Unkeyed(client[c].job, client[c].token)
  /\ workerPc' = [workerPc EXCEPT ![c] = "done"]
  /\ UNCHANGED <<tableVars, evicted, spawnVars, recordVars, client>>

\* classify_stream_end asks for the status; Broker::status first takes the
\* token's pending exit ...
StatusTake(c) ==
  LET found == Keyed(client[c].job, client[c].token)
  IN /\ client[c].pc = "eof"
     /\ IF found # {}
        THEN /\ pending' = Unkeyed(client[c].job, client[c].token)
             /\ Settle(c, "exited", pending[First(found)].code)
        ELSE /\ client' = [client EXCEPT ![c].pc = "find"]
             /\ UNCHANGED pending
     /\ UNCHANGED <<tableVars, evicted, spawnVars, recordVars, workerPc>>

\* ... and otherwise looks the job up in the table.
StatusFind(c) ==
  LET j == client[c].job IN
  /\ client[c].pc = "find"
  /\ ~Locked
  /\ IF ~InTable(j) THEN Settle(c, "error", 0)
     ELSE IF Finished(j) THEN Settle(c, "exited", j)
     ELSE Settle(c, "takenover", 0)
  /\ UNCHANGED <<tableVars, exitVars, spawnVars, recordVars, workerPc>>

-----------------------------------------------------------------------------
Spawn(w) == \/ SpawnPrune(w) \/ SpawnReserve(w) \/ SpawnSetup(w) \/ SpawnSetupFails(w)
            \/ SpawnPublish(w) \/ SpawnThreadFails(w) \/ SpawnDrop(w)

PumpEnd(j) == \/ PublishExit(j) \/ PumpRemember(j) \/ NotifyHolder(j)
              \/ PumpReturn(j) \/ PumpPrune(j)

Prune == PruneRecord \/ PruneEnd

ClientWorker(c) == WorkerDetach(c) \/ WorkerCheck(c) \/ WorkerDiscard(c)
Status(c) == StatusTake(c) \/ StatusFind(c)

BrokerNext ==
  \/ Prune
  \/ \E w \in Spawners : Spawn(w)
  \/ \E j \in Jobs : ReapJob(j) \/ PumpEnd(j) \/ Remove(j) \/ DropHolder(j)
  \/ \E c \in Clients : ClientWorker(c) \/ Status(c) \/ ClientDetach(c)
  \/ \E c \in Clients, j \in Jobs :
       Attach(c, j) \/ AttachReplayFails(c, j) \/ AttachRefusal(c, j)

BrokerSpec == BrokerInit /\ [][BrokerNext]_brokerVars

-----------------------------------------------------------------------------
\* An attach client that reports an exit reports its own job's exit code: no
\* token, eviction or pruning makes it someone else's (attach.rs
\* classify_stream_end, "authoritatively reported").
ExitStatusTrue ==
  \A c \in Clients : client[c].outcome = "exited" => client[c].code = client[c].job

\* The client whose stream the exit took learns the status even when the record
\* is pruned at once; only an eviction from the bounded cache, or a client that
\* was given the same token by a failed replay, can cost it the status.
ExitReachesHolder ==
  \A c \in Clients :
    LET j == client[c].job IN
      client[c].outcome = "error" /\ j # 0 /\ taken[j] = c
      => \/ <<j, client[c].token>> \in evicted
         \/ \E d \in Clients \ {c} : client[d].job = j /\ client[d].token = client[c].token

\* Finished records never exceed the cap by more than the pump threads that
\* have published an exit and still owe a prune ("only the newest 20 finished
\* records remain"), and listed jobs that have not exited never outnumber
\* MAX_RUNNING_JOBS ("a hard daemon-wide ceiling"), however spawns, failures,
\* prunes and exits interleave.
TableBounded ==
  /\ Cardinality(FinishedInTable)
       <= FinishedCap + Cardinality({j \in Jobs : Finished(j) /\ pump[j] # "done"})
  /\ Cardinality({i \in 1..Len(table) : ~Finished(table[i])}) <= MaxRunning

\* Every child alive has the thread that will reap it: its pump, or the spawner
\* that drops it when the job could not be published (ReapOnDropChild); and the
\* running slots taken are exactly those of the spawners and pumps that still
\* owe theirs, each given back once on every path of spawn and pump_job.
ChildrenOwned ==
  /\ \A j \in Jobs : childOf[j] = "alive" =>
       \/ pump[j] = "run" /\ InTable(j)
       \/ \E w \in Spawners : spawnJob[w] = j /\ spawnPc[w] \in {"publish", "drop"}
  /\ slots = Cardinality({w \in Spawners : spawnPc[w] \in {"setup", "publish"}})
             + Cardinality({j \in Jobs : pump[j] \in {"run", "remember", "notify", "return"}})

\* Both together: the table stays within its bounds and every child and running
\* slot has its owner, however spawns, failures, exits, prunes and removals
\* interleave (daemon.rs, spawn, pump_job, prune_finished, remove_finished).
TableOwned == TableBounded /\ ChildrenOwned

\* What an attach client is told of its job's exit is true, and the client whose
\* stream the exit took is told although the record is pruned at once (attach.rs,
\* classify_stream_end; daemon.rs, remember_attached_exit).
ExitLearned == ExitStatusTrue /\ ExitReachesHolder
=============================================================================
