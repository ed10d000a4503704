------------------------------ MODULE MCBroker ------------------------------
(***************************************************************************)
(* TLC instance of the broker: the job table with its attach clients, the  *)
(* table alone under concurrent spawns, generations of the daemon on one   *)
(* machine, or one job and its connections.  Of the one job two questions  *)
(* are asked: two connections race over it while its log works, or one     *)
(* connection watches it write more, through rotations, to a log whose     *)
(* every operation may fail.  The variables a behaviour is not about keep  *)
(* an initial value.  Clients, which are the connections of the one job    *)
(* too, are interchangeable, and so are daemons, which are numbered in the *)
(* order they start.                                                       *)
(***************************************************************************)
EXTENDS Broker, BrokerGeneration, KeptJob, TLC

VARIABLE which   \* "table", "crowd", "daemons", "race" or "log"

\* Bounds of the table with clients: jobs, and one spawner.  A spawn that fails is
\* not part of it.
TableJobs == 2
Attaching ==
  /\ nextId' <= TableJobs
  /\ \A w \in Spawners : /\ spawnPc'[w] # "idle" => w = 11
                         /\ spawnPc'[w] # "drop" /\ (spawnPc[w] = "setup" => spawnPc'[w] # "idle")
  /\ ~pruning'.failed

\* The daemons start in the order of their numbers.
InOrder == \A d, e \in Daemons : d < e /\ pc'[e] # "off" => pc'[d] # "off"

\* The table alone: no client attaches.
Crowding == UNCHANGED clientVars

\* Bounds of the race: output bytes.  A failed log operation is not part of it.
RaceWritten == 2
Racing ==
  /\ written' <= RaceWritten
  /\ log'.open /\ (runState # "exited" /\ runState' = "exited" => log' # log)

\* Bounds of the other: connections and attachments.  Nobody sends input.
Logging ==
  /\ Cardinality({c \in Clients : connPc'[c] # "idle"}) <= 1
  /\ attachGen' <= 1 /\ UNCHANGED sent

MCInit == /\ BrokerInit /\ GenerationInit /\ Init
          /\ which \in {"table", "crowd", "daemons", "race", "log"}
          /\ which # "log" => log.open
          /\ which \notin {"race", "log"} => ~bg
MCNext ==
  \/ which = "table" /\ BrokerNext /\ Attaching /\ UNCHANGED <<which, generationVars, vars>>
  \/ which = "crowd" /\ BrokerNext /\ Crowding /\ UNCHANGED <<which, generationVars, vars>>
  \/ which = "daemons" /\ GenerationNext /\ InOrder /\ UNCHANGED <<which, brokerVars, vars>>
  \/ which = "race" /\ Next /\ Racing /\ UNCHANGED <<which, brokerVars, generationVars>>
  \/ which = "log" /\ Next /\ Logging /\ UNCHANGED <<which, brokerVars, generationVars>>
MCSpec == MCInit /\ [][MCNext]_<<which, brokerVars, generationVars, vars>>

ClientSymmetry == Permutations(Clients)
=============================================================================
