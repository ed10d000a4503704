---------------------------- MODULE BrokerProofs ----------------------------
(***************************************************************************)
(* TableOwned and ExitLearned of Broker for any number of jobs, spawners   *)
(* and clients: the bounds of the job table, the owner of every child and  *)
(* every slot, and what an attach client is told of its job's exit; and    *)
(* GenerationsApart of BrokerGeneration for any number of daemons, of job  *)
(* ids and any size of the orphan window.                                  *)
(*                                                                         *)
(* The table holds no job twice, so its records are counted as jobs.  The  *)
(* bound on finished records is kept by counting whose prune is still to   *)
(* come (PruneOK): a prune in progress takes what it counted at its start, *)
(* and whoever exits meanwhile owes one of his own.                        *)
(*                                                                         *)
(* A client whose stream an exit took is followed until it has asked: its  *)
(* status is still to be remembered, is remembered under its key, or is    *)
(* lost to an eviction or to a client with the same token (TakenOK).       *)
(*                                                                         *)
(* Generations of the daemon keep apart by the generation lock: past       *)
(* acquire_generation_lock a daemon holds it until its process ends, so    *)
(* the sweep of one daemon runs while no other has a job, and the seed it  *)
(* read from the log directory stays an upper bound.                       *)
(***************************************************************************)
EXTENDS Broker, BrokerGeneration, FiniteSetTheorems, FunctionTheorems, SequenceTheorems,
        WellFoundedInduction, TLAPS

SpawnerPcs == {"idle", "prune", "reserve", "setup", "publish", "drop"}
PumpPcs == {"none", "run", "remember", "notify", "return", "prune", "pruning", "done"}
Holding == {"setup", "publish"}
Owing == {"run", "remember", "notify", "return"}

In(t, j) == \E i \in 1..Len(t) : t[i] = j
Distinct(t) == \A i, k \in 1..Len(t) : t[i] = t[k] => i = k

\* The finished records, the exited jobs whose pump still owes a prune, and the
\* spawners and pumps that hold a running slot.
FinishedJobs == {j \in Jobs : In(table, j) /\ phase[j] = "exited"}
OwePrune == {j \in Jobs : phase[j] = "exited" /\ pump[j] # "done"}
SlotSpawners == {w \in Spawners : spawnPc[w] \in Holding}
SlotPumps == {j \in Jobs : pump[j] \in Owing}

TypesOK ==
  /\ nextId \in 0..MaxJobs /\ slots \in Int
  /\ table \in Seq(Jobs) /\ Distinct(table)
  /\ pruning \in [by : Spawners \cup Jobs \cup {0}, left : Nat, failed : BOOLEAN]
  /\ spawnPc \in [Spawners -> SpawnerPcs] /\ spawnJob \in [Spawners -> 0..MaxJobs]
  /\ childOf \in [Jobs -> {"none", "alive", "gone"}]
  /\ phase \in [Jobs -> {"none", "running", "finishing", "exited"}]
  /\ pump \in [Jobs -> PumpPcs]

\* A job from its setup to its exit.
JobOK(j) ==
  /\ j > nextId => phase[j] = "none" /\ childOf[j] = "none"
  /\ In(table, j) => phase[j] # "none"
  /\ phase[j] = "none" <=> pump[j] = "none"
  /\ phase[j] \in {"running", "finishing"} <=> pump[j] = "run"
  /\ pump[j] = "run" => In(table, j)
  /\ childOf[j] = "alive" => phase[j] \in {"none", "running"}
  /\ childOf[j] = "alive" /\ phase[j] = "none" =>
       \E w \in Spawners : spawnJob[w] = j /\ spawnPc[w] \in {"publish", "drop"}

\* A job set up and not yet published or dropped belongs to one spawner.
SpawnerOK(w) ==
  spawnPc[w] \in {"publish", "drop"} =>
    /\ spawnJob[w] \in 1..nextId /\ phase[spawnJob[w]] = "none"
    /\ \A v \in Spawners : spawnPc[v] \in {"publish", "drop"} /\ spawnJob[v] = spawnJob[w] => v = w

\* Slots held and given back.
SlotsOK ==
  /\ IsFiniteSet(SlotSpawners)
  /\ slots = Cardinality(SlotSpawners) + Cardinality(SlotPumps)
  /\ slots <= MaxRunning

\* A prune leaves no more than the cap, and those whose own prune is still to come.
PruneOK ==
  /\ Cardinality(FinishedJobs) <= FinishedCap + Cardinality(OwePrune)
  /\ Locked =>
       /\ pruning.by \in Spawners \cup Jobs
       /\ pruning.by \in Spawners => spawnPc[pruning.by] = "prune"
       /\ pruning.by \in Jobs => pump[pruning.by] = "pruning"
       /\ pruning.left <= Cardinality(FinishedJobs)
       /\ Cardinality(FinishedJobs) <=
            FinishedCap + pruning.left + Cardinality(OwePrune \ {pruning.by})

TableInv ==
  /\ TypesOK /\ SlotsOK /\ PruneOK
  /\ \A j \in Jobs : JobOK(j)
  /\ \A w \in Spawners : SpawnerOK(w)

-----------------------------------------------------------------------------
(* Sequences without duplicates, and finite sets *)

\* A non-empty set of naturals has a least element.
LEMMA LeastNatural ==
  ASSUME NEW T \in SUBSET Nat, T # {}
  PROVE  \E x \in T : \A y \in T : x <= y
<1>1. \E x \in T : \A y \in T : ~(<<y, x>> \in OpToRel(<, Nat))
  BY NatLessThanWellFounded, WFMin, Zenon
<1>2. \A x \in T, y \in T : y < x => <<y, x>> \in OpToRel(<, Nat)
  BY DEF OpToRel
<1>3. PICK x \in T : \A y \in T : ~(<<y, x>> \in OpToRel(<, Nat)) BY <1>1, Zenon
<1>4. \A y \in T : ~(y < x) BY <1>2, <1>3, Zenon
<1>5. \A y \in T : x <= y BY <1>4
<1> QED BY <1>5

\* A set of positions has a first one.
LEMMA FirstExists ==
  ASSUME NEW S \in SUBSET Nat, S # {}
  PROVE  First(S) \in S
BY LeastNatural DEF First

\* A sequence without its i-th element.
LEMMA WithoutFacts ==
  ASSUME NEW S, NEW t \in Seq(S), NEW i \in 1..Len(t)
  PROVE  /\ Without(t, i) \in Seq(S) /\ Len(Without(t, i)) = Len(t) - 1
         /\ \A k \in 1..(Len(t) - 1) : Without(t, i)[k] = IF k < i THEN t[k] ELSE t[k + 1]
<1> DEFINE l == Len(t)
           a == SubSeq(t, 1, i - 1)
           b == SubSeq(t, i + 1, l)
<1>1. l \in Nat /\ i \in Nat /\ 1 <= i /\ i <= l OBVIOUS
<1>2. /\ a \in Seq(S) /\ Len(a) = i - 1 /\ \A k \in 1..(i - 1) : a[k] = t[k]
  OBVIOUS
<1>3. /\ b \in Seq(S) /\ Len(b) = l - i /\ \A k \in 1..(l - i) : b[k] = t[i + k]
  OBVIOUS
<1>4. Without(t, i) = a \o b BY DEF Without
<1> HIDE DEF a, b, l
<1>5. /\ a \o b \in Seq(S) /\ Len(a \o b) = Len(a) + Len(b)
      /\ \A k \in 1..(Len(a) + Len(b)) : (a \o b)[k] = IF k <= Len(a) THEN a[k] ELSE b[k - Len(a)]
  BY <1>2, <1>3, ConcatProperties
<1>6. \A k \in 1..(l - 1) : (a \o b)[k] = IF k < i THEN t[k] ELSE t[k + 1]
  <2> TAKE k \in 1..(l - 1)
  <2>1. CASE k < i
    <3>1. k <= Len(a) /\ k \in 1..(i - 1) /\ k \in 1..(Len(a) + Len(b)) BY <1>1, <1>2, <1>3, <2>1
    <3> QED BY <1>2, <1>5, <2>1, <3>1
  <2>2. CASE ~(k < i)
    <3>1. /\ ~(k <= Len(a)) /\ k - Len(a) \in 1..(l - i) /\ i + (k - Len(a)) = k + 1
          /\ k \in 1..(Len(a) + Len(b))
      BY <1>1, <1>2, <1>3, <2>2
    <3> QED BY <1>3, <1>5, <2>2, <3>1
  <2> QED BY <2>1, <2>2
<1>7. Len(a \o b) = l - 1 BY <1>1, <1>2, <1>3, <1>5
<1> QED BY <1>4, <1>5, <1>6, <1>7 DEF l

\* What is left in a table without its i-th record.
LEMMA WithoutTable ==
  ASSUME NEW S, NEW t \in Seq(S), Distinct(t), NEW i \in 1..Len(t)
  PROVE  /\ Without(t, i) \in Seq(S) /\ Distinct(Without(t, i))
         /\ \A j : In(Without(t, i), j) <=> In(t, j) /\ j # t[i]
<1> DEFINE u == Without(t, i)
           l == Len(t)
<1>1. /\ u \in Seq(S) /\ Len(u) = l - 1
      /\ \A k \in 1..(l - 1) : u[k] = IF k < i THEN t[k] ELSE t[k + 1]
  BY WithoutFacts
<1>2. l \in Nat /\ i \in 1..l OBVIOUS
<1>3. \A k, m \in 1..l : t[k] = t[m] => k = m BY DEF Distinct
<1> HIDE DEF u, l
<1>4. Distinct(u)
  <2> SUFFICES ASSUME NEW k \in 1..(l - 1), NEW m \in 1..(l - 1), u[k] = u[m] PROVE k = m
    BY <1>1 DEF Distinct
  <2>1. k \in 1..l /\ m \in 1..l /\ k + 1 \in 1..l /\ m + 1 \in 1..l BY <1>2
  <2>2. u[k] = (IF k < i THEN t[k] ELSE t[k + 1]) /\ u[m] = (IF m < i THEN t[m] ELSE t[m + 1])
    BY <1>1
  <2>3. CASE k < i /\ m < i BY <1>3, <2>1, <2>2, <2>3
  <2>4. CASE ~(k < i) /\ ~(m < i)
    <3>1. k + 1 = m + 1 BY <1>3, <2>1, <2>2, <2>4
    <3> QED BY <1>2, <3>1
  <2>5. CASE k < i /\ ~(m < i)
    <3>1. k = m + 1 BY <1>3, <2>1, <2>2, <2>5
    <3> QED BY <1>2, <2>5, <3>1
  <2>6. CASE ~(k < i) /\ m < i
    <3>1. k + 1 = m BY <1>3, <2>1, <2>2, <2>6
    <3> QED BY <1>2, <2>6, <3>1
  <2> QED BY <2>3, <2>4, <2>5, <2>6
<1>5. ASSUME NEW j, In(u, j) PROVE In(t, j) /\ j # t[i]
  <2>1. PICK k \in 1..(l - 1) : u[k] = j BY <1>1, <1>5 DEF In
  <2>2. k \in 1..l /\ k + 1 \in 1..l BY <1>2
  <2>3. CASE k < i
    <3>1. t[k] = j /\ k # i BY <1>1, <1>2, <2>1, <2>3
    <3> QED BY <1>2, <1>3, <2>2, <3>1 DEF In, l
  <2>4. CASE ~(k < i)
    <3>1. t[k + 1] = j /\ k + 1 # i BY <1>1, <1>2, <2>1, <2>4
    <3> QED BY <1>2, <1>3, <2>2, <3>1 DEF In, l
  <2> QED BY <2>3, <2>4
<1>6. ASSUME NEW j, In(t, j), j # t[i] PROVE In(u, j)
  <2>1. PICK k \in 1..l : t[k] = j BY <1>6 DEF In, l
  <2>2. k # i BY <1>6, <2>1
  <2>3. CASE k < i
    <3>1. k \in 1..(l - 1) /\ u[k] = j BY <1>1, <1>2, <2>1, <2>3
    <3> QED BY <1>1, <3>1 DEF In
  <2>4. CASE ~(k < i)
    <3> DEFINE m == k - 1
    <3>1. m \in 1..(l - 1) /\ ~(m < i) /\ m + 1 = k BY <1>2, <2>1, <2>2, <2>4
    <3> HIDE DEF m
    <3>2. u[m] = j BY <1>1, <2>1, <3>1
    <3> QED BY <1>1, <3>1, <3>2 DEF In
  <2> QED BY <2>3, <2>4
<1> QED BY <1>1, <1>4, <1>5, <1>6 DEF u

\* A table with a new record.
LEMMA AppendTable ==
  ASSUME NEW S, NEW t \in Seq(S), Distinct(t), NEW e \in S, ~In(t, e)
  PROVE  /\ Append(t, e) \in Seq(S) /\ Distinct(Append(t, e))
         /\ \A j : In(Append(t, e), j) <=> In(t, j) \/ j = e
<1> DEFINE u == Append(t, e)
           l == Len(t)
<1>1. /\ u \in Seq(S) /\ Len(u) = l + 1 /\ u[l + 1] = e
      /\ \A k \in 1..l : u[k] = t[k]
  OBVIOUS
<1>2. l \in Nat OBVIOUS
<1>3. \A k, m \in 1..l : t[k] = t[m] => k = m BY DEF Distinct
<1>4. \A k \in 1..l : t[k] # e BY DEF In
<1>5. 1..(l + 1) = (1..l) \cup {l + 1} BY <1>2
<1> HIDE DEF u, l
<1>6. Distinct(u) BY <1>1, <1>3, <1>4, <1>5 DEF Distinct
<1>7. \A j : In(u, j) <=> In(t, j) \/ j = e BY <1>1, <1>5 DEF In, l
<1> QED BY <1>1, <1>6, <1>7 DEF u

\* Records are counted as jobs.
LEMMA RecordsAreJobs ==
  ASSUME NEW S, NEW t \in Seq(S), Distinct(t), NEW X \in SUBSET S
  PROVE  Cardinality({i \in 1..Len(t) : t[i] \in X}) = Cardinality({j \in X : In(t, j)})
<1> DEFINE I == {i \in 1..Len(t) : t[i] \in X}
           J == {j \in X : In(t, j)}
           f == [i \in I |-> t[i]]
<1>1. IsFiniteSet(I)
  <2>1. IsFiniteSet(1..Len(t)) BY FS_Interval
  <2> QED BY <2>1, FS_Subset
<1>2. f \in Bijection(I, J)
  <2>1. f \in [I -> J] BY DEF In
  <2>2. \A a, b \in I : f[a] = f[b] => a = b BY DEF Distinct
  <2>3. \A j \in J : \E i \in I : f[i] = j BY DEF In
  <2> HIDE DEF I, J, f
  <2> QED BY <2>1, <2>2, <2>3, Fun_IsBij
<1>3. ExistsBijection(I, J) BY <1>2 DEF ExistsBijection
<1> QED BY <1>1, <1>3, FS_Bijection

\* Sets of jobs, with one more or one less.
LEMMA JobSets ==
  ASSUME NEW X \in SUBSET Jobs
  PROVE  /\ IsFiniteSet(X) /\ Cardinality(X) \in Nat
         /\ \A e : e \notin X => Cardinality(X \cup {e}) = Cardinality(X) + 1
         /\ \A e : e \in X => Cardinality(X \ {e}) = Cardinality(X) - 1
         /\ \A e : Cardinality(X \ {e}) \in Nat /\ Cardinality(X \ {e}) <= Cardinality(X)
<1>1. IsFiniteSet(Jobs) BY BrokerAssumption, FS_Interval DEF Jobs
<1>2. IsFiniteSet(X) BY <1>1, FS_Subset
<1>3. Cardinality(X) \in Nat BY <1>2, FS_CardinalityType
<1>4. \A e : e \notin X => Cardinality(X \cup {e}) = Cardinality(X) + 1 BY <1>2, FS_AddElement
<1>5. \A e : Cardinality(X \ {e}) = IF e \in X THEN Cardinality(X) - 1 ELSE Cardinality(X)
  BY <1>2, FS_RemoveElement
<1>6. \A e : Cardinality(X \ {e}) \in Nat
  <2> TAKE e
  <2>1. IsFiniteSet(X \ {e}) BY <1>2, FS_Subset
  <2> QED BY <2>1, FS_CardinalityType
<1>7. \A e : e \in X => Cardinality(X \ {e}) = Cardinality(X) - 1 BY <1>5
<1>8. \A e : Cardinality(X \ {e}) <= Cardinality(X) BY <1>3, <1>5
<1> QED BY <1>2, <1>3, <1>4, <1>6, <1>7, <1>8

-----------------------------------------------------------------------------
(* The steps *)

core == <<nextId, slots, table, pruning, spawnPc, spawnJob, childOf, phase, pump>>

\* The table counts finished records by position.
LEMMA FinishedCounted ==
  ASSUME TypesOK
  PROVE  /\ Cardinality(FinishedInTable) = Cardinality(FinishedJobs)
         /\ Cardinality({i \in 1..Len(table) : ~Finished(table[i])}) =
              Cardinality({j \in Jobs : In(table, j) /\ phase[j] # "exited"})
<1> DEFINE X == {j \in Jobs : phase[j] = "exited"}
           Y == {j \in Jobs : phase[j] # "exited"}
<1>1. table \in Seq(Jobs) /\ Distinct(table) /\ \A i \in 1..Len(table) : table[i] \in Jobs
  BY DEF TypesOK
<1>2. FinishedInTable = {i \in 1..Len(table) : table[i] \in X}
  BY <1>1 DEF FinishedInTable, Finished
<1>3. {i \in 1..Len(table) : ~Finished(table[i])} = {i \in 1..Len(table) : table[i] \in Y}
  BY <1>1 DEF Finished
<1>4. FinishedJobs = {j \in X : In(table, j)} BY DEF FinishedJobs
<1>5. {j \in Jobs : In(table, j) /\ phase[j] # "exited"} = {j \in Y : In(table, j)} OBVIOUS
<1>6. X \in SUBSET Jobs /\ Y \in SUBSET Jobs OBVIOUS
<1> HIDE DEF X, Y
<1>7. Cardinality({i \in 1..Len(table) : table[i] \in X}) = Cardinality({j \in X : In(table, j)})
  BY <1>1, <1>6, RecordsAreJobs
<1>8. Cardinality({i \in 1..Len(table) : table[i] \in Y}) = Cardinality({j \in Y : In(table, j)})
  BY <1>1, <1>6, RecordsAreJobs
<1> QED BY <1>2, <1>3, <1>4, <1>5, <1>7, <1>8, Zenon

\* The sets are sets of jobs.
LEMMA OurSets ==
  /\ FinishedJobs \in SUBSET Jobs /\ OwePrune \in SUBSET Jobs /\ SlotPumps \in SUBSET Jobs
  /\ FinishedJobs' \in SUBSET Jobs /\ OwePrune' \in SUBSET Jobs /\ SlotPumps' \in SUBSET Jobs
BY DEF FinishedJobs, OwePrune, SlotPumps

\* Steps of clients and of their workers, and of a pump in its stream: nothing changes here.
LEMMA CoreSame ==
  ASSUME TableInv, UNCHANGED core
  PROVE  TableInv'
<1>1. TypesOK' BY DEF TableInv, TypesOK, core
<1>2. FinishedJobs' = FinishedJobs /\ OwePrune' = OwePrune BY DEF FinishedJobs, OwePrune, core
<1>3. SlotSpawners' = SlotSpawners /\ SlotPumps' = SlotPumps BY DEF SlotSpawners, SlotPumps, core
<1>4. SlotsOK' BY <1>3 DEF TableInv, SlotsOK, core
<1>5. PruneOK' BY <1>2 DEF TableInv, PruneOK, Locked, core
<1>6. \A j \in Jobs : JobOK(j)' BY DEF TableInv, JobOK, core
<1>7. \A w \in Spawners : SpawnerOK(w)' BY DEF TableInv, SpawnerOK, core
<1> QED BY <1>1, <1>4, <1>5, <1>6, <1>7 DEF TableInv

\* A finished record goes, in a prune or by keep rm.
LEMMA RecordGone ==
  ASSUME TableInv, NEW i \in 1..Len(table), phase[table[i]] = "exited",
         table' = Without(table, i), UNCHANGED <<nextId, slots, spawnPc, spawnJob, childOf, phase, pump>>
  PROVE  /\ table' \in Seq(Jobs) /\ Distinct(table')
         /\ FinishedJobs' = FinishedJobs \ {table[i]} /\ table[i] \in FinishedJobs
         /\ Cardinality(FinishedJobs') = Cardinality(FinishedJobs) - 1
         /\ OwePrune' = OwePrune /\ SlotsOK'
         /\ \A j \in Jobs : JobOK(j)'
         /\ \A w \in Spawners : SpawnerOK(w)'
<1> DEFINE e == table[i]
<1>1. table \in Seq(Jobs) /\ Distinct(table) BY DEF TableInv, TypesOK
<1>2. /\ table' \in Seq(Jobs) /\ Distinct(table')
      /\ \A j : In(table', j) <=> In(table, j) /\ j # e
  BY <1>1, WithoutTable
<1>3. e \in Jobs /\ In(table, e) /\ phase[e] = "exited" BY <1>1 DEF In
<1> HIDE DEF e
<1>4. FinishedJobs' = FinishedJobs \ {e} /\ e \in FinishedJobs BY <1>2, <1>3 DEF FinishedJobs
<1>5. Cardinality(FinishedJobs') = Cardinality(FinishedJobs) - 1 BY <1>4, OurSets, JobSets
<1>6. OwePrune' = OwePrune BY DEF OwePrune
<1>7. SlotsOK'
  <2>1. SlotSpawners' = SlotSpawners /\ SlotPumps' = SlotPumps BY DEF SlotSpawners, SlotPumps
  <2> QED BY <2>1 DEF TableInv, SlotsOK
<1>8. ASSUME NEW j \in Jobs PROVE JobOK(j)'
  <2>1. JobOK(j) BY DEF TableInv
  <2>2. j = e => pump[j] # "run" BY <1>3, <2>1 DEF JobOK
  <2> QED BY <1>2, <2>1, <2>2 DEF JobOK
<1>9. \A w \in Spawners : SpawnerOK(w)' BY DEF TableInv, SpawnerOK
<1> QED BY <1>2, <1>4, <1>5, <1>6, <1>7, <1>8, <1>9 DEF e

\* prune_finished drops a record.
LEMMA PruneRecordKept ==
  ASSUME TableInv, PruneRecord
  PROVE  TableInv'
<1> DEFINE i == First(FinishedInTable)
<1>1. TypesOK /\ PruneOK /\ Locked /\ pruning.left > 0 /\ pruning.left \in Nat
  BY DEF TableInv, PruneRecord, TypesOK
<1>2. FinishedInTable # {}
  <2>1. Cardinality(FinishedInTable) = Cardinality(FinishedJobs) BY <1>1, FinishedCounted
  <2>2. Cardinality(FinishedJobs) # 0
    <3>1. Cardinality(FinishedJobs) \in Nat BY OurSets, JobSets
    <3> QED BY <1>1, <3>1 DEF PruneOK
  <2> QED BY <2>1, <2>2, FS_EmptySet
<1>3. i \in FinishedInTable
  <2>1. FinishedInTable \in SUBSET Nat BY <1>1 DEF FinishedInTable, TypesOK
  <2> QED BY <1>2, <2>1, FirstExists
<1>4. i \in 1..Len(table) /\ phase[table[i]] = "exited" BY <1>3 DEF FinishedInTable, Finished
<1>5. table' = Without(table, i) /\ UNCHANGED <<nextId, slots, spawnPc, spawnJob, childOf, phase, pump>>
  BY DEF PruneRecord, spawnVars, recordVars
<1> HIDE DEF i
<1>6. /\ table' \in Seq(Jobs) /\ Distinct(table')
      /\ Cardinality(FinishedJobs') = Cardinality(FinishedJobs) - 1
      /\ OwePrune' = OwePrune /\ SlotsOK'
      /\ \A j \in Jobs : JobOK(j)'
      /\ \A w \in Spawners : SpawnerOK(w)'
  BY <1>4, <1>5, RecordGone
<1>7. PICK failed \in BOOLEAN : pruning' = [pruning EXCEPT !.left = @ - 1, !.failed = @ \/ failed]
  BY DEF PruneRecord
<1>8. /\ pruning' \in [by : Spawners \cup Jobs \cup {0}, left : Nat, failed : BOOLEAN]
      /\ pruning'.by = pruning.by /\ pruning'.left = pruning.left - 1
  <2>1. pruning \in [by : Spawners \cup Jobs \cup {0}, left : Nat, failed : BOOLEAN]
    BY <1>1 DEF TypesOK
  <2> DEFINE p == [pruning EXCEPT !.left = @ - 1]
             b == pruning.failed \/ failed
  <2>2. /\ p \in [by : Spawners \cup Jobs \cup {0}, left : Nat, failed : BOOLEAN]
        /\ p.by = pruning.by /\ p.left = pruning.left - 1
    BY <1>1, <2>1
  <2>3. b \in BOOLEAN BY <2>1
  <2>4. pruning' = [p EXCEPT !.failed = b] BY <1>7, <2>1
  <2> HIDE DEF p, b
  <2> QED BY <2>2, <2>3, <2>4
<1>9. TypesOK' BY <1>1, <1>5, <1>6, <1>8 DEF TypesOK
<1>10. PruneOK'
  <2> DEFINE f == Cardinality(FinishedJobs)
             o == Cardinality(OwePrune)
             b == Cardinality(OwePrune \ {pruning.by})
  <2>1. f \in Nat /\ o \in Nat /\ b \in Nat BY OurSets, JobSets
  <2>2. /\ f <= FinishedCap + o /\ pruning.left <= f /\ f <= FinishedCap + pruning.left + b
        /\ pruning.by \in Spawners \cup Jobs
        /\ pruning.by \in Spawners => spawnPc[pruning.by] = "prune"
        /\ pruning.by \in Jobs => pump[pruning.by] = "pruning"
    BY <1>1 DEF PruneOK
  <2>3. /\ Cardinality(FinishedJobs)' = f - 1 /\ Cardinality(OwePrune)' = o
        /\ Cardinality(OwePrune \ {pruning.by})' = b
    BY <1>6, <1>8
  <2> HIDE DEF f, o, b
  <2>4. f - 1 <= FinishedCap + o /\ pruning'.left <= f - 1 /\ f - 1 <= FinishedCap + pruning'.left + b
    BY <1>1, <1>8, <2>1, <2>2, BrokerAssumption
  <2> QED BY <1>5, <1>8, <2>2, <2>3, <2>4 DEF PruneOK
<1> QED BY <1>6, <1>9, <1>10 DEF TableInv

\* keep rm.
LEMMA RemoveKept ==
  ASSUME TableInv, NEW j \in Jobs, Remove(j)
  PROVE  TableInv'
<1> DEFINE S == {i \in 1..Len(table) : table[i] = j}
           i == First(S)
<1>1. TypesOK /\ PruneOK /\ ~Locked /\ InTable(j) /\ phase[j] = "exited"
  BY DEF TableInv, Remove, MayRemove, Finished
<1>2. i \in S
  <2>1. S # {} BY <1>1 DEF InTable
  <2>2. S \in SUBSET Nat BY <1>1 DEF TypesOK
  <2> HIDE DEF S
  <2> QED BY <2>1, <2>2, FirstExists
<1>3. i \in 1..Len(table) /\ phase[table[i]] = "exited" BY <1>1, <1>2
<1>4. table' = Without(table, i) /\ UNCHANGED <<nextId, slots, spawnPc, spawnJob, childOf, phase, pump>>
  BY DEF Remove, spawnVars, recordVars
<1>5. pruning' = pruning BY DEF Remove
<1> HIDE DEF S, i
<1>6. /\ table' \in Seq(Jobs) /\ Distinct(table')
      /\ Cardinality(FinishedJobs') = Cardinality(FinishedJobs) - 1
      /\ OwePrune' = OwePrune /\ SlotsOK'
      /\ \A k \in Jobs : JobOK(k)'
      /\ \A w \in Spawners : SpawnerOK(w)'
  BY <1>3, <1>4, RecordGone
<1>7. TypesOK' BY <1>1, <1>4, <1>5, <1>6 DEF TypesOK
<1>8. PruneOK'
  <2>1. Cardinality(FinishedJobs) \in Nat /\ Cardinality(OwePrune) \in Nat BY OurSets, JobSets
  <2>2. ~Locked' BY <1>1, <1>5 DEF Locked
  <2>3. Cardinality(FinishedJobs') <= FinishedCap + Cardinality(OwePrune')
    BY <1>1, <1>6, <2>1, BrokerAssumption DEF PruneOK
  <2> QED BY <2>2, <2>3 DEF PruneOK
<1> QED BY <1>6, <1>7, <1>8 DEF TableInv

\* A prune begins: it takes what is above the cap now.
LEMMA PruneBegun ==
  ASSUME TableInv, NEW who \in Spawners \cup Jobs, BeginPrune(who),
         who \in Spawners => spawnPc'[who] = "prune", who \in Jobs => pump'[who] = "pruning",
         UNCHANGED table, FinishedJobs' = FinishedJobs, OwePrune' = OwePrune
  PROVE  /\ pruning' \in [by : Spawners \cup Jobs \cup {0}, left : Nat, failed : BOOLEAN]
         /\ PruneOK'
<1> DEFINE f == Cardinality(FinishedJobs)
           o == Cardinality(OwePrune)
           b == Cardinality(OwePrune \ {who})
<1>1. f \in Nat /\ o \in Nat /\ b \in Nat BY OurSets, JobSets
<1>2. pruning' = [by |-> who, left |-> Excess, failed |-> FALSE] BY DEF BeginPrune
<1>3. TypesOK /\ PruneOK BY DEF TableInv
<1>4. Cardinality(FinishedInTable) = f BY <1>3, FinishedCounted
<1>5. f <= FinishedCap + o BY <1>3 DEF PruneOK
<1>6. /\ Cardinality(FinishedJobs)' = f /\ Cardinality(OwePrune)' = o
      /\ Cardinality(OwePrune \ {pruning.by})' = b
  BY <1>2
<1>7. Excess = IF f > FinishedCap THEN f - FinishedCap ELSE 0 BY <1>4 DEF Excess
<1> HIDE DEF f, o, b
<1>8. Excess \in Nat /\ Excess <= f /\ f <= FinishedCap + Excess + b
  BY <1>1, <1>7, BrokerAssumption
<1>9. pruning'.by = who /\ pruning'.left = Excess BY <1>2
<1>10. pruning' \in [by : Spawners \cup Jobs \cup {0}, left : Nat, failed : BOOLEAN]
  BY <1>2, <1>8
<1> QED BY <1>5, <1>6, <1>8, <1>9, <1>10 DEF PruneOK

\* A spawn prunes first.
LEMMA SpawnPruneKept ==
  ASSUME TableInv, NEW w \in Spawners, SpawnPrune(w)
  PROVE  TableInv'
<1>1. /\ spawnPc[w] = "idle" /\ BeginPrune(w) /\ spawnPc' = [spawnPc EXCEPT ![w] = "prune"]
      /\ UNCHANGED <<nextId, slots, table, spawnJob, childOf, phase, pump>>
  BY DEF SpawnPrune, recordVars
<1>2. w \notin Jobs /\ spawnPc'[w] = "prune" BY <1>1, BrokerAssumption DEF TableInv, TypesOK, Jobs
<1>3. FinishedJobs' = FinishedJobs /\ OwePrune' = OwePrune BY <1>1 DEF FinishedJobs, OwePrune
<1>4. /\ pruning' \in [by : Spawners \cup Jobs \cup {0}, left : Nat, failed : BOOLEAN]
      /\ PruneOK'
  BY <1>1, <1>2, <1>3, PruneBegun
<1>5. TypesOK' BY <1>1, <1>4 DEF TableInv, TypesOK, SpawnerPcs
<1>6. SlotsOK'
  <2>1. SlotSpawners' = SlotSpawners BY <1>1 DEF TableInv, TypesOK, SlotSpawners, Holding
  <2>2. SlotPumps' = SlotPumps BY <1>1 DEF SlotPumps
  <2> QED BY <1>1, <2>1, <2>2 DEF TableInv, SlotsOK
<1>7. \A v \in Spawners : spawnPc'[v] \in {"publish", "drop"} <=> spawnPc[v] \in {"publish", "drop"}
  BY <1>1 DEF TableInv, TypesOK
<1>8. \A j \in Jobs : JobOK(j)' BY <1>1, <1>7 DEF TableInv, JobOK
<1>9. \A v \in Spawners : SpawnerOK(v)' BY <1>1, <1>7 DEF TableInv, SpawnerOK
<1> QED BY <1>4, <1>5, <1>6, <1>8, <1>9 DEF TableInv

\* A pump prunes last.
LEMMA PumpPruneKept ==
  ASSUME TableInv, NEW j \in Jobs, PumpPrune(j)
  PROVE  TableInv'
<1>1. /\ pump[j] = "prune" /\ BeginPrune(j) /\ pump' = [pump EXCEPT ![j] = "pruning"]
      /\ UNCHANGED <<nextId, slots, table, spawnPc, spawnJob, childOf, phase>>
  BY DEF PumpPrune, spawnVars
<1>2. j \notin Spawners /\ pump'[j] = "pruning"
  <2>1. j \in 0..MaxJobs BY DEF Jobs
  <2>2. pump'[j] = "pruning" BY <1>1 DEF TableInv, TypesOK
  <2> QED BY <2>1, <2>2, BrokerAssumption
<1>3. FinishedJobs' = FinishedJobs /\ OwePrune' = OwePrune
  BY <1>1 DEF FinishedJobs, OwePrune, TableInv, TypesOK
<1>4. /\ pruning' \in [by : Spawners \cup Jobs \cup {0}, left : Nat, failed : BOOLEAN]
      /\ PruneOK'
  BY <1>1, <1>2, <1>3, PruneBegun
<1>5. TypesOK' BY <1>1, <1>4 DEF TableInv, TypesOK, PumpPcs
<1>6. SlotsOK'
  <2>1. SlotPumps' = SlotPumps BY <1>1 DEF TableInv, TypesOK, SlotPumps, Owing
  <2>2. SlotSpawners' = SlotSpawners BY <1>1 DEF SlotSpawners
  <2> QED BY <1>1, <2>1, <2>2 DEF TableInv, SlotsOK
<1>7. ASSUME NEW k \in Jobs PROVE JobOK(k)'
  <2>1. JobOK(k) BY DEF TableInv
  <2>2. pump'[k] = (IF k = j THEN "pruning" ELSE pump[k]) BY <1>1 DEF TableInv, TypesOK
  <2> QED BY <1>1, <2>1, <2>2 DEF JobOK
<1>8. \A v \in Spawners : SpawnerOK(v)' BY <1>1 DEF TableInv, SpawnerOK
<1> QED BY <1>4, <1>5, <1>6, <1>7, <1>8 DEF TableInv

\* A prune ends: whoever began it has paid his.
LEMMA PruneEndKept ==
  ASSUME TableInv, PruneEnd
  PROVE  TableInv'
<1> DEFINE by == pruning.by
           f == Cardinality(FinishedJobs)
           o == Cardinality(OwePrune)
           b == Cardinality(OwePrune \ {by})
<1>1. /\ Locked /\ pruning.left = 0 /\ pruning' = NoPrune
      /\ UNCHANGED <<nextId, slots, table, spawnJob, childOf, phase>>
  BY DEF PruneEnd
<1>2. f \in Nat /\ o \in Nat /\ b \in Nat /\ b <= o BY OurSets, JobSets
<1>3. /\ by \in Spawners => spawnPc[by] = "prune"
      /\ by \in Jobs => pump[by] = "pruning"
      /\ f <= FinishedCap + b
  <2>1. PruneOK /\ Locked BY <1>1 DEF TableInv
  <2>2. f <= FinishedCap + pruning.left + b BY <2>1 DEF PruneOK
  <2>3. f <= FinishedCap + b BY <1>1, <1>2, <2>2, BrokerAssumption
  <2> QED BY <2>1, <2>3 DEF PruneOK
<1>4. FinishedJobs' = FinishedJobs BY <1>1 DEF FinishedJobs
<1>5. ~Locked' BY <1>1 DEF Locked
<1>6. pruning' \in [by : Spawners \cup Jobs \cup {0}, left : Nat, failed : BOOLEAN]
  BY <1>1 DEF NoPrune
<1>7. CASE by \in Spawners /\ UNCHANGED pump
           /\ spawnPc' = [spawnPc EXCEPT ![by] = IF pruning.failed THEN "idle" ELSE "reserve"]
  <2>1. /\ spawnPc' \in [Spawners -> SpawnerPcs] /\ spawnPc'[by] \in {"idle", "reserve"}
        /\ \A v \in Spawners : v # by => spawnPc'[v] = spawnPc[v]
    BY <1>7 DEF TableInv, TypesOK, SpawnerPcs
  <2>2. TypesOK' BY <1>1, <1>6, <1>7, <2>1 DEF TableInv, TypesOK
  <2>3. OwePrune' = OwePrune BY <1>1, <1>7 DEF OwePrune
  <2>4. PruneOK'
    <3>1. f <= FinishedCap + o BY <1>2, <1>3, BrokerAssumption
    <3> QED BY <1>4, <1>5, <2>3, <3>1 DEF PruneOK
  <2>5. SlotsOK'
    <3>1. SlotSpawners' = SlotSpawners BY <1>3, <1>7, <2>1 DEF SlotSpawners, Holding
    <3>2. SlotPumps' = SlotPumps BY <1>7 DEF SlotPumps
    <3> QED BY <1>1, <3>1, <3>2 DEF TableInv, SlotsOK
  <2>6. \A v \in Spawners : spawnPc'[v] \in {"publish", "drop"} <=> spawnPc[v] \in {"publish", "drop"}
    BY <1>3, <1>7, <2>1
  <2>7. \A j \in Jobs : JobOK(j)' BY <1>1, <1>7, <2>6 DEF TableInv, JobOK
  <2>8. \A v \in Spawners : SpawnerOK(v)' BY <1>1, <2>6 DEF TableInv, SpawnerOK
  <2> QED BY <2>2, <2>4, <2>5, <2>7, <2>8 DEF TableInv
<1>8. CASE by \in Jobs /\ UNCHANGED spawnPc /\ pump' = [pump EXCEPT ![by] = "done"]
  <2>1. /\ pump' \in [Jobs -> PumpPcs] /\ pump'[by] = "done"
        /\ \A j \in Jobs : j # by => pump'[j] = pump[j]
    BY <1>8 DEF TableInv, TypesOK, PumpPcs
  <2>2. TypesOK' BY <1>1, <1>6, <1>8, <2>1 DEF TableInv, TypesOK
  <2>3. OwePrune' = OwePrune \ {by} BY <1>1, <1>3, <1>8, <2>1 DEF OwePrune
  <2>4. PruneOK' BY <1>3, <1>4, <1>5, <2>3 DEF PruneOK
  <2>5. SlotsOK'
    <3>1. SlotPumps' = SlotPumps BY <1>3, <1>8, <2>1 DEF SlotPumps, Owing
    <3>2. SlotSpawners' = SlotSpawners BY <1>8 DEF SlotSpawners
    <3> QED BY <1>1, <3>1, <3>2 DEF TableInv, SlotsOK
  <2>6. ASSUME NEW j \in Jobs PROVE JobOK(j)'
    <3>1. JobOK(j) BY DEF TableInv
    <3>2. j = by => pump[j] = "pruning" /\ pump'[j] = "done" BY <1>3, <1>8, <2>1
    <3> QED BY <1>1, <1>8, <2>1, <3>1, <3>2 DEF JobOK
  <2>7. \A v \in Spawners : SpawnerOK(v)' BY <1>1, <1>8 DEF TableInv, SpawnerOK
  <2> QED BY <2>2, <2>4, <2>5, <2>6, <2>7 DEF TableInv
<1> QED BY <1>7, <1>8 DEF PruneEnd

\* A prune in progress is not disturbed by others.
LEMMA PruneSame ==
  ASSUME PruneOK, UNCHANGED pruning, FinishedJobs' = FinishedJobs, OwePrune' = OwePrune,
         \A w \in Spawners : spawnPc[w] = "prune" => spawnPc'[w] = "prune",
         \A j \in Jobs : pump[j] = "pruning" => pump'[j] = "pruning"
  PROVE  PruneOK'
BY DEF PruneOK, Locked

\* One spawner moves; the rest is as it was.
LEMMA SpawnerMoves ==
  ASSUME TypesOK, NEW w \in Spawners, NEW q \in SpawnerPcs, spawnPc' = [spawnPc EXCEPT ![w] = q]
  PROVE  /\ spawnPc' \in [Spawners -> SpawnerPcs] /\ spawnPc'[w] = q
         /\ \A v \in Spawners : v # w => spawnPc'[v] = spawnPc[v]
         /\ spawnPc[w] \in Holding /\ q \in Holding => SlotSpawners' = SlotSpawners
         /\ spawnPc[w] \notin Holding /\ q \notin Holding => SlotSpawners' = SlotSpawners
         /\ spawnPc[w] \notin Holding /\ q \in Holding =>
              SlotSpawners' = SlotSpawners \cup {w} /\ w \notin SlotSpawners
         /\ spawnPc[w] \in Holding /\ q \notin Holding =>
              SlotSpawners' = SlotSpawners \ {w} /\ w \in SlotSpawners
<1>1. /\ spawnPc' \in [Spawners -> SpawnerPcs] /\ spawnPc'[w] = q
      /\ \A v \in Spawners : v # w => spawnPc'[v] = spawnPc[v]
  BY DEF TypesOK
<1> QED BY <1>1 DEF SlotSpawners

\* One pump moves.
LEMMA PumpMoves ==
  ASSUME TypesOK, NEW j \in Jobs, NEW q \in PumpPcs, pump' = [pump EXCEPT ![j] = q]
  PROVE  /\ pump' \in [Jobs -> PumpPcs] /\ pump'[j] = q
         /\ \A k \in Jobs : k # j => pump'[k] = pump[k]
         /\ pump[j] \in Owing /\ q \in Owing => SlotPumps' = SlotPumps
         /\ pump[j] \notin Owing /\ q \in Owing => SlotPumps' = SlotPumps \cup {j} /\ j \notin SlotPumps
         /\ pump[j] \in Owing /\ q \notin Owing => SlotPumps' = SlotPumps \ {j} /\ j \in SlotPumps
<1>1. /\ pump' \in [Jobs -> PumpPcs] /\ pump'[j] = q
      /\ \A k \in Jobs : k # j => pump'[k] = pump[k]
  BY DEF TypesOK
<1> QED BY <1>1 DEF SlotPumps

\* A slot more or a slot less among the spawners.
LEMMA SlotCounts ==
  ASSUME IsFiniteSet(SlotSpawners), NEW w
  PROVE  /\ Cardinality(SlotSpawners) \in Nat
         /\ w \notin SlotSpawners => /\ IsFiniteSet(SlotSpawners \cup {w})
                                     /\ Cardinality(SlotSpawners \cup {w}) = Cardinality(SlotSpawners) + 1
         /\ w \in SlotSpawners => /\ IsFiniteSet(SlotSpawners \ {w})
                                  /\ Cardinality(SlotSpawners \ {w}) = Cardinality(SlotSpawners) - 1
<1> DEFINE X == SlotSpawners
<1> HIDE DEF X
<1>0. IsFiniteSet(X) BY DEF X
<1>1. Cardinality(X) \in Nat BY <1>0, FS_CardinalityType
<1>2. w \notin X => IsFiniteSet(X \cup {w}) /\ Cardinality(X \cup {w}) = Cardinality(X) + 1
  BY <1>0, FS_AddElement
<1>3. w \in X => IsFiniteSet(X \ {w}) /\ Cardinality(X \ {w}) = Cardinality(X) - 1
  BY <1>0, FS_RemoveElement
<1> QED BY <1>1, <1>2, <1>3 DEF X

\* A spawner reserves a slot, or gives it back.
LEMMA SpawnSlotKept ==
  ASSUME TableInv, NEW w \in Spawners, SpawnReserve(w) \/ SpawnSetupFails(w) \/ SpawnThreadFails(w)
  PROVE  TableInv'
<1>0. TypesOK /\ SlotsOK /\ PruneOK BY DEF TableInv
<1>1. UNCHANGED <<table, pruning, spawnJob, childOf, phase, pump>>
  BY DEF SpawnReserve, SpawnSetupFails, SpawnThreadFails, recordVars
<1>2. PICK q \in SpawnerPcs : spawnPc' = [spawnPc EXCEPT ![w] = q]
        /\ \/ spawnPc[w] = "reserve" /\ q = "setup" /\ slots < MaxRunning /\ slots' = slots + 1
              /\ nextId' = nextId
           \/ spawnPc[w] = "reserve" /\ q = "idle" /\ slots' = slots /\ nextId' = nextId
           \/ spawnPc[w] = "setup" /\ q = "idle" /\ slots' = slots - 1
              /\ nextId' \in {nextId, IF nextId < MaxJobs THEN nextId + 1 ELSE nextId}
           \/ spawnPc[w] = "publish" /\ q = "drop" /\ slots' = slots - 1 /\ nextId' = nextId
  <2>1. "setup" \in SpawnerPcs /\ "idle" \in SpawnerPcs /\ "drop" \in SpawnerPcs BY DEF SpawnerPcs
  <2>2. CASE SpawnReserve(w) BY <2>1, <2>2 DEF SpawnReserve, SlotFree
  <2>3. CASE SpawnSetupFails(w) BY <2>1, <2>3 DEF SpawnSetupFails
  <2>4. CASE SpawnThreadFails(w) BY <2>1, <2>4 DEF SpawnThreadFails
  <2> QED BY <2>2, <2>3, <2>4
<1>3. /\ spawnPc' \in [Spawners -> SpawnerPcs] /\ spawnPc'[w] = q
      /\ \A v \in Spawners : v # w => spawnPc'[v] = spawnPc[v]
      /\ spawnPc[w] \in Holding /\ q \in Holding => SlotSpawners' = SlotSpawners
      /\ spawnPc[w] \notin Holding /\ q \notin Holding => SlotSpawners' = SlotSpawners
      /\ spawnPc[w] \notin Holding /\ q \in Holding =>
           SlotSpawners' = SlotSpawners \cup {w} /\ w \notin SlotSpawners
      /\ spawnPc[w] \in Holding /\ q \notin Holding =>
           SlotSpawners' = SlotSpawners \ {w} /\ w \in SlotSpawners
  BY <1>0, <1>2, SpawnerMoves
<1>4. nextId \in 0..MaxJobs /\ nextId' \in 0..MaxJobs /\ nextId' >= nextId /\ slots' \in Int
  BY <1>0, <1>2, BrokerAssumption DEF TypesOK
<1>5. TypesOK' BY <1>0, <1>1, <1>3, <1>4 DEF TypesOK
<1>6. SlotPumps' = SlotPumps /\ Cardinality(SlotPumps) \in Nat
  <2>1. Cardinality(SlotPumps) \in Nat BY OurSets, JobSets
  <2> QED BY <1>1, <2>1 DEF SlotPumps
<1>7. SlotsOK'
  <2>1. /\ Cardinality(SlotSpawners) \in Nat
        /\ w \notin SlotSpawners => /\ IsFiniteSet(SlotSpawners \cup {w})
                                    /\ Cardinality(SlotSpawners \cup {w}) = Cardinality(SlotSpawners) + 1
        /\ w \in SlotSpawners => /\ IsFiniteSet(SlotSpawners \ {w})
                                 /\ Cardinality(SlotSpawners \ {w}) = Cardinality(SlotSpawners) - 1
    BY <1>0, SlotCounts DEF SlotsOK
  <2>2. /\ "reserve" \notin Holding /\ "idle" \notin Holding /\ "drop" \notin Holding
        /\ "setup" \in Holding /\ "publish" \in Holding
    BY DEF Holding
  <2>3. /\ IsFiniteSet(SlotSpawners)
        /\ slots = Cardinality(SlotSpawners) + Cardinality(SlotPumps) /\ slots <= MaxRunning
        /\ slots \in Int /\ MaxRunning \in Nat
    BY <1>0, BrokerAssumption DEF SlotsOK, TypesOK
  <2>4. CASE q = "setup"
    <3>1. SlotSpawners' = SlotSpawners \cup {w} /\ w \notin SlotSpawners /\ slots' = slots + 1
          /\ slots < MaxRunning
      BY <1>2, <1>3, <2>2, <2>4
    <3> QED BY <1>6, <2>1, <2>3, <3>1 DEF SlotsOK
  <2>5. CASE spawnPc[w] = "reserve" /\ q = "idle"
    <3>1. SlotSpawners' = SlotSpawners /\ slots' = slots BY <1>2, <1>3, <2>2, <2>5
    <3> QED BY <1>6, <2>3, <3>1 DEF SlotsOK
  <2>6. CASE spawnPc[w] \in {"setup", "publish"}
    <3>1. SlotSpawners' = SlotSpawners \ {w} /\ w \in SlotSpawners /\ slots' = slots - 1
      BY <1>2, <1>3, <2>2, <2>6
    <3> QED BY <1>6, <2>1, <2>3, <3>1 DEF SlotsOK
  <2> QED BY <1>2, <2>4, <2>5, <2>6
<1>8. PruneOK'
  <2>1. FinishedJobs' = FinishedJobs /\ OwePrune' = OwePrune BY <1>1 DEF FinishedJobs, OwePrune
  <2>2. \A v \in Spawners : spawnPc[v] = "prune" => spawnPc'[v] = "prune" BY <1>2, <1>3
  <2> QED BY <1>0, <1>1, <2>1, <2>2, PruneSame
<1>9. \A v \in Spawners : spawnPc'[v] \in {"publish", "drop"} <=> spawnPc[v] \in {"publish", "drop"}
  BY <1>2, <1>3
<1>10. ASSUME NEW j \in Jobs PROVE JobOK(j)'
  <2>1. JobOK(j) BY DEF TableInv
  <2>2. j > nextId' => j > nextId BY <1>4, BrokerAssumption DEF Jobs
  <2> QED BY <1>1, <1>9, <2>1, <2>2 DEF JobOK
<1>11. ASSUME NEW v \in Spawners PROVE SpawnerOK(v)'
  <2>1. SpawnerOK(v) BY DEF TableInv
  <2>2. \A n \in 1..nextId : n \in 1..nextId' BY <1>4
  <2> QED BY <1>1, <1>9, <2>1, <2>2 DEF SpawnerOK
<1> QED BY <1>5, <1>7, <1>8, <1>10, <1>11 DEF TableInv

\* The child is running and has its spawner.
LEMMA SpawnSetupKept ==
  ASSUME TableInv, NEW w \in Spawners, SpawnSetup(w)
  PROVE  TableInv'
<1> DEFINE n == nextId + 1
<1>0. TypesOK /\ SlotsOK /\ PruneOK BY DEF TableInv
<1>1. /\ spawnPc[w] = "setup" /\ nextId' = n
      /\ spawnJob' = [spawnJob EXCEPT ![w] = n] /\ childOf' = [childOf EXCEPT ![n] = "alive"]
      /\ spawnPc' = [spawnPc EXCEPT ![w] = "publish"]
      /\ UNCHANGED <<slots, table, pruning, phase, pump>>
  BY DEF SpawnSetup
<1>2. nextId \in Nat /\ n \in Jobs /\ n \in 0..MaxJobs
  BY <1>0, BrokerAssumption DEF SpawnSetup, TypesOK, Jobs
<1>3. "publish" \in SpawnerPcs /\ "publish" \in Holding /\ "setup" \in Holding
  BY DEF SpawnerPcs, Holding
<1>4. /\ spawnPc' \in [Spawners -> SpawnerPcs] /\ spawnPc'[w] = "publish"
      /\ \A v \in Spawners : v # w => spawnPc'[v] = spawnPc[v]
      /\ SlotSpawners' = SlotSpawners
  BY <1>0, <1>1, <1>3, SpawnerMoves
<1>5. /\ spawnJob' \in [Spawners -> 0..MaxJobs] /\ spawnJob'[w] = n
      /\ \A v \in Spawners : v # w => spawnJob'[v] = spawnJob[v]
  BY <1>0, <1>1, <1>2 DEF TypesOK
<1>6. /\ childOf' \in [Jobs -> {"none", "alive", "gone"}] /\ childOf'[n] = "alive"
      /\ \A j \in Jobs : j # n => childOf'[j] = childOf[j]
  BY <1>0, <1>1, <1>2 DEF TypesOK
<1>7. n > nextId BY <1>2
<1> HIDE DEF n
<1>8. phase[n] = "none" BY <1>2, <1>7 DEF TableInv, JobOK
<1>9. TypesOK' BY <1>0, <1>1, <1>2, <1>4, <1>5, <1>6 DEF TypesOK
<1>10. SlotsOK'
  <2>1. SlotPumps' = SlotPumps BY <1>1 DEF SlotPumps
  <2> QED BY <1>0, <1>1, <1>4, <2>1 DEF SlotsOK
<1>11. PruneOK'
  <2>1. FinishedJobs' = FinishedJobs /\ OwePrune' = OwePrune BY <1>1 DEF FinishedJobs, OwePrune
  <2>2. \A v \in Spawners : spawnPc[v] = "prune" => spawnPc'[v] = "prune" BY <1>1, <1>4
  <2> QED BY <1>0, <1>1, <2>1, <2>2, PruneSame
<1>12. ASSUME NEW j \in Jobs PROVE JobOK(j)'
  <2>1. JobOK(j) BY DEF TableInv
  <2>2. nextId' \in Nat /\ (j > nextId' => j > nextId /\ j # n) BY <1>1, <1>2 DEF n, Jobs
  <2>3. childOf'[j] = "alive" /\ phase[j] = "none" =>
          \E v \in Spawners : spawnJob'[v] = j /\ spawnPc'[v] \in {"publish", "drop"}
    <3>1. CASE j = n BY <1>4, <1>5, <3>1
    <3>2. CASE j # n
      <4> SUFFICES ASSUME childOf'[j] = "alive", phase[j] = "none"
                   PROVE  \E v \in Spawners : spawnJob'[v] = j /\ spawnPc'[v] \in {"publish", "drop"}
        OBVIOUS
      <4>1. PICK v \in Spawners : spawnJob[v] = j /\ spawnPc[v] \in {"publish", "drop"}
        BY <1>6, <2>1, <3>2 DEF JobOK
      <4>2. v # w BY <1>1, <4>1
      <4> QED BY <1>4, <1>5, <4>1, <4>2
    <3> QED BY <3>1, <3>2
  <2>4. childOf'[j] = "alive" => phase[j] \in {"none", "running"} BY <1>6, <1>8, <2>1 DEF JobOK
  <2>5. j > nextId' => phase[j] = "none" /\ childOf'[j] = "none" BY <1>6, <2>1, <2>2 DEF JobOK
  <2> QED BY <1>1, <2>1, <2>3, <2>4, <2>5 DEF JobOK
<1>13. ASSUME NEW v \in Spawners PROVE SpawnerOK(v)'
  <2> SUFFICES ASSUME spawnPc'[v] \in {"publish", "drop"}
               PROVE  /\ spawnJob'[v] \in 1..nextId' /\ phase[spawnJob'[v]] = "none"
                      /\ \A u \in Spawners : spawnPc'[u] \in {"publish", "drop"}
                                             /\ spawnJob'[u] = spawnJob'[v] => u = v
    BY <1>1 DEF SpawnerOK
  <2>0. ASSUME NEW u \in Spawners, u # w, spawnPc'[u] \in {"publish", "drop"}
        PROVE  /\ spawnJob'[u] \in 1..nextId /\ phase[spawnJob'[u]] = "none" /\ spawnJob'[u] # n
               /\ spawnJob'[u] = spawnJob[u] /\ spawnPc[u] \in {"publish", "drop"}
    <3>1. spawnJob'[u] = spawnJob[u] /\ spawnPc[u] \in {"publish", "drop"} BY <1>4, <1>5, <2>0
    <3>2. SpawnerOK(u) BY DEF TableInv
    <3>3. spawnJob[u] \in 1..nextId /\ phase[spawnJob[u]] = "none" BY <3>1, <3>2 DEF SpawnerOK
    <3>4. n \notin 1..nextId BY <1>2, <1>7
    <3> QED BY <3>1, <3>3, <3>4
  <2>1. \A m \in 1..nextId : m \in 1..nextId' BY <1>1, <1>2 DEF n
  <2>2. n \in 1..nextId' BY <1>1, <1>2 DEF n
  <2>3. CASE v = w BY <1>5, <1>8, <2>0, <2>2, <2>3
  <2>4. CASE v # w
    <3>1. SpawnerOK(v) BY DEF TableInv
    <3>2. ASSUME NEW u \in Spawners, spawnPc'[u] \in {"publish", "drop"},
                 spawnJob'[u] = spawnJob'[v]
          PROVE  u = v
      <4>1. u # w BY <1>5, <2>0, <2>4, <3>2
      <4> QED BY <2>0, <2>4, <3>1, <3>2, <4>1 DEF SpawnerOK
    <3> QED BY <2>0, <2>1, <2>4, <3>2
  <2> QED BY <2>3, <2>4
<1> QED BY <1>9, <1>10, <1>11, <1>12, <1>13 DEF TableInv

\* A job that is listed or dropped was its spawner's alone.
LEMMA SpawnEnds ==
  ASSUME TableInv, NEW w \in Spawners, spawnPc[w] \in {"publish", "drop"},
         spawnPc' = [spawnPc EXCEPT ![w] = "idle"], spawnJob' = [spawnJob EXCEPT ![w] = 0],
         UNCHANGED nextId, \A j \in Jobs : j # spawnJob[w] => phase'[j] = phase[j]
  PROVE  /\ spawnJob[w] \in Jobs /\ spawnJob[w] <= nextId /\ phase[spawnJob[w]] = "none"
         /\ pump[spawnJob[w]] = "none" /\ ~In(table, spawnJob[w])
         /\ spawnPc' \in [Spawners -> SpawnerPcs] /\ spawnJob' \in [Spawners -> 0..MaxJobs]
         /\ \A v \in Spawners : spawnPc[v] = "prune" => spawnPc'[v] = "prune"
         /\ \A v \in Spawners : v # w => spawnPc'[v] = spawnPc[v] /\ spawnJob'[v] = spawnJob[v]
         /\ spawnPc'[w] = "idle"
         /\ \A v \in Spawners : SpawnerOK(v)'
<1> DEFINE n == spawnJob[w]
<1>0. TypesOK /\ SpawnerOK(w) BY DEF TableInv
<1>1. n \in 1..nextId /\ phase[n] = "none" BY <1>0 DEF SpawnerOK
<1>2. n \in Jobs /\ n <= nextId /\ nextId \in Nat BY <1>0, <1>1, BrokerAssumption DEF TypesOK, Jobs
<1>3. pump[n] = "none" /\ ~In(table, n) BY <1>1, <1>2 DEF TableInv, JobOK
<1>4. /\ spawnPc' \in [Spawners -> SpawnerPcs] /\ spawnPc'[w] = "idle"
      /\ \A v \in Spawners : v # w => spawnPc'[v] = spawnPc[v]
  BY <1>0 DEF TypesOK, SpawnerPcs
<1>5. /\ spawnJob' \in [Spawners -> 0..MaxJobs]
      /\ \A v \in Spawners : v # w => spawnJob'[v] = spawnJob[v]
  BY <1>0, BrokerAssumption DEF TypesOK
<1>6. ASSUME NEW v \in Spawners PROVE SpawnerOK(v)'
  <2> SUFFICES ASSUME spawnPc'[v] \in {"publish", "drop"}
               PROVE  /\ spawnJob'[v] \in 1..nextId /\ phase'[spawnJob'[v]] = "none"
                      /\ \A u \in Spawners : spawnPc'[u] \in {"publish", "drop"}
                                             /\ spawnJob'[u] = spawnJob'[v] => u = v
    BY DEF SpawnerOK
  <2>1. v # w /\ spawnPc[v] \in {"publish", "drop"} /\ spawnJob'[v] = spawnJob[v] BY <1>4, <1>5
  <2>2. SpawnerOK(v) BY DEF TableInv
  <2>3. spawnJob[v] # n BY <2>1, <2>2 DEF SpawnerOK
  <2>4. spawnJob[v] \in 1..nextId /\ phase[spawnJob[v]] = "none" BY <2>1, <2>2 DEF SpawnerOK
  <2>5. spawnJob[v] \in Jobs BY <1>0, <2>4, BrokerAssumption DEF TypesOK, Jobs
  <2>6. ASSUME NEW u \in Spawners, spawnPc'[u] \in {"publish", "drop"}, spawnJob'[u] = spawnJob'[v]
        PROVE  u = v
    <3>1. u # w BY <1>4, <2>6
    <3>2. spawnPc[u] \in {"publish", "drop"} /\ spawnJob[u] = spawnJob[v] BY <1>4, <1>5, <2>1, <2>6, <3>1
    <3> QED BY <2>1, <2>2, <3>2 DEF SpawnerOK
  <2> QED BY <2>1, <2>3, <2>4, <2>5, <2>6
<1> QED BY <1>1, <1>2, <1>3, <1>4, <1>5, <1>6

\* The job is listed and its pump runs: the slot and the child are the pump's now.
LEMMA SpawnPublishKept ==
  ASSUME TableInv, NEW w \in Spawners, SpawnPublish(w)
  PROVE  TableInv'
<1> DEFINE n == spawnJob[w]
<1>0. TypesOK /\ SlotsOK /\ PruneOK BY DEF TableInv
<1>1. /\ spawnPc[w] = "publish" /\ ~Locked /\ table' = Append(table, n)
      /\ phase' = [phase EXCEPT ![n] = "running"] /\ pump' = [pump EXCEPT ![n] = "run"]
      /\ spawnPc' = [spawnPc EXCEPT ![w] = "idle"] /\ spawnJob' = [spawnJob EXCEPT ![w] = 0]
      /\ UNCHANGED <<nextId, slots, pruning, childOf>>
  BY DEF SpawnPublish
<1>2. \A j \in Jobs : j # n => phase'[j] = phase[j] BY <1>0, <1>1 DEF TypesOK
<1>3. /\ n \in Jobs /\ n <= nextId /\ phase[n] = "none" /\ pump[n] = "none" /\ ~In(table, n)
      /\ spawnPc' \in [Spawners -> SpawnerPcs] /\ spawnJob' \in [Spawners -> 0..MaxJobs]
      /\ \A v \in Spawners : v # w => spawnPc'[v] = spawnPc[v] /\ spawnJob'[v] = spawnJob[v]
      /\ \A v \in Spawners : SpawnerOK(v)'
  BY <1>1, <1>2, SpawnEnds
<1>4. phase' \in [Jobs -> {"none", "running", "finishing", "exited"}] /\ phase'[n] = "running"
  BY <1>0, <1>1, <1>3 DEF TypesOK
<1>5. "idle" \in SpawnerPcs /\ "idle" \notin Holding /\ "publish" \in Holding
      /\ "run" \in PumpPcs /\ "run" \in Owing /\ "none" \notin Owing
  BY DEF SpawnerPcs, Holding, PumpPcs, Owing
<1>6. SlotSpawners' = SlotSpawners \ {w} /\ w \in SlotSpawners BY <1>0, <1>1, <1>5, SpawnerMoves
<1> HIDE DEF n
<1>7. /\ pump' \in [Jobs -> PumpPcs] /\ pump'[n] = "run"
      /\ \A k \in Jobs : k # n => pump'[k] = pump[k]
      /\ SlotPumps' = SlotPumps \cup {n} /\ n \notin SlotPumps
  BY <1>0, <1>1, <1>3, <1>5, PumpMoves
<1>8. /\ table' \in Seq(Jobs) /\ Distinct(table')
      /\ \A j : In(table', j) <=> In(table, j) \/ j = n
  BY <1>0, <1>1, <1>3, AppendTable DEF TypesOK
<1>9. TypesOK' BY <1>0, <1>1, <1>3, <1>4, <1>7, <1>8 DEF TypesOK
<1>10. SlotsOK'
  <2>1. IsFiniteSet(SlotSpawners) /\ slots = Cardinality(SlotSpawners) + Cardinality(SlotPumps)
        /\ slots <= MaxRunning
    BY <1>0 DEF SlotsOK
  <2>2. /\ Cardinality(SlotSpawners) \in Nat /\ IsFiniteSet(SlotSpawners \ {w})
        /\ Cardinality(SlotSpawners \ {w}) = Cardinality(SlotSpawners) - 1
    BY <1>6, <2>1, SlotCounts
  <2>3. Cardinality(SlotPumps) \in Nat /\ Cardinality(SlotPumps \cup {n}) = Cardinality(SlotPumps) + 1
    BY <1>7, OurSets, JobSets
  <2> QED BY <1>1, <1>6, <1>7, <2>1, <2>2, <2>3 DEF SlotsOK
<1>11. PruneOK'
  <2>1. FinishedJobs' = FinishedJobs BY <1>2, <1>3, <1>4, <1>8 DEF FinishedJobs
  <2>2. OwePrune' = OwePrune BY <1>2, <1>3, <1>4, <1>7 DEF OwePrune
  <2>3. ~Locked' BY <1>1 DEF Locked
  <2> QED BY <1>0, <2>1, <2>2, <2>3 DEF PruneOK
<1>12. ASSUME NEW j \in Jobs PROVE JobOK(j)'
  <2>1. JobOK(j) BY DEF TableInv
  <2>2. CASE j = n
    <3>1. nextId \in Nat /\ ~(n > nextId) BY <1>0, <1>3 DEF TypesOK, Jobs
    <3> QED BY <1>1, <1>4, <1>7, <1>8, <2>2, <3>1 DEF JobOK
  <2>3. CASE j # n
    <3>1. phase'[j] = phase[j] /\ pump'[j] = pump[j] /\ (In(table', j) <=> In(table, j))
      BY <1>2, <1>7, <1>8, <2>3
    <3>2. \A v \in Spawners : spawnJob[v] = j /\ spawnPc[v] \in {"publish", "drop"} =>
            spawnJob'[v] = j /\ spawnPc'[v] \in {"publish", "drop"}
      BY <1>3, <2>3 DEF n
    <3> QED BY <1>1, <2>1, <3>1, <3>2 DEF JobOK
  <2> QED BY <2>2, <2>3
<1> QED BY <1>3, <1>9, <1>10, <1>11, <1>12 DEF TableInv

\* ReapOnDropChild.
LEMMA SpawnDropKept ==
  ASSUME TableInv, NEW w \in Spawners, SpawnDrop(w)
  PROVE  TableInv'
<1> DEFINE n == spawnJob[w]
<1>0. TypesOK /\ SlotsOK /\ PruneOK BY DEF TableInv
<1>1. /\ spawnPc[w] = "drop" /\ childOf' = [childOf EXCEPT ![n] = "gone"]
      /\ spawnPc' = [spawnPc EXCEPT ![w] = "idle"] /\ spawnJob' = [spawnJob EXCEPT ![w] = 0]
      /\ UNCHANGED <<nextId, slots, table, pruning, phase, pump>>
  BY DEF SpawnDrop, ReapOnDrop, tableVars
<1>2. /\ n \in Jobs /\ n <= nextId
      /\ spawnPc' \in [Spawners -> SpawnerPcs] /\ spawnJob' \in [Spawners -> 0..MaxJobs]
      /\ \A v \in Spawners : spawnPc[v] = "prune" => spawnPc'[v] = "prune"
      /\ \A v \in Spawners : v # w => spawnPc'[v] = spawnPc[v] /\ spawnJob'[v] = spawnJob[v]
      /\ \A v \in Spawners : SpawnerOK(v)'
  BY <1>1, SpawnEnds
<1>3. "idle" \in SpawnerPcs /\ "idle" \notin Holding /\ "drop" \notin Holding
  BY DEF SpawnerPcs, Holding
<1>4. SlotSpawners' = SlotSpawners BY <1>0, <1>1, <1>3, SpawnerMoves
<1>5. /\ childOf' \in [Jobs -> {"none", "alive", "gone"}] /\ childOf'[n] = "gone"
      /\ \A j \in Jobs : j # n => childOf'[j] = childOf[j]
  BY <1>0, <1>1, <1>2 DEF TypesOK
<1>6. TypesOK' BY <1>0, <1>1, <1>2, <1>5 DEF TypesOK
<1>7. SlotsOK'
  <2>1. SlotPumps' = SlotPumps BY <1>1 DEF SlotPumps
  <2> QED BY <1>0, <1>1, <1>4, <2>1 DEF SlotsOK
<1>8. PruneOK'
  <2>1. FinishedJobs' = FinishedJobs /\ OwePrune' = OwePrune BY <1>1 DEF FinishedJobs, OwePrune
  <2> QED BY <1>0, <1>1, <1>2, <2>1, PruneSame
<1>9. ASSUME NEW j \in Jobs PROVE JobOK(j)'
  <2>1. JobOK(j) BY DEF TableInv
  <2>2. CASE j = n
    <3>1. nextId \in Nat /\ ~(n > nextId) BY <1>0, <1>2 DEF TypesOK, Jobs
    <3> QED BY <1>1, <1>5, <2>1, <2>2, <3>1 DEF JobOK
  <2>3. CASE j # n
    <3>1. \A v \in Spawners : spawnJob[v] = j /\ spawnPc[v] \in {"publish", "drop"} =>
            spawnJob'[v] = j /\ spawnPc'[v] \in {"publish", "drop"}
      BY <1>2, <2>3
    <3> QED BY <1>1, <1>5, <2>1, <2>3, <3>1 DEF JobOK
  <2> QED BY <2>2, <2>3
<1> QED BY <1>2, <1>6, <1>7, <1>8, <1>9 DEF TableInv

\* try_wait reaps the child.
LEMMA PumpReapKept ==
  ASSUME TableInv, NEW j \in Jobs, ReapJob(j)
  PROVE  TableInv'
<1>0. TypesOK /\ SlotsOK /\ PruneOK BY DEF TableInv
<1>1. /\ pump[j] = "run" /\ phase[j] = "running"
      /\ childOf' = [childOf EXCEPT ![j] = "gone"] /\ phase' = [phase EXCEPT ![j] = "finishing"]
      /\ UNCHANGED <<nextId, slots, table, pruning, spawnPc, spawnJob, pump>>
  BY DEF ReapJob, tableVars, spawnVars
<1>2. /\ childOf' \in [Jobs -> {"none", "alive", "gone"}] /\ childOf'[j] = "gone"
      /\ \A k \in Jobs : k # j => childOf'[k] = childOf[k]
  BY <1>0, <1>1 DEF TypesOK
<1>3. /\ phase' \in [Jobs -> {"none", "running", "finishing", "exited"}] /\ phase'[j] = "finishing"
      /\ \A k \in Jobs : k # j => phase'[k] = phase[k]
  BY <1>0, <1>1 DEF TypesOK
<1>4. TypesOK' BY <1>0, <1>1, <1>2, <1>3 DEF TypesOK
<1>5. SlotsOK'
  <2>1. SlotPumps' = SlotPumps /\ SlotSpawners' = SlotSpawners BY <1>1 DEF SlotPumps, SlotSpawners
  <2> QED BY <1>0, <1>1, <2>1 DEF SlotsOK
<1>6. PruneOK'
  <2>1. FinishedJobs' = FinishedJobs /\ OwePrune' = OwePrune
    BY <1>1, <1>3 DEF FinishedJobs, OwePrune
  <2> QED BY <1>0, <1>1, <2>1, PruneSame
<1>7. ASSUME NEW k \in Jobs PROVE JobOK(k)'
  <2>1. JobOK(k) BY DEF TableInv
  <2>2. CASE k = j BY <1>1, <1>2, <1>3, <2>1, <2>2 DEF JobOK
  <2>3. CASE k # j BY <1>1, <1>2, <1>3, <2>1, <2>3 DEF JobOK
  <2> QED BY <2>2, <2>3
<1>8. ASSUME NEW v \in Spawners PROVE SpawnerOK(v)'
  <2>1. SpawnerOK(v) BY DEF TableInv
  <2>2. spawnPc[v] \in {"publish", "drop"} => spawnJob[v] \in Jobs /\ spawnJob[v] # j
    BY <1>0, <1>1, <2>1, BrokerAssumption DEF SpawnerOK, TypesOK, Jobs
  <2> QED BY <1>1, <1>3, <2>1, <2>2 DEF SpawnerOK
<1> QED BY <1>4, <1>5, <1>6, <1>7, <1>8 DEF TableInv

\* The exit is published: a finished record more, and a prune owed for it.
LEMMA PumpPublishKept ==
  ASSUME TableInv, NEW j \in Jobs, PublishExit(j)
  PROVE  TableInv'
<1>0. TypesOK /\ SlotsOK /\ PruneOK /\ JobOK(j) BY DEF TableInv
<1>1. /\ pump[j] = "run" /\ phase[j] = "finishing"
      /\ phase' = [phase EXCEPT ![j] = "exited"] /\ pump' = [pump EXCEPT ![j] = AfterPublish(j)]
      /\ UNCHANGED <<nextId, slots, table, pruning, spawnPc, spawnJob, childOf>>
  BY DEF PublishExit, tableVars, spawnVars
<1> DEFINE q == AfterPublish(j)
<1>2. q \in PumpPcs /\ q \in Owing /\ q \notin {"none", "run", "done"} /\ "run" \in Owing
  BY DEF AfterPublish, PumpPcs, Owing
<1> HIDE DEF q
<1>3. /\ pump' \in [Jobs -> PumpPcs] /\ pump'[j] = q
      /\ \A k \in Jobs : k # j => pump'[k] = pump[k]
      /\ SlotPumps' = SlotPumps
  <2>1. pump' = [pump EXCEPT ![j] = q] BY <1>1 DEF q
  <2> QED BY <1>0, <1>1, <1>2, <2>1, PumpMoves
<1>4. /\ phase' \in [Jobs -> {"none", "running", "finishing", "exited"}] /\ phase'[j] = "exited"
      /\ \A k \in Jobs : k # j => phase'[k] = phase[k]
  BY <1>0, <1>1 DEF TypesOK
<1>5. TypesOK' BY <1>0, <1>1, <1>3, <1>4 DEF TypesOK
<1>6. SlotsOK'
  <2>1. SlotSpawners' = SlotSpawners BY <1>1 DEF SlotSpawners
  <2> QED BY <1>0, <1>1, <1>3, <2>1 DEF SlotsOK
<1>7. PruneOK'
  <2> DEFINE by == pruning.by
             f == Cardinality(FinishedJobs)
             o == Cardinality(OwePrune)
             b == Cardinality(OwePrune \ {by})
  <2>1. FinishedJobs' = FinishedJobs \cup {j} /\ j \notin FinishedJobs
    BY <1>0, <1>1, <1>4 DEF FinishedJobs, JobOK
  <2>2. OwePrune' = OwePrune \cup {j} /\ j \notin OwePrune
    BY <1>1, <1>2, <1>3, <1>4 DEF OwePrune
  <2>3. f \in Nat /\ o \in Nat /\ b \in Nat BY OurSets, JobSets
  <2>4. Cardinality(FinishedJobs)' = f + 1 BY <2>1, OurSets, JobSets
  <2>5. Cardinality(OwePrune)' = o + 1 BY <2>2, OurSets, JobSets
  <2>6. f + 1 <= FinishedCap + (o + 1)
    BY <1>0, <2>3, BrokerAssumption DEF PruneOK
  <2>7. ASSUME Locked
        PROVE  /\ by \in Spawners \cup Jobs
               /\ by \in Spawners => spawnPc'[by] = "prune"
               /\ by \in Jobs => pump'[by] = "pruning"
               /\ pruning.left <= f + 1
               /\ f + 1 <= FinishedCap + pruning.left + Cardinality(OwePrune' \ {by})
    <3>1. /\ by \in Spawners \cup Jobs
          /\ by \in Spawners => spawnPc[by] = "prune"
          /\ by \in Jobs => pump[by] = "pruning"
          /\ pruning.left <= f /\ f <= FinishedCap + pruning.left + b
      BY <1>0, <2>7 DEF PruneOK
    <3>2. by # j BY <1>1, <3>1
    <3>3. OwePrune' \ {by} = (OwePrune \ {by}) \cup {j} /\ j \notin OwePrune \ {by}
          /\ OwePrune \ {by} \in SUBSET Jobs
      BY <2>2, <3>2, OurSets
    <3>4. Cardinality(OwePrune' \ {by}) = b + 1 BY <3>3, JobSets
    <3>5. pruning.left \in Nat BY <1>0 DEF TypesOK
    <3> HIDE DEF f, o, b
    <3>6. pruning.left <= f + 1 /\ f + 1 <= FinishedCap + pruning.left + (b + 1)
      BY <2>3, <3>1, <3>5, BrokerAssumption
    <3> QED BY <1>1, <1>3, <3>1, <3>2, <3>4, <3>6
  <2>8. Locked' <=> Locked BY <1>1 DEF Locked
  <2> HIDE DEF f, o, b
  <2> QED BY <1>1, <2>4, <2>5, <2>6, <2>7, <2>8 DEF PruneOK
<1>8. ASSUME NEW k \in Jobs PROVE JobOK(k)'
  <2>1. JobOK(k) BY DEF TableInv
  <2>2. CASE k = j BY <1>1, <1>2, <1>3, <1>4, <2>1, <2>2 DEF JobOK
  <2>3. CASE k # j BY <1>1, <1>3, <1>4, <2>1, <2>3 DEF JobOK
  <2> QED BY <2>2, <2>3
<1>9. ASSUME NEW v \in Spawners PROVE SpawnerOK(v)'
  <2>1. SpawnerOK(v) BY DEF TableInv
  <2>2. spawnPc[v] \in {"publish", "drop"} => spawnJob[v] \in Jobs /\ spawnJob[v] # j
    BY <1>0, <1>1, <2>1, BrokerAssumption DEF SpawnerOK, TypesOK, Jobs
  <2> QED BY <1>1, <1>4, <2>1, <2>2 DEF SpawnerOK
<1> QED BY <1>5, <1>6, <1>7, <1>8, <1>9 DEF TableInv

\* The pump remembers the exit, hangs up, and returns its slot.
LEMMA PumpGoesOn ==
  ASSUME TableInv, NEW j \in Jobs, PumpRemember(j) \/ NotifyHolder(j) \/ PumpReturn(j)
  PROVE  TableInv'
<1>0. TypesOK /\ SlotsOK /\ PruneOK /\ JobOK(j) BY DEF TableInv
<1>1. UNCHANGED <<nextId, table, pruning, spawnPc, spawnJob, childOf, phase>>
  BY DEF PumpRemember, NotifyHolder, PumpReturn, tableVars, spawnVars
<1>2. PICK q \in {"notify", "return", "prune"} : pump' = [pump EXCEPT ![j] = q]
        /\ \/ pump[j] \in {"remember", "notify"} /\ q \in {"notify", "return"} /\ slots' = slots
           \/ pump[j] = "return" /\ q = "prune" /\ slots' = slots - 1
  BY DEF PumpRemember, NotifyHolder, PumpReturn, tableVars
<1>3. q \in PumpPcs /\ Owing = {"run", "remember", "notify", "return"} BY DEF PumpPcs, Owing
<1>4. /\ pump' \in [Jobs -> PumpPcs] /\ pump'[j] = q
      /\ \A k \in Jobs : k # j => pump'[k] = pump[k]
      /\ pump[j] \in Owing /\ q \in Owing => SlotPumps' = SlotPumps
      /\ pump[j] \in Owing /\ q \notin Owing => SlotPumps' = SlotPumps \ {j} /\ j \in SlotPumps
  BY <1>0, <1>2, <1>3, PumpMoves
<1>5. slots' \in Int BY <1>0, <1>2 DEF TypesOK
<1>6. TypesOK' BY <1>0, <1>1, <1>4, <1>5 DEF TypesOK
<1>7. SlotsOK'
  <2>1. SlotSpawners' = SlotSpawners BY <1>1 DEF SlotSpawners
  <2>2. /\ IsFiniteSet(SlotSpawners) /\ slots \in Int /\ MaxRunning \in Nat /\ slots <= MaxRunning
        /\ slots = Cardinality(SlotSpawners) + Cardinality(SlotPumps)
    BY <1>0, BrokerAssumption DEF SlotsOK, TypesOK
  <2>3. Cardinality(SlotSpawners) \in Nat BY <2>2, FS_CardinalityType
  <2>4. CASE slots' = slots /\ q \in {"notify", "return"} /\ pump[j] \in {"remember", "notify"}
    <3>1. SlotPumps' = SlotPumps BY <1>3, <1>4, <2>4
    <3> QED BY <2>1, <2>2, <2>4, <3>1 DEF SlotsOK
  <2>5. CASE pump[j] = "return" /\ q = "prune" /\ slots' = slots - 1
    <3>1. SlotPumps' = SlotPumps \ {j} /\ j \in SlotPumps BY <1>3, <1>4, <2>5
    <3>2. Cardinality(SlotPumps') = Cardinality(SlotPumps) - 1 /\ Cardinality(SlotPumps) \in Nat
      BY <3>1, OurSets, JobSets
    <3> QED BY <2>1, <2>2, <2>3, <2>5, <3>2 DEF SlotsOK
  <2> QED BY <1>2, <2>4, <2>5
<1>8. PruneOK'
  <2>1. FinishedJobs' = FinishedJobs BY <1>1 DEF FinishedJobs
  <2>2. OwePrune' = OwePrune BY <1>1, <1>2, <1>4 DEF OwePrune
  <2>3. \A k \in Jobs : pump[k] = "pruning" => pump'[k] = "pruning" BY <1>2, <1>4
  <2> QED BY <1>0, <1>1, <2>1, <2>2, <2>3, PruneSame
<1>9. ASSUME NEW k \in Jobs PROVE JobOK(k)'
  <2>1. JobOK(k) BY DEF TableInv
  <2>2. CASE k = j BY <1>1, <1>2, <1>4, <2>1, <2>2 DEF JobOK
  <2>3. CASE k # j BY <1>1, <1>4, <2>1, <2>3 DEF JobOK
  <2> QED BY <2>2, <2>3
<1>10. \A v \in Spawners : SpawnerOK(v)' BY <1>1 DEF TableInv, SpawnerOK
<1> QED BY <1>6, <1>7, <1>8, <1>9, <1>10 DEF TableInv

-----------------------------------------------------------------------------
(* The table *)

\* An empty table.
LEMMA TableInit == BrokerInit => TableInv
<1> SUFFICES ASSUME BrokerInit PROVE TableInv
  OBVIOUS
<1>1. \A j : ~In(table, j) BY DEF BrokerInit, In
<1>2. TypesOK
  <2>1. NoPrune \in [by : Spawners \cup Jobs \cup {0}, left : Nat, failed : BOOLEAN] BY DEF NoPrune
  <2>2. table \in Seq(Jobs) /\ Distinct(table) BY DEF BrokerInit, Distinct
  <2>3. 0 \in 0..MaxJobs BY BrokerAssumption
  <2> QED BY <2>1, <2>2, <2>3 DEF BrokerInit, TypesOK, SpawnerPcs, PumpPcs
<1>3. SlotsOK
  <2>1. SlotSpawners = {} /\ SlotPumps = {} BY DEF BrokerInit, SlotSpawners, SlotPumps, Holding, Owing
  <2>2. IsFiniteSet({}) /\ Cardinality({}) = 0 BY FS_EmptySet
  <2>3. slots = 0 /\ MaxRunning \in Nat BY BrokerAssumption DEF BrokerInit
  <2> QED BY <2>1, <2>2, <2>3 DEF SlotsOK
<1>4. PruneOK
  <2>1. FinishedJobs = {} BY <1>1 DEF FinishedJobs
  <2>2. OwePrune = {} BY DEF BrokerInit, OwePrune
  <2>3. Cardinality({}) = 0 BY FS_EmptySet
  <2>4. ~Locked BY DEF BrokerInit, Locked
  <2> QED BY <2>1, <2>2, <2>3, <2>4, BrokerAssumption DEF PruneOK
<1>5. \A j \in Jobs : JobOK(j) BY <1>1 DEF BrokerInit, JobOK
<1>6. \A w \in Spawners : SpawnerOK(w) BY DEF BrokerInit, SpawnerOK
<1> QED BY <1>2, <1>3, <1>4, <1>5, <1>6 DEF TableInv

\* Every step keeps the table's bounds and owners.
LEMMA TableNext == TableInv /\ [BrokerNext]_brokerVars => TableInv'
<1> SUFFICES ASSUME TableInv, [BrokerNext]_brokerVars PROVE TableInv'
  OBVIOUS
<1>1. CASE Prune BY <1>1, PruneRecordKept, PruneEndKept DEF Prune
<1>2. ASSUME NEW w \in Spawners, Spawn(w) PROVE TableInv'
  BY <1>2, SpawnPruneKept, SpawnSlotKept, SpawnSetupKept, SpawnPublishKept, SpawnDropKept DEF Spawn
<1>3. ASSUME NEW j \in Jobs, ReapJob(j) \/ PumpEnd(j) \/ Remove(j) PROVE TableInv'
  BY <1>3, PumpReapKept, PumpPublishKept, PumpGoesOn, PumpPruneKept, RemoveKept DEF PumpEnd
<1>4. ASSUME NEW j \in Jobs, DropHolder(j) PROVE TableInv'
  <2>1. UNCHANGED core BY <1>4 DEF DropHolder, core, tableVars, spawnVars
  <2> QED BY <2>1, CoreSame
<1>5. ASSUME NEW c \in Clients, ClientWorker(c) \/ Status(c) \/ ClientDetach(c) PROVE TableInv'
  <2>1. UNCHANGED core
    BY <1>5 DEF ClientWorker, WorkerDetach, WorkerCheck, WorkerDiscard, Status, StatusTake, StatusFind,
                ClientDetach, core, tableVars, spawnVars, recordVars
  <2> QED BY <2>1, CoreSame
<1>6. ASSUME NEW c \in Clients, NEW j \in Jobs,
             Attach(c, j) \/ AttachReplayFails(c, j) \/ AttachRefusal(c, j)
      PROVE  TableInv'
  <2>1. UNCHANGED core
    BY <1>6 DEF Attach, AttachReplayFails, AttachRefusal, core, tableVars, spawnVars
  <2> QED BY <2>1, CoreSame
<1>7. CASE UNCHANGED brokerVars
  <2>1. UNCHANGED core BY <1>7 DEF brokerVars, core, tableVars, spawnVars, recordVars
  <2> QED BY <2>1, CoreSame
<1> QED BY <1>1, <1>2, <1>3, <1>4, <1>5, <1>6, <1>7 DEF BrokerNext

\* The records, the slots and the children always have their bounds and owners: finished
\* records above the cap each have a pump that will still prune, running jobs stay below
\* MAX_RUNNING_JOBS, and every child alive has a thread that reaps it.
THEOREM TableAlwaysOwned == BrokerSpec => []TableOwned
<1>1. TableInv => TableOwned
  <2> SUFFICES ASSUME TableInv PROVE TableOwned
    OBVIOUS
  <2>1. TypesOK /\ SlotsOK /\ PruneOK /\ \A j \in Jobs : JobOK(j) BY DEF TableInv
  <2>2. TableBounded
    <3> DEFINE R == {j \in Jobs : In(table, j) /\ phase[j] # "exited"}
    <3>1. Cardinality(FinishedInTable) = Cardinality(FinishedJobs)
          /\ Cardinality({i \in 1..Len(table) : ~Finished(table[i])}) = Cardinality(R)
      BY <2>1, FinishedCounted
    <3>2. OwePrune = {j \in Jobs : Finished(j) /\ pump[j] # "done"} BY DEF OwePrune, Finished
    <3>3. R \subseteq SlotPumps
      <4> SUFFICES ASSUME NEW j \in R PROVE j \in SlotPumps
        OBVIOUS
      <4>1. phase[j] \in {"running", "finishing"} BY <2>1 DEF JobOK, TypesOK
      <4>2. pump[j] = "run" BY <2>1, <4>1 DEF JobOK
      <4> QED BY <4>2 DEF SlotPumps, Owing
    <3>4. Cardinality(R) <= Cardinality(SlotPumps) /\ Cardinality(R) \in Nat
      <4>1. IsFiniteSet(SlotPumps) BY OurSets, JobSets
      <4>2. Cardinality(R) <= Cardinality(SlotPumps) BY <3>3, <4>1, FS_Subset
      <4>3. R \in SUBSET Jobs OBVIOUS
      <4> HIDE DEF R
      <4> QED BY <4>2, <4>3, JobSets
    <3>5. Cardinality(SlotPumps) \in Nat /\ Cardinality(SlotSpawners) \in Nat
      BY <2>1, OurSets, JobSets, FS_CardinalityType DEF SlotsOK
    <3>6. Cardinality(R) <= MaxRunning BY <2>1, <3>4, <3>5, BrokerAssumption DEF SlotsOK, TypesOK
    <3> HIDE DEF R
    <3> QED BY <2>1, <3>1, <3>2, <3>6 DEF TableBounded, PruneOK
  <2>3. ChildrenOwned
    <3>1. ASSUME NEW j \in Jobs, childOf[j] = "alive"
          PROVE  \/ pump[j] = "run" /\ InTable(j)
                 \/ \E w \in Spawners : spawnJob[w] = j /\ spawnPc[w] \in {"publish", "drop"}
      BY <2>1, <3>1 DEF JobOK, In, InTable
    <3>2. SlotSpawners = {w \in Spawners : spawnPc[w] \in {"setup", "publish"}}
          /\ SlotPumps = {j \in Jobs : pump[j] \in {"run", "remember", "notify", "return"}}
      BY DEF SlotSpawners, SlotPumps, Holding, Owing
    <3> QED BY <2>1, <3>1, <3>2 DEF ChildrenOwned, SlotsOK
  <2> QED BY <2>2, <2>3 DEF TableOwned
<1> QED BY <1>1, TableInit, TableNext, PTL DEF BrokerSpec

-----------------------------------------------------------------------------
(* How a client learns the exit status *)

ClientPcs == {"idle", "attached", "eof", "find", "done"}
Outcomes == {"none", "exited", "error", "detached", "takenover"}
ClientType == [pc : ClientPcs, job : 0..MaxJobs, token : Nat, outcome : Outcomes,
               code : 0..MaxJobs]
Entries == {e \in [id : Jobs, token : Nat, code : Jobs] : e.code = e.id}

\* The sequence p of pending exits has one for this job and token.
Has(p, id, token) == \E i \in 1..Len(p) : SameKey(p[i], id, token)

ExitTypes ==
  /\ pending \in Seq(Entries)
  /\ holder \in [Jobs -> Clients \cup {NoClient}] /\ slotGen \in [Jobs -> Nat]
  /\ taken \in [Jobs -> Clients \cup {NoClient}]
  /\ client \in [Clients -> ClientType]
  /\ workerPc \in [Clients -> {"none", "pump", "check", "discard", "done"}]

\* The client still sees its stream as open, or has left it by the detach key.
Away(c) == client[c].pc = "attached" \/ (client[c].pc = "done" /\ client[c].outcome = "detached")

\* Who is in the attach slot is attached to this job, and who was taken is its holder.
HeldOK(j) ==
  holder[j] # NoClient =>
    /\ phase[j] \in {"running", "finishing"} /\ client[holder[j]].job = j
    /\ workerPc[holder[j]] = "pump" /\ Away(holder[j])
SlotOK(j) ==
  /\ HeldOK(j)
  /\ taken[j] # NoClient => phase[j] = "exited" /\ client[taken[j]].job = j
  /\ pump[j] \in {"remember", "notify"} => taken[j] # NoClient

ClientOK(c) ==
  /\ client[c].pc = "idle" => client[c].job = 0
  /\ client[c].pc # "done" => client[c].outcome = "none"
  /\ client[c].outcome = "exited" => client[c].code = client[c].job

Remembered(c) == Has(pending, client[c].job, client[c].token)
Lost(c) ==
  \/ <<client[c].job, client[c].token>> \in evicted
  \/ \E d \in Clients \ {c} : client[d].job = client[c].job /\ client[d].token = client[c].token

\* The client c that the exit of j took: until it has asked, its status is still to be
\* remembered, is remembered, or is lost; its own worker does not discard it.
TakenOK(j, c) ==
  /\ workerPc[c] # "discard"
  /\ pump[j] = "remember" => Away(c)
  /\ pump[j] # "remember" /\ client[c].pc \in {"attached", "eof"} => Remembered(c) \/ Lost(c)
  /\ client[c].pc = "find" \/ client[c].outcome = "error" => Lost(c)

ExitInv ==
  /\ ExitTypes
  /\ \A j \in Jobs : SlotOK(j)
  /\ \A c \in Clients : ClientOK(c)
  /\ \A j \in Jobs, c \in Clients : taken[j] = c => TakenOK(j, c)

\* Taking a key's entry out leaves the entries of every other key.
LEMMA UnkeyedFacts ==
  ASSUME pending \in Seq(Entries), NEW id, NEW token
  PROVE  /\ Unkeyed(id, token) \in Seq(Entries)
         /\ \A a, b : Has(pending, a, b) /\ ~(a = id /\ b = token) => Has(Unkeyed(id, token), a, b)
<1> DEFINE K == Keyed(id, token)
<1>1. CASE K = {} BY <1>1 DEF Unkeyed
<1>2. CASE K # {}
  <2> DEFINE i == First(K)
             u == Without(pending, i)
             l == Len(pending)
  <2>1. l \in Nat OBVIOUS
  <2>2. K \in SUBSET Nat /\ K \subseteq 1..l BY DEF Keyed
  <2>3. i \in K BY <1>2, <2>2, FirstExists
  <2>4. i \in 1..l /\ SameKey(pending[i], id, token) BY <2>3 DEF Keyed
  <2>5. /\ u \in Seq(Entries) /\ Len(u) = l - 1
        /\ \A k \in 1..(l - 1) : u[k] = IF k < i THEN pending[k] ELSE pending[k + 1]
    BY <2>4, WithoutFacts
  <2>6. Unkeyed(id, token) = u BY <1>2 DEF Unkeyed
  <2> HIDE DEF i, u, l, K
  <2>7. ASSUME NEW a, NEW b, Has(pending, a, b), ~(a = id /\ b = token) PROVE Has(u, a, b)
    <3>1. PICK k \in 1..l : SameKey(pending[k], a, b) BY <2>7 DEF Has, l
    <3>2. k # i BY <2>4, <2>7, <3>1 DEF SameKey
    <3>3. CASE k < i
      <4>1. k \in 1..(l - 1) /\ u[k] = pending[k] BY <2>1, <2>4, <2>5, <3>3
      <4> QED BY <2>5, <3>1, <4>1 DEF Has
    <3>4. CASE ~(k < i)
      <4>1. k - 1 \in 1..(l - 1) /\ ~(k - 1 < i) /\ (k - 1) + 1 = k BY <2>1, <2>4, <3>2, <3>4
      <4>2. u[k - 1] = pending[k] BY <2>5, <4>1
      <4> QED BY <2>5, <3>1, <4>1, <4>2 DEF Has
    <3> QED BY <3>3, <3>4
  <2> QED BY <2>5, <2>6, <2>7
<1> QED BY <1>1, <1>2

\* An entry appended behind all but the first n of s.
LEMMA RememberFacts ==
  ASSUME NEW s \in Seq(Entries), NEW n \in 0..Len(s), NEW e \in Entries,
         NEW q, q = Append(SubSeq(s, n + 1, Len(s)), e)
  PROVE  /\ q \in Seq(Entries) /\ Has(q, e.id, e.token)
         /\ \A a, b : Has(s, a, b) =>
              Has(q, a, b) \/ <<a, b>> \in {<<s[i].id, s[i].token>> : i \in 1..n}
<1> DEFINE l == Len(s)
           r == SubSeq(s, n + 1, l)
<1>1. l \in Nat /\ n \in Nat /\ n <= l OBVIOUS
<1>2. r \in Seq(Entries) /\ Len(r) = l - n /\ \A k \in 1..(l - n) : r[k] = s[n + k]
  OBVIOUS
<1>3. q = Append(r, e) OBVIOUS
<1> HIDE DEF r, l
<1>4. /\ q \in Seq(Entries) /\ Len(q) = Len(r) + 1
      /\ \A k \in 1..Len(r) : q[k] = r[k]
      /\ q[Len(r) + 1] = e
  BY <1>2, <1>3, AppendProperties
<1>5. Has(q, e.id, e.token)
  <2>1. Len(r) + 1 \in 1..Len(q) BY <1>1, <1>2, <1>4
  <2> QED BY <1>4, <2>1 DEF Has, SameKey
<1>6. ASSUME NEW a, NEW b, Has(s, a, b)
      PROVE  Has(q, a, b) \/ <<a, b>> \in {<<s[i].id, s[i].token>> : i \in 1..n}
  <2>1. PICK k \in 1..l : SameKey(s[k], a, b) BY <1>6 DEF Has, l
  <2>2. CASE k <= n
    <3>1. k \in 1..n /\ s[k].id = a /\ s[k].token = b BY <1>1, <2>1, <2>2 DEF SameKey
    <3> QED BY <3>1
  <2>3. CASE ~(k <= n)
    <3>1. k - n \in 1..(l - n) /\ n + (k - n) = k BY <1>1, <2>3
    <3>2. k - n \in 1..Len(r) /\ k - n \in 1..Len(q) BY <1>1, <1>2, <1>4, <3>1
    <3>3. q[k - n] = s[k] BY <1>2, <1>4, <3>1, <3>2
    <3> QED BY <2>1, <3>2, <3>3 DEF Has
  <2> QED BY <2>2, <2>3
<1> QED BY <1>4, <1>5, <1>6

\* A status that is lost stays lost: clients attach once.
LEMMA LostKept ==
  ASSUME NEW c \in Clients, Lost(c), client[c].job # 0, evicted \subseteq evicted',
         \A d \in Clients : client[d].job # 0 =>
           client'[d].job = client[d].job /\ client'[d].token = client[d].token
  PROVE  Lost(c)'
<1>1. client'[c].job = client[c].job /\ client'[c].token = client[c].token OBVIOUS
<1>2. CASE <<client[c].job, client[c].token>> \in evicted BY <1>1, <1>2 DEF Lost
<1>3. CASE \E d \in Clients \ {c} : client[d].job = client[c].job /\ client[d].token = client[c].token
  <2>1. PICK d \in Clients \ {c} : client[d].job = client[c].job /\ client[d].token = client[c].token
    BY <1>3
  <2>2. client'[d].job = client'[c].job /\ client'[d].token = client'[c].token BY <1>1, <2>1
  <2> QED BY <2>2 DEF Lost
<1> QED BY <1>2, <1>3 DEF Lost

\* What a spawn, a prune or a pump does to jobs without touching attachments.
GoesOn(j) ==
  \/ /\ phase'[j] = phase[j]
     /\ \/ pump'[j] = pump[j]
        \/ pump[j] # "remember" /\ pump'[j] \notin {"remember", "notify"}
  \/ /\ phase[j] # "exited" /\ phase'[j] \in {"running", "finishing"}
     /\ pump'[j] \notin {"remember", "notify"}

\* Such steps keep what clients can learn.
LEMMA JobsGoOn ==
  ASSUME ExitInv, UNCHANGED <<exitVars, holder, slotGen, taken, clientVars>>,
         \A j \in Jobs : GoesOn(j)
  PROVE  ExitInv'
<1> USE DEF exitVars, clientVars
<1>1. ExitTypes' BY DEF ExitInv, ExitTypes
<1>2. ASSUME NEW j \in Jobs PROVE SlotOK(j)'
  <2>1. SlotOK(j) /\ GoesOn(j) BY DEF ExitInv
  <2> QED BY <2>1 DEF SlotOK, HeldOK, GoesOn, Away
<1>3. \A c \in Clients : ClientOK(c)' BY DEF ExitInv, ClientOK
<1>4. ASSUME NEW j \in Jobs, NEW c \in Clients, taken'[j] = c PROVE TakenOK(j, c)'
  <2>1. SlotOK(j) /\ GoesOn(j) /\ TakenOK(j, c) /\ c # NoClient BY <1>4, BrokerAssumption DEF ExitInv
  <2>2. phase[j] = "exited" BY <1>4, <2>1 DEF SlotOK
  <2>3. pump'[j] = pump[j] \/ (pump[j] # "remember" /\ pump'[j] # "remember")
    <3>1. CASE phase'[j] = phase[j] BY <2>1, <2>2, <3>1 DEF GoesOn
    <3>2. CASE phase'[j] # phase[j] BY <2>1, <2>2, <3>2 DEF GoesOn
    <3> QED BY <3>1, <3>2
  <2>4. Lost(c)' <=> Lost(c) BY DEF Lost
  <2>5. Remembered(c)' <=> Remembered(c) BY DEF Remembered
  <2>6. Away(c)' <=> Away(c) BY DEF Away
  <2> QED BY <2>1, <2>3, <2>4, <2>5, <2>6 DEF TakenOK
<1> QED BY <1>1, <1>2, <1>3, <1>4 DEF ExitInv

\* A prune, a spawn, a removal, or a pump that has dealt with its attachment.
LEMMA QuietKept ==
  ASSUME TableInv, ExitInv,
         \/ Prune \/ \E w \in Spawners : Spawn(w)
         \/ \E j \in Jobs : ReapJob(j) \/ PumpReturn(j) \/ PumpPrune(j) \/ Remove(j)
  PROVE  ExitInv'
<1>1. TypesOK /\ PruneOK /\ (\A w \in Spawners : SpawnerOK(w)) /\ \A j \in Jobs : JobOK(j)
  BY DEF TableInv
<1>t. pump \in [Jobs -> PumpPcs] /\ phase \in [Jobs -> {"none", "running", "finishing", "exited"}]
  BY <1>1 DEF TypesOK
<1> USE DEF exitVars, clientVars, tableVars, spawnVars, recordVars
<1>2. CASE PruneRecord
  <2>1. \A j \in Jobs : GoesOn(j) BY <1>2 DEF PruneRecord, GoesOn
  <2>2. UNCHANGED <<exitVars, holder, slotGen, taken, clientVars>> BY <1>2 DEF PruneRecord
  <2> QED BY <2>1, <2>2, JobsGoOn
<1>3. CASE PruneEnd
  <2>1. pruning.by \in Jobs => pump[pruning.by] = "pruning" BY <1>1, <1>3 DEF PruneEnd, PruneOK
  <2>2. ASSUME NEW j \in Jobs PROVE GoesOn(j) BY <1>t, <1>3, <2>1 DEF PruneEnd, GoesOn
  <2>3. UNCHANGED <<exitVars, holder, slotGen, taken, clientVars>> BY <1>3 DEF PruneEnd
  <2> QED BY <2>2, <2>3, JobsGoOn
<1>4. ASSUME NEW w \in Spawners, Spawn(w) PROVE ExitInv'
  <2>1. CASE SpawnPublish(w)
    <3>1. spawnJob[w] \in Jobs /\ phase[spawnJob[w]] = "none"
      BY <1>1, <2>1 DEF SpawnPublish, SpawnerOK, TypesOK, Jobs
    <3>2. ASSUME NEW j \in Jobs PROVE GoesOn(j) BY <1>t, <2>1, <3>1 DEF SpawnPublish, GoesOn
    <3>3. UNCHANGED <<exitVars, holder, slotGen, taken, clientVars>> BY <2>1 DEF SpawnPublish
    <3> QED BY <3>2, <3>3, JobsGoOn
  <2>2. CASE ~SpawnPublish(w)
    <3>1. UNCHANGED <<phase, pump, exitVars, holder, slotGen, taken, clientVars>>
      BY <1>4, <2>2 DEF Spawn, SpawnPrune, SpawnReserve, SpawnSetup, SpawnSetupFails,
                        SpawnThreadFails, SpawnDrop
    <3>2. \A j \in Jobs : GoesOn(j) BY <3>1 DEF GoesOn
    <3> QED BY <3>1, <3>2, JobsGoOn
  <2> QED BY <2>1, <2>2
<1>5. ASSUME NEW j \in Jobs, ReapJob(j) PROVE ExitInv'
  <2>1. ASSUME NEW k \in Jobs PROVE GoesOn(k) BY <1>t, <1>5 DEF ReapJob, GoesOn
  <2>2. UNCHANGED <<exitVars, holder, slotGen, taken, clientVars>> BY <1>5 DEF ReapJob
  <2> QED BY <2>1, <2>2, JobsGoOn
<1>6. ASSUME NEW j \in Jobs, PumpReturn(j) \/ PumpPrune(j) PROVE ExitInv'
  <2>1. ASSUME NEW k \in Jobs PROVE GoesOn(k) BY <1>t, <1>6 DEF PumpReturn, PumpPrune, GoesOn
  <2>2. UNCHANGED <<exitVars, holder, slotGen, taken, clientVars>>
    BY <1>6 DEF PumpReturn, PumpPrune
  <2> QED BY <2>1, <2>2, JobsGoOn
<1>7. ASSUME NEW j \in Jobs, Remove(j) PROVE ExitInv'
  <2>1. UNCHANGED <<phase, pump, exitVars, holder, slotGen, taken, clientVars>> BY <1>7 DEF Remove
  <2>2. \A k \in Jobs : GoesOn(k) BY <2>1 DEF GoesOn
  <2> QED BY <2>1, <2>2, JobsGoOn
<1> QED BY <1>2, <1>3, <1>4, <1>5, <1>6, <1>7 DEF Prune

\* The exit is published and takes the attachment.
LEMMA PublishKept ==
  ASSUME TableInv, ExitInv, NEW j \in Jobs, PublishExit(j)
  PROVE  ExitInv'
<1> USE DEF exitVars, clientVars, tableVars, spawnVars
<1>1. /\ pump[j] = "run" /\ phase[j] = "finishing"
      /\ phase' = [phase EXCEPT ![j] = "exited"] /\ taken' = [taken EXCEPT ![j] = holder[j]]
      /\ holder' = [holder EXCEPT ![j] = NoClient] /\ pump' = [pump EXCEPT ![j] = AfterPublish(j)]
      /\ UNCHANGED <<pending, evicted, slotGen, client, workerPc>>
  BY DEF PublishExit
<1>2. /\ pump \in [Jobs -> PumpPcs]
      /\ phase \in [Jobs -> {"none", "running", "finishing", "exited"}]
  BY DEF TableInv, TypesOK
<1>3. ExitTypes BY DEF ExitInv
<1>4. ExitTypes' BY <1>1, <1>3 DEF ExitTypes
<1>5. \A c \in Clients : (Lost(c)' <=> Lost(c)) /\ (Remembered(c)' <=> Remembered(c))
                         /\ (Away(c)' <=> Away(c))
  BY <1>1 DEF Lost, Remembered, Away
<1>6. ASSUME NEW k \in Jobs PROVE SlotOK(k)'
  <2>1. SlotOK(k) BY DEF ExitInv
  <2>2. CASE k = j
    <3>1. /\ holder'[j] = NoClient /\ taken'[j] = holder[j] /\ phase'[j] = "exited"
          /\ pump'[j] = IF holder[j] = NoClient THEN "return" ELSE "remember"
      BY <1>1, <1>2, <1>3 DEF ExitTypes, AfterPublish
    <3> QED BY <1>1, <2>1, <2>2, <3>1 DEF SlotOK, HeldOK
  <2>3. CASE k # j
    <3>1. holder'[k] = holder[k] /\ taken'[k] = taken[k] /\ phase'[k] = phase[k] /\ pump'[k] = pump[k]
      BY <1>1, <1>2, <1>3, <2>3 DEF ExitTypes
    <3> QED BY <1>1, <2>1, <3>1 DEF SlotOK, HeldOK, Away
  <2> QED BY <2>2, <2>3
<1>7. \A c \in Clients : ClientOK(c)' BY <1>1 DEF ExitInv, ClientOK
<1>8. ASSUME NEW k \in Jobs, NEW c \in Clients, taken'[k] = c PROVE TakenOK(k, c)'
  <2>1. CASE k = j
    <3>1. holder[j] = c /\ c # NoClient BY <1>1, <1>3, <1>8, <2>1, BrokerAssumption DEF ExitTypes
    <3>2. workerPc[c] = "pump" /\ Away(c) /\ ClientOK(c) BY <3>1 DEF ExitInv, SlotOK, HeldOK
    <3>3. pump'[j] = "remember" BY <1>1, <1>2, <3>1 DEF AfterPublish
    <3>4. client[c].pc # "find" /\ client[c].outcome # "error" BY <3>2 DEF Away, ClientOK
    <3>5. workerPc'[c] # "discard" /\ client' = client BY <1>1, <3>2
    <3> QED BY <1>5, <2>1, <3>2, <3>3, <3>4, <3>5 DEF TakenOK
  <2>2. CASE k # j
    <3>1. taken[k] = c /\ pump'[k] = pump[k] BY <1>1, <1>2, <1>3, <1>8, <2>2 DEF ExitTypes
    <3>2. TakenOK(k, c) BY <3>1, SMTT(30) DEF ExitInv
    <3> QED BY <1>1, <1>5, <3>1, <3>2 DEF TakenOK
  <2> QED BY <2>1, <2>2
<1> QED BY <1>4, <1>6, <1>7, <1>8 DEF ExitInv

\* The exit of j is remembered under its holder's key.
LEMMA RememberKept ==
  ASSUME TableInv, ExitInv, NEW j \in Jobs, PumpRemember(j)
  PROVE  ExitInv'
<1> USE DEF tableVars, spawnVars, clientVars
<1> DEFINE token == client[taken[j]].token
           kept == Unkeyed(j, token)
           room == IF Len(kept) >= PendingCap THEN Len(kept) - PendingCap + 1 ELSE 0
           e == [id |-> j, token |-> token, code |-> j]
           G == {<<kept[i].id, kept[i].token>> : i \in 1..room}
<1>1. /\ pump[j] = "remember" /\ pending' = Append(SubSeq(kept, room + 1, Len(kept)), e)
      /\ evicted' = evicted \cup G /\ pump' = [pump EXCEPT ![j] = "notify"]
      /\ UNCHANGED <<phase, holder, slotGen, taken, client, workerPc>>
  BY DEF PumpRemember
<1>2. ExitTypes /\ pump \in [Jobs -> PumpPcs] /\ SlotOK(j) BY DEF ExitInv, TableInv, TypesOK
<1>3. taken[j] \in Clients /\ client[taken[j]].job = j /\ client[taken[j]] \in ClientType
  BY <1>1, <1>2 DEF SlotOK, ExitTypes
<1>4. token \in Nat BY <1>3 DEF ClientType
<1>5. /\ kept \in Seq(Entries)
      /\ \A a, b : Has(pending, a, b) /\ ~(a = j /\ b = token) => Has(kept, a, b)
  BY <1>2, UnkeyedFacts DEF ExitTypes
<1>6. e \in Entries /\ e.id = j /\ e.token = token BY <1>4 DEF Entries
<1> HIDE DEF kept, e, token
<1>7. room \in 0..Len(kept)
  <2>1. Len(kept) \in Nat /\ PendingCap \in Nat /\ PendingCap >= 1 BY <1>5, BrokerAssumption
  <2> QED BY <2>1
<1> HIDE DEF room
<1>8. /\ pending' \in Seq(Entries) /\ Has(pending', j, token)
      /\ \A a, b : Has(kept, a, b) => Has(pending', a, b) \/ <<a, b>> \in G
  BY <1>1, <1>5, <1>6, <1>7, RememberFacts
<1> HIDE DEF G
<1>9. ExitTypes' BY <1>1, <1>2, <1>8 DEF ExitTypes
<1>10. ASSUME NEW k \in Jobs PROVE SlotOK(k)'
  <2>1. SlotOK(k) BY DEF ExitInv
  <2>2. pump'[k] = IF k = j THEN "notify" ELSE pump[k] BY <1>1, <1>2
  <2> QED BY <1>1, <2>1, <2>2 DEF SlotOK, HeldOK, Away
<1>11. \A c \in Clients : ClientOK(c)' BY <1>1 DEF ExitInv, ClientOK
<1>12. ASSUME NEW k \in Jobs, NEW c \in Clients, taken'[k] = c PROVE TakenOK(k, c)'
  <2>1. TakenOK(k, c) /\ SlotOK(k) /\ taken[k] = c /\ c # NoClient
    BY <1>1, <1>12, BrokerAssumption DEF ExitInv
  <2>2. client[c].job = k /\ k # 0 BY <2>1 DEF SlotOK, Jobs
  <2>3. Lost(c) => Lost(c)'
    <3>1. evicted \subseteq evicted' BY <1>1
    <3> QED BY <1>1, <2>2, <3>1, LostKept
  <2>4. Away(c)' <=> Away(c) BY <1>1 DEF Away
  <2>5. Remembered(c)' \/ (k # j /\ (Remembered(c) => Lost(c)'))
    <3>1. CASE k = j
      <4>1. client'[c].job = j /\ client'[c].token = token BY <1>1, <2>1, <2>2, <3>1 DEF token
      <4> QED BY <1>8, <4>1 DEF Remembered
    <3>2. CASE k # j
      <4>1. CASE Remembered(c)
        <5>1. Has(kept, client[c].job, client[c].token) BY <1>5, <2>2, <3>2, <4>1 DEF Remembered
        <5>2. Has(pending', client[c].job, client[c].token)
              \/ <<client[c].job, client[c].token>> \in evicted'
          BY <1>1, <1>8, <5>1
        <5> QED BY <1>1, <3>2, <5>2 DEF Remembered, Lost
      <4> QED BY <3>2, <4>1
    <3> QED BY <3>1, <3>2
  <2>6. pump'[k] = IF k = j THEN "notify" ELSE pump[k] BY <1>1, <1>2
  <2>7. client' = client /\ workerPc' = workerPc BY <1>1
  <2> QED BY <2>1, <2>3, <2>4, <2>5, <2>6, <2>7 DEF TakenOK
<1> QED BY <1>9, <1>10, <1>11, <1>12 DEF ExitInv

\* A stream that ends leaves everything else of the client as it is.
LEMMA HungUp ==
  ASSUME client \in [Clients -> ClientType], NEW c \in Clients
  PROVE  /\ HangUp(c) \in [Clients -> ClientType]
         /\ \A d \in Clients \ {c} : HangUp(c)[d] = client[d]
         /\ HangUp(c)[c].pc = IF client[c].pc = "attached" THEN "eof" ELSE client[c].pc
         /\ HangUp(c)[c].job = client[c].job /\ HangUp(c)[c].token = client[c].token
         /\ HangUp(c)[c].outcome = client[c].outcome /\ HangUp(c)[c].code = client[c].code
<1> DEFINE x == IF client[c].pc = "attached" THEN "eof" ELSE client[c].pc
<1>1. HangUp(c) = [client EXCEPT ![c] = [client[c] EXCEPT !.pc = x]] BY DEF HangUp
<1>2. x \in ClientPcs /\ client[c] \in ClientType BY DEF ClientType, ClientPcs
<1> HIDE DEF x
<1>3. /\ [client[c] EXCEPT !.pc = x] \in ClientType /\ [client[c] EXCEPT !.pc = x].pc = x
      /\ [client[c] EXCEPT !.pc = x].job = client[c].job
      /\ [client[c] EXCEPT !.pc = x].token = client[c].token
      /\ [client[c] EXCEPT !.pc = x].outcome = client[c].outcome
      /\ [client[c] EXCEPT !.pc = x].code = client[c].code
  BY <1>2 DEF ClientType
<1> DEFINE y == [client[c] EXCEPT !.pc = x]
<1> HIDE DEF y
<1>4. y \in ClientType /\ HangUp(c) = [client EXCEPT ![c] = y] BY <1>1, <1>3 DEF y
<1>5. HangUp(c)[c] = y /\ HangUp(c) \in [Clients -> ClientType]
      /\ \A d \in Clients \ {c} : HangUp(c)[d] = client[d]
  BY <1>4
<1> QED BY <1>3, <1>5 DEF x, y

\* The holder that the exit took is told that its stream ended.
LEMMA NotifyKept ==
  ASSUME TableInv, ExitInv, NEW j \in Jobs, NotifyHolder(j)
  PROVE  ExitInv'
<1> USE DEF tableVars, spawnVars, exitVars
<1>1. /\ pump[j] = "notify" /\ client' = HangUp(taken[j]) /\ pump' = [pump EXCEPT ![j] = "return"]
      /\ UNCHANGED <<phase, holder, slotGen, taken, pending, evicted, workerPc>>
  BY DEF NotifyHolder
<1>2. ExitTypes /\ pump \in [Jobs -> PumpPcs] /\ SlotOK(j) BY DEF ExitInv, TableInv, TypesOK
<1> DEFINE h == taken[j]
<1>3. h \in Clients /\ client[h].job = j /\ phase[j] = "exited"
  BY <1>1, <1>2 DEF SlotOK, ExitTypes
<1>4. /\ client' \in [Clients -> ClientType] /\ \A d \in Clients \ {h} : client'[d] = client[d]
      /\ client'[h].pc = IF client[h].pc = "attached" THEN "eof" ELSE client[h].pc
      /\ client'[h].job = client[h].job /\ client'[h].token = client[h].token
      /\ client'[h].outcome = client[h].outcome /\ client'[h].code = client[h].code
  BY <1>1, <1>2, <1>3, HungUp DEF ExitTypes
<1>5. ExitTypes' BY <1>1, <1>2, <1>4 DEF ExitTypes
<1>6. \A d \in Clients : /\ client'[d].job = client[d].job /\ client'[d].token = client[d].token
                         /\ client'[d].outcome = client[d].outcome /\ client'[d].code = client[d].code
  BY <1>4
<1>7. ASSUME NEW k \in Jobs PROVE SlotOK(k)'
  <2>1. SlotOK(k) BY DEF ExitInv
  <2>2. pump'[k] = IF k = j THEN "return" ELSE pump[k] BY <1>1, <1>2
  <2>3. taken[k] \in Clients \cup {NoClient} /\ holder[k] \in Clients \cup {NoClient}
    BY <1>2 DEF ExitTypes
  <2>4. holder[k] # NoClient => holder[k] # h BY <1>3, <2>1 DEF SlotOK, HeldOK
  <2>5. HeldOK(k)'
    <3> SUFFICES ASSUME holder[k] # NoClient PROVE HeldOK(k)'
      BY <1>1 DEF HeldOK
    <3>1. client'[holder[k]] = client[holder[k]] BY <1>4, <2>3, <2>4
    <3> QED BY <1>1, <2>1, <3>1 DEF SlotOK, HeldOK, Away
  <2>6. taken[k] # NoClient => client'[taken[k]].job = k BY <1>6, <2>1, <2>3 DEF SlotOK
  <2> QED BY <1>1, <2>1, <2>2, <2>5, <2>6 DEF SlotOK
<1>8. ASSUME NEW c \in Clients PROVE ClientOK(c)'
  <2>1. ClientOK(c) BY DEF ExitInv
  <2>2. client'[c].pc = client[c].pc \/ (client[c].pc = "attached" /\ client'[c].pc = "eof")
    BY <1>4
  <2> QED BY <1>6, <2>1, <2>2 DEF ClientOK
<1>9. ASSUME NEW k \in Jobs, NEW c \in Clients, taken'[k] = c PROVE TakenOK(k, c)'
  <2>1. TakenOK(k, c) /\ SlotOK(k) /\ taken[k] = c /\ c # NoClient
    BY <1>1, <1>9, BrokerAssumption DEF ExitInv
  <2>2. client[c].job = k /\ k # 0 BY <2>1 DEF SlotOK, Jobs
  <2>3. Lost(c) => Lost(c)' BY <1>1, <1>6, <2>2, LostKept
  <2>4. Remembered(c) => Remembered(c)' BY <1>1, <1>6 DEF Remembered
  <2>5. pump'[k] = IF k = j THEN "return" ELSE pump[k] BY <1>1, <1>2
  <2>6. CASE k = j
    <3>1. c = h BY <2>1, <2>6
    <3>2. pump[k] # "remember" /\ pump'[k] # "remember" BY <1>1, <2>5, <2>6
    <3>3. client'[c].pc \in {"attached", "eof"} => client[c].pc \in {"attached", "eof"}
      BY <1>4, <3>1
    <3>4. client'[c].pc = "find" => client[c].pc = "find" BY <1>4, <3>1
    <3> QED BY <1>1, <1>6, <2>1, <2>3, <2>4, <3>2, <3>3, <3>4 DEF TakenOK
  <2>7. CASE k # j
    <3>1. client'[c] = client[c] BY <1>3, <1>4, <2>2, <2>7
    <3> QED BY <1>1, <2>1, <2>3, <2>4, <2>5, <2>7, <3>1 DEF TakenOK, Away
  <2> QED BY <2>6, <2>7
<1> QED BY <1>5, <1>7, <1>8, <1>9 DEF ExitInv

\* The slot of j goes from its holder to x or to nobody: clients that are neither idle
\* nor that holder keep their state.
LEMMA SlotMoves ==
  ASSUME ExitInv, NEW j \in Jobs, NEW x \in Clients \cup {NoClient},
         holder' = [holder EXCEPT ![j] = x],
         x # NoClient => /\ phase[j] \in {"running", "finishing"} /\ client'[x].job = j
                         /\ workerPc'[x] = "pump" /\ Away(x)',
         slotGen' \in [Jobs -> Nat], client' \in [Clients -> ClientType],
         workerPc' \in [Clients -> {"none", "pump", "check", "discard", "done"}],
         \A d \in Clients : client[d].pc # "idle" =>
           /\ client'[d].job = client[d].job /\ client'[d].token = client[d].token
           /\ workerPc'[d] = workerPc[d]
           /\ d # holder[j] => client'[d] = client[d],
         \A c \in Clients : ClientOK(c)',
         UNCHANGED <<pending, evicted, phase, pump, taken>>
  PROVE  ExitInv'
<1>1. ExitTypes /\ SlotOK(j) BY DEF ExitInv
<1>2. ExitTypes'
  <2>1. holder' \in [Jobs -> Clients \cup {NoClient}] BY <1>1 DEF ExitTypes
  <2> QED BY <1>1, <2>1 DEF ExitTypes
<1>3. \A d \in Clients : client[d].job # 0 => client[d].pc # "idle" BY DEF ExitInv, ClientOK
<1>4. ASSUME NEW k \in Jobs, NEW c \in Clients, taken[k] = c
      PROVE  /\ client'[c] = client[c] /\ workerPc'[c] = workerPc[c] /\ client[c].job = k
             /\ phase[k] = "exited"
  <2>1. SlotOK(k) /\ c # NoClient BY BrokerAssumption DEF ExitInv
  <2>2. client[c].job = k /\ phase[k] = "exited" /\ k # 0 BY <1>4, <2>1 DEF SlotOK, Jobs
  <2>3. client[c].pc # "idle" BY <1>3, <2>2
  <2>4. c # holder[j] BY <1>1, <2>1, <2>2 DEF SlotOK, HeldOK
  <2> QED BY <2>2, <2>3, <2>4
<1>5. ASSUME NEW k \in Jobs PROVE SlotOK(k)'
  <2>1. SlotOK(k) BY DEF ExitInv
  <2>2. holder[k] \in Clients \cup {NoClient} /\ taken[k] \in Clients \cup {NoClient}
        /\ holder'[k] = IF k = j THEN x ELSE holder[k]
    BY <1>1 DEF ExitTypes
  <2>3. taken[k] # NoClient => client'[taken[k]].job = k /\ phase[k] = "exited" BY <1>4, <2>2
  <2>4. HeldOK(k)'
    <3>1. CASE k = j BY <2>2, <3>1 DEF HeldOK
    <3>2. CASE k # j
      <4> SUFFICES ASSUME holder[k] # NoClient PROVE HeldOK(k)'
        BY <2>2, <3>2 DEF HeldOK
      <4> DEFINE d == holder[k]
      <4>1. d \in Clients /\ client[d].job = k /\ Away(d) /\ workerPc[d] = "pump"
            /\ phase[k] \in {"running", "finishing"}
        BY <2>1, <2>2 DEF SlotOK, HeldOK
      <4>2. client[d].pc # "idle" BY <4>1 DEF Away
      <4>3. d # holder[j] BY <1>1, <3>2, <4>1, BrokerAssumption DEF SlotOK, HeldOK
      <4>4. client'[d] = client[d] /\ workerPc'[d] = workerPc[d] BY <4>1, <4>2, <4>3
      <4> QED BY <2>2, <3>2, <4>1, <4>4 DEF HeldOK, Away
    <3> QED BY <3>1, <3>2
  <2> QED BY <2>1, <2>3, <2>4 DEF SlotOK
<1>6. ASSUME NEW k \in Jobs, NEW c \in Clients, taken'[k] = c PROVE TakenOK(k, c)'
  <2>1. TakenOK(k, c) /\ taken[k] = c BY <1>6 DEF ExitInv
  <2>2. client'[c] = client[c] /\ workerPc'[c] = workerPc[c] /\ client[c].job = k /\ k # 0
    BY <1>4, <2>1 DEF Jobs
  <2>3. Lost(c) => Lost(c)' BY <1>3, <2>2, LostKept
  <2>4. Remembered(c) => Remembered(c)' BY <2>2 DEF Remembered
  <2> QED BY <2>1, <2>2, <2>3, <2>4 DEF TakenOK, Away
<1> QED BY <1>2, <1>5, <1>6 DEF ExitInv

\* The holder of j is hung up.
LEMMA HolderHungUp ==
  ASSUME ExitInv, NEW j \in Jobs
  PROVE  /\ HangUpHolder(j) \in [Clients -> ClientType]
         /\ \A d \in Clients : /\ HangUpHolder(j)[d].job = client[d].job
                               /\ HangUpHolder(j)[d].token = client[d].token
                               /\ HangUpHolder(j)[d].outcome = client[d].outcome
                               /\ HangUpHolder(j)[d].code = client[d].code
                               /\ HangUpHolder(j)[d].pc = client[d].pc \/
                                  (client[d].pc = "attached" /\ HangUpHolder(j)[d].pc = "eof")
                               /\ d # holder[j] => HangUpHolder(j)[d] = client[d]
<1>1. client \in [Clients -> ClientType] /\ holder[j] \in Clients \cup {NoClient}
  BY DEF ExitInv, ExitTypes
<1>2. CASE holder[j] = NoClient BY <1>1, <1>2 DEF HangUpHolder
<1>3. CASE holder[j] # NoClient
  <2>1. HangUpHolder(j) = HangUp(holder[j]) /\ holder[j] \in Clients BY <1>1, <1>3 DEF HangUpHolder
  <2> QED BY <1>1, <2>1, HungUp
<1> QED BY <1>2, <1>3

\* The daemon lets go of the holder.
LEMMA DropKept ==
  ASSUME ExitInv, NEW j \in Jobs, DropHolder(j)
  PROVE  ExitInv'
<1>1. /\ holder' = [holder EXCEPT ![j] = NoClient] /\ client' = HangUpHolder(j)
      /\ UNCHANGED <<pending, evicted, phase, pump, taken, slotGen, workerPc>>
  BY DEF DropHolder, exitVars
<1>2. ExitTypes BY DEF ExitInv
<1>3. ASSUME NEW c \in Clients PROVE ClientOK(c)'
  <2>1. ClientOK(c) BY DEF ExitInv
  <2> QED BY <1>1, <2>1, HolderHungUp DEF ClientOK
<1>4. slotGen' \in [Jobs -> Nat] /\ client' \in [Clients -> ClientType]
      /\ workerPc' \in [Clients -> {"none", "pump", "check", "discard", "done"}]
  BY <1>1, <1>2, HolderHungUp DEF ExitTypes
<1>5. \A d \in Clients : client[d].pc # "idle" =>
        /\ client'[d].job = client[d].job /\ client'[d].token = client[d].token
        /\ workerPc'[d] = workerPc[d]
        /\ d # holder[j] => client'[d] = client[d]
  BY <1>1, HolderHungUp
<1> QED BY <1>1, <1>3, <1>4, <1>5, SlotMoves

\* A client is let in, or loses its stream to a failed replay.
LEMMA AttachKept ==
  ASSUME ExitInv, NEW c \in Clients, NEW j \in Jobs, Attach(c, j) \/ AttachReplayFails(c, j)
  PROVE  ExitInv'
<1> DEFINE R(p) == [pc |-> p, job |-> j, token |-> slotGen[j] + 1, outcome |-> "none", code |-> 0]
<1>1. PICK p \in {"attached", "eof"}, v \in {"pump", "done"}, x \in {c, NoClient} :
        /\ client[c].pc = "idle" /\ phase[j] = "running" /\ holder' = [holder EXCEPT ![j] = x]
        /\ client' = [HangUpHolder(j) EXCEPT ![c] = R(p)]
        /\ workerPc' = [workerPc EXCEPT ![c] = v]
        /\ (x = c /\ p = "attached" /\ v = "pump") \/ x = NoClient
        /\ UNCHANGED <<pending, evicted, phase, pump, taken>>
  <2>1. CASE Attach(c, j)
    <3>1. /\ client[c].pc = "idle" /\ phase[j] = "running" /\ holder' = [holder EXCEPT ![j] = c]
          /\ client' = [HangUpHolder(j) EXCEPT ![c] = R("attached")]
          /\ workerPc' = [workerPc EXCEPT ![c] = "pump"]
          /\ UNCHANGED <<pending, evicted, phase, pump, taken>>
      BY <2>1 DEF Attach, exitVars
    <3> QED BY <3>1
  <2>2. CASE AttachReplayFails(c, j)
    <3>1. /\ client[c].pc = "idle" /\ phase[j] = "running" /\ holder' = [holder EXCEPT ![j] = NoClient]
          /\ client' = [HangUpHolder(j) EXCEPT ![c] = R("eof")]
          /\ workerPc' = [workerPc EXCEPT ![c] = "done"]
          /\ UNCHANGED <<pending, evicted, phase, pump, taken>>
      BY <2>2 DEF AttachReplayFails, exitVars
    <3> QED BY <3>1
  <2> QED BY <2>1, <2>2
<1>2. slotGen' = [slotGen EXCEPT ![j] = slotGen[j] + 1] \/ slotGen' = slotGen
  BY DEF Attach, AttachReplayFails
<1>3. PICK r : r = R(p) OBVIOUS
<1>4. ExitTypes BY DEF ExitInv
<1>5. r \in ClientType /\ r.pc = p /\ r.job = j /\ r.outcome = "none"
      /\ client' = [HangUpHolder(j) EXCEPT ![c] = r]
  <2>1. slotGen[j] + 1 \in Nat /\ 0 \in 0..MaxJobs /\ j \in 0..MaxJobs
    BY <1>4, BrokerAssumption DEF ExitTypes, Jobs
  <2>2. client' = [HangUpHolder(j) EXCEPT ![c] = r] BY <1>1, <1>3
  <2> QED BY <1>3, <2>1, <2>2 DEF ClientType, ClientPcs, Outcomes
<1> HIDE DEF R
<1>6. slotGen' \in [Jobs -> Nat] /\ workerPc' \in [Clients -> {"none", "pump", "check", "discard", "done"}]
  <2>1. slotGen \in [Jobs -> Nat] /\ slotGen[j] + 1 \in Nat BY <1>4 DEF ExitTypes
  <2>2. slotGen' \in [Jobs -> Nat] BY <1>2, <2>1
  <2> QED BY <1>1, <1>4, <2>2 DEF ExitTypes
<1>7. client' \in [Clients -> ClientType] /\ client'[c] = r /\ workerPc'[c] = v
      /\ \A d \in Clients \ {c} : client'[d] = HangUpHolder(j)[d] /\ workerPc'[d] = workerPc[d]
  BY <1>1, <1>4, <1>5, HolderHungUp DEF ExitTypes
<1>8. ASSUME NEW d \in Clients PROVE ClientOK(d)'
  <2>1. ClientOK(d) BY DEF ExitInv
  <2>2. CASE d = c BY <1>1, <1>5, <1>7, <2>2 DEF ClientOK
  <2>3. CASE d # c BY <1>7, <2>1, <2>3, HolderHungUp DEF ClientOK
  <2> QED BY <2>2, <2>3
<1>9. \A d \in Clients : client[d].pc # "idle" =>
        /\ client'[d].job = client[d].job /\ client'[d].token = client[d].token
        /\ workerPc'[d] = workerPc[d]
        /\ d # holder[j] => client'[d] = client[d]
  BY <1>1, <1>7, HolderHungUp
<1>10. x # NoClient => /\ phase[j] \in {"running", "finishing"} /\ client'[x].job = j
                       /\ workerPc'[x] = "pump" /\ Away(x)'
  BY <1>1, <1>5, <1>7 DEF Away
<1>11. x \in Clients \cup {NoClient} BY <1>1
<1> QED BY <1>1, <1>6, <1>7, <1>8, <1>9, <1>10, <1>11, SlotMoves

\* A client settles: nothing but its place, outcome and code change.
LEMMA Settled ==
  ASSUME client \in [Clients -> ClientType], NEW c \in Clients, NEW o \in Outcomes,
         NEW n \in 0..MaxJobs, Settle(c, o, n)
  PROVE  /\ client' \in [Clients -> ClientType] /\ \A d \in Clients \ {c} : client'[d] = client[d]
         /\ client'[c].pc = "done" /\ client'[c].outcome = o /\ client'[c].code = n
         /\ client'[c].job = client[c].job /\ client'[c].token = client[c].token
<1>1. client[c] \in ClientType OBVIOUS
<1>2. PICK r1 : r1 = [client[c] EXCEPT !.pc = "done"] OBVIOUS
<1>3. PICK r2 : r2 = [r1 EXCEPT !.outcome = o] OBVIOUS
<1>4. PICK y : y = [r2 EXCEPT !.code = n] OBVIOUS
<1>5. /\ r1 \in ClientType /\ r1.pc = "done"
      /\ r1.job = client[c].job /\ r1.token = client[c].token
  BY <1>1, <1>2 DEF ClientType, ClientPcs
<1>6. /\ r2 \in ClientType /\ r2.pc = r1.pc /\ r2.outcome = o
      /\ r2.job = r1.job /\ r2.token = r1.token
  BY <1>3, <1>5 DEF ClientType
<1>7. /\ y \in ClientType /\ y.pc = r2.pc /\ y.outcome = r2.outcome /\ y.code = n
      /\ y.job = r2.job /\ y.token = r2.token
  BY <1>4, <1>6 DEF ClientType
<1>8. client' = [client EXCEPT ![c] = [client[c] EXCEPT !.pc = "done", !.outcome = o, !.code = n]]
  BY DEF Settle
<1>9. [client[c] EXCEPT !.pc = "done", !.outcome = o, !.code = n] = y BY <1>2, <1>3, <1>4
<1>10. client' = [client EXCEPT ![c] = y] BY <1>8, <1>9
<1>11. client'[c] = y /\ client' \in [Clients -> ClientType]
       /\ \A d \in Clients \ {c} : client'[d] = client[d]
  BY <1>7, <1>10
<1> QED BY <1>5, <1>6, <1>7, <1>11

\* A client is refused.
LEMMA RefusedKept ==
  ASSUME ExitInv, NEW c \in Clients, NEW j \in Jobs, AttachRefusal(c, j)
  PROVE  ExitInv'
<1>1. /\ client[c].pc = "idle"
      /\ UNCHANGED <<pending, evicted, phase, pump, taken, slotGen, workerPc>>
  BY DEF AttachRefusal, exitVars
<1>2. ExitTypes /\ SlotOK(j) BY DEF ExitInv
<1>3. slotGen' \in [Jobs -> Nat]
      /\ workerPc' \in [Clients -> {"none", "pump", "check", "discard", "done"}]
  BY <1>1, <1>2 DEF ExitTypes
<1>4. CASE Settle(c, "error", 0) /\ UNCHANGED holder
  <2>1. /\ client' \in [Clients -> ClientType] /\ \A d \in Clients \ {c} : client'[d] = client[d]
        /\ client'[c].pc = "done" /\ client'[c].outcome = "error"
    <3>1. 0 \in 0..MaxJobs BY BrokerAssumption
    <3> QED BY <1>2, <1>4, <3>1, Settled DEF ExitTypes, Outcomes
  <2>2. holder' = [holder EXCEPT ![j] = holder[j]] /\ holder[j] \in Clients \cup {NoClient}
    BY <1>2, <1>4 DEF ExitTypes
  <2>3. holder[j] # NoClient => /\ phase[j] \in {"running", "finishing"} /\ client'[holder[j]].job = j
                                /\ workerPc'[holder[j]] = "pump" /\ Away(holder[j])'
    <3> SUFFICES ASSUME holder[j] # NoClient
                 PROVE  /\ phase[j] \in {"running", "finishing"} /\ client'[holder[j]].job = j
                        /\ workerPc'[holder[j]] = "pump" /\ Away(holder[j])'
      OBVIOUS
    <3>1. /\ phase[j] \in {"running", "finishing"} /\ client[holder[j]].job = j
          /\ workerPc[holder[j]] = "pump" /\ Away(holder[j])
      BY <1>2 DEF SlotOK, HeldOK
    <3>2. holder[j] # c BY <1>1, <3>1 DEF Away
    <3>3. client'[holder[j]] = client[holder[j]] /\ holder' = holder BY <1>4, <2>1, <2>2, <3>2
    <3> QED BY <1>1, <3>1, <3>3 DEF Away
  <2>4. PICK x \in Clients \cup {NoClient} : x = holder[j] BY <2>2
  <2>5. x # NoClient => /\ phase[j] \in {"running", "finishing"} /\ client'[x].job = j
                        /\ workerPc'[x] = "pump" /\ Away(x)'
    BY <1>4, <2>3, <2>4 DEF Away
  <2>6. ASSUME NEW d \in Clients PROVE ClientOK(d)'
    <3>1. ClientOK(d) BY DEF ExitInv
    <3> QED BY <2>1, <3>1 DEF ClientOK
  <2>7. \A d \in Clients : client[d].pc # "idle" =>
          /\ client'[d].job = client[d].job /\ client'[d].token = client[d].token
          /\ workerPc'[d] = workerPc[d]
          /\ d # holder[j] => client'[d] = client[d]
    BY <1>1, <2>1
  <2> QED BY <1>1, <1>3, <2>1, <2>2, <2>4, <2>5, <2>6, <2>7, SlotMoves
<1>5. CASE /\ holder' = [holder EXCEPT ![j] = NoClient]
           /\ client' = [HangUpHolder(j) EXCEPT ![c].pc = "done", ![c].outcome = "error"]
  <2> DEFINE f == HangUpHolder(j)
  <2>1. f \in [Clients -> ClientType] /\ f[c] \in ClientType BY HolderHungUp
  <2>2. PICK r1 : r1 = [f[c] EXCEPT !.pc = "done"] OBVIOUS
  <2>3. PICK y : y = [r1 EXCEPT !.outcome = "error"] OBVIOUS
  <2>4. client' = [f EXCEPT ![c] = y] BY <1>5, <2>2, <2>3
  <2> HIDE DEF f
  <2>5. r1 \in ClientType /\ r1.pc = "done" BY <2>1, <2>2 DEF ClientType, ClientPcs
  <2>6. y \in ClientType /\ y.pc = "done" /\ y.outcome = "error"
    BY <2>3, <2>5 DEF ClientType, Outcomes
  <2>7. /\ client' \in [Clients -> ClientType] /\ client'[c] = y
        /\ \A d \in Clients \ {c} : client'[d] = HangUpHolder(j)[d]
    BY <2>1, <2>4, <2>6 DEF f
  <2>8. ASSUME NEW d \in Clients PROVE ClientOK(d)'
    <3>1. ClientOK(d) BY DEF ExitInv
    <3>2. CASE d = c BY <2>6, <2>7, <3>2 DEF ClientOK
    <3>3. CASE d # c BY <2>7, <3>1, <3>3, HolderHungUp DEF ClientOK
    <3> QED BY <3>2, <3>3
  <2>9. \A d \in Clients : client[d].pc # "idle" =>
          /\ client'[d].job = client[d].job /\ client'[d].token = client[d].token
          /\ workerPc'[d] = workerPc[d]
          /\ d # holder[j] => client'[d] = client[d]
    BY <1>1, <2>7, HolderHungUp
  <2> QED BY <1>1, <1>3, <1>5, <2>7, <2>8, <2>9, SlotMoves
<1> QED BY <1>4, <1>5 DEF AttachRefusal

\* The attach worker clears its own slot and looks whether its job has finished.
LEMMA WorkerMovesKept ==
  ASSUME ExitInv, NEW c \in Clients, WorkerDetach(c) \/ WorkerCheck(c)
  PROVE  ExitInv'
<1> DEFINE a == client[c].job
<1>1. /\ workerPc[c] \in {"pump", "check"}
      /\ UNCHANGED <<pending, evicted, phase, pump, taken, slotGen, client>>
  BY DEF WorkerDetach, WorkerCheck, exitVars, recordVars
<1>2. ExitTypes BY DEF ExitInv
<1>3. \A d \in Clients : (Lost(d)' <=> Lost(d)) /\ (Remembered(d)' <=> Remembered(d))
                         /\ (Away(d)' <=> Away(d))
  BY <1>1 DEF Lost, Remembered, Away
<1>4. /\ workerPc' \in [Clients -> {"none", "pump", "check", "discard", "done"}]
      /\ \A d \in Clients \ {c} : workerPc'[d] = workerPc[d]
  BY <1>2 DEF WorkerDetach, WorkerCheck, ExitTypes
<1>5. /\ holder' \in [Jobs -> Clients \cup {NoClient}]
      /\ \A k \in Jobs : holder'[k] = NoClient \/ (holder'[k] = holder[k] /\ holder[k] # c)
  <2>1. CASE WorkerDetach(c)
    <3>1. holder' = [holder EXCEPT ![a] = IF holder[a] = c THEN NoClient ELSE holder[a]]
      BY <2>1 DEF WorkerDetach
    <3>2. ASSUME NEW k \in Jobs PROVE holder'[k] = NoClient \/ (holder'[k] = holder[k] /\ holder[k] # c)
      <4>1. CASE holder[k] = c
        <5>1. k = a BY <4>1, BrokerAssumption DEF ExitInv, SlotOK, HeldOK
        <5> QED BY <1>2, <3>1, <4>1, <5>1 DEF ExitTypes
      <4>2. CASE holder[k] # c BY <1>2, <3>1, <4>2 DEF ExitTypes
      <4> QED BY <4>1, <4>2
    <3> QED BY <1>2, <3>1, <3>2 DEF ExitTypes
  <2>2. CASE WorkerCheck(c)
    <3>1. holder' = holder /\ workerPc[c] = "check" BY <2>2 DEF WorkerCheck, recordVars
    <3>2. \A k \in Jobs : holder[k] # c BY <3>1, BrokerAssumption DEF ExitInv, SlotOK, HeldOK
    <3> QED BY <1>2, <3>1, <3>2 DEF ExitTypes
  <2> QED BY <2>1, <2>2
<1>6. ExitTypes' BY <1>1, <1>2, <1>4, <1>5 DEF ExitTypes
<1>7. ASSUME NEW k \in Jobs PROVE SlotOK(k)'
  <2>1. SlotOK(k) /\ holder[k] \in Clients \cup {NoClient} BY <1>2 DEF ExitInv, ExitTypes
  <2>2. HeldOK(k)'
    <3> SUFFICES ASSUME holder'[k] # NoClient PROVE HeldOK(k)'
      BY DEF HeldOK
    <3>1. holder'[k] = holder[k] /\ holder[k] # c /\ holder[k] \in Clients BY <1>5, <2>1
    <3>2. workerPc'[holder[k]] = workerPc[holder[k]] BY <1>4, <3>1
    <3> QED BY <1>1, <2>1, <3>1, <3>2 DEF SlotOK, HeldOK, Away
  <2> QED BY <1>1, <2>1, <2>2 DEF SlotOK
<1>8. \A d \in Clients : ClientOK(d)' BY <1>1 DEF ExitInv, ClientOK
<1>9. ASSUME NEW k \in Jobs, NEW d \in Clients, taken'[k] = d PROVE TakenOK(k, d)'
  <2>1. TakenOK(k, d) /\ SlotOK(k) /\ taken[k] = d /\ d # NoClient
    BY <1>1, <1>9, BrokerAssumption DEF ExitInv
  <2>2. workerPc'[d] # "discard"
    <3>1. CASE d # c BY <1>4, <2>1, <3>1 DEF TakenOK
    <3>2. CASE d = c
      <4>1. Finished(a) BY <2>1, <3>2 DEF SlotOK, Finished
      <4>2. WorkerDetach(c) => workerPc'[c] = "check" BY <1>2 DEF WorkerDetach, ExitTypes
      <4>3. WorkerCheck(c) => workerPc'[c] = "done" BY <1>2, <4>1 DEF WorkerCheck, ExitTypes
      <4> QED BY <3>2, <4>2, <4>3
    <3> QED BY <3>1, <3>2
  <2> QED BY <1>1, <1>3, <2>1, <2>2 DEF TakenOK
<1> QED BY <1>6, <1>7, <1>8, <1>9 DEF ExitInv

\* A client that takes its key out of pending, or whose worker discards it, leaves what
\* the others can learn: whoever had the same key has lost it to a shared token.
LEMMA TakenOut ==
  ASSUME ExitInv, NEW c \in Clients, NEW d \in Clients \ {c}, NEW k \in Jobs, taken[k] = d,
         pending' = Unkeyed(client[c].job, client[c].token),
         client'[d] = client[d], client'[c].job = client[c].job, client'[c].token = client[c].token,
         Remembered(d)
  PROVE  Remembered(d)' \/ Lost(d)'
<1>1. pending \in Seq(Entries) BY DEF ExitInv, ExitTypes
<1>2. CASE client[d].job = client[c].job /\ client[d].token = client[c].token
  <2>1. client'[c].job = client'[d].job /\ client'[c].token = client'[d].token BY <1>2
  <2> QED BY <2>1 DEF Lost
<1>3. CASE ~(client[d].job = client[c].job /\ client[d].token = client[c].token)
  <2>1. Has(pending', client[d].job, client[d].token) BY <1>1, <1>3, UnkeyedFacts DEF Remembered
  <2> QED BY <2>1 DEF Remembered
<1> QED BY <1>2, <1>3

\* The attach worker discards the key of a stream that the exit did not take.
LEMMA DiscardKept ==
  ASSUME ExitInv, NEW c \in Clients, WorkerDiscard(c)
  PROVE  ExitInv'
<1>1. /\ workerPc[c] = "discard" /\ pending' = Unkeyed(client[c].job, client[c].token)
      /\ workerPc' = [workerPc EXCEPT ![c] = "done"]
      /\ UNCHANGED <<evicted, phase, pump, holder, slotGen, taken, client>>
  BY DEF WorkerDiscard, recordVars
<1>2. ExitTypes BY DEF ExitInv
<1>3. ExitTypes'
  <2>1. pending' \in Seq(Entries) BY <1>1, <1>2, UnkeyedFacts DEF ExitTypes
  <2> QED BY <1>1, <1>2, <2>1 DEF ExitTypes
<1>4. ASSUME NEW k \in Jobs PROVE SlotOK(k)'
  <2>1. SlotOK(k) /\ holder[k] \in Clients \cup {NoClient} BY <1>2 DEF ExitInv, ExitTypes
  <2>2. HeldOK(k)'
    <3> SUFFICES ASSUME holder[k] # NoClient PROVE HeldOK(k)'
      BY <1>1 DEF HeldOK
    <3>1. holder[k] # c /\ holder[k] \in Clients BY <1>1, <2>1 DEF SlotOK, HeldOK
    <3>2. workerPc'[holder[k]] = workerPc[holder[k]] BY <1>1, <1>2, <3>1 DEF ExitTypes
    <3> QED BY <1>1, <2>1, <3>2 DEF SlotOK, HeldOK, Away
  <2> QED BY <1>1, <2>1, <2>2 DEF SlotOK
<1>5. \A d \in Clients : ClientOK(d)' BY <1>1 DEF ExitInv, ClientOK
<1>6. ASSUME NEW k \in Jobs, NEW d \in Clients, taken'[k] = d PROVE TakenOK(k, d)'
  <2>1. TakenOK(k, d) /\ taken[k] = d BY <1>1, <1>6 DEF ExitInv
  <2>2. d # c BY <1>1, <2>1 DEF TakenOK
  <2>3. workerPc'[d] = workerPc[d] BY <1>1, <1>2, <2>2 DEF ExitTypes
  <2>4. Lost(d)' <=> Lost(d) BY <1>1 DEF Lost
  <2>5. Remembered(d) => Remembered(d)' \/ Lost(d)' BY <1>1, <2>1, <2>2, TakenOut
  <2> QED BY <1>1, <2>1, <2>3, <2>4, <2>5 DEF TakenOK, Away
<1> QED BY <1>3, <1>4, <1>5, <1>6 DEF ExitInv

\* A step of one client that takes at most its own key out of pending.
LEMMA ClientMoves ==
  ASSUME ExitInv, NEW c \in Clients,
         client' \in [Clients -> ClientType], \A d \in Clients \ {c} : client'[d] = client[d],
         client'[c].job = client[c].job, client'[c].token = client[c].token,
         pending' = pending \/ pending' = Unkeyed(client[c].job, client[c].token),
         UNCHANGED <<evicted, phase, pump, holder, slotGen, taken, workerPc>>,
         ClientOK(c)', Away(c) => Away(c)',
         \A k \in Jobs : taken[k] = c => TakenOK(k, c)'
  PROVE  ExitInv'
<1>1. ExitTypes BY DEF ExitInv
<1>2. ExitTypes'
  <2>1. pending' \in Seq(Entries) BY <1>1, UnkeyedFacts DEF ExitTypes
  <2> QED BY <1>1, <2>1 DEF ExitTypes
<1>3. \A d \in Clients : client'[d].job = client[d].job /\ client'[d].token = client[d].token
  OBVIOUS
<1>4. \A d \in Clients : Away(d) => Away(d)' BY DEF Away
<1>5. ASSUME NEW k \in Jobs PROVE SlotOK(k)'
  <2>1. SlotOK(k) /\ holder[k] \in Clients \cup {NoClient} /\ taken[k] \in Clients \cup {NoClient}
    BY <1>1 DEF ExitInv, ExitTypes
  <2>2. HeldOK(k)'
    <3> SUFFICES ASSUME holder[k] # NoClient PROVE HeldOK(k)'
      BY DEF HeldOK
    <3>1. holder[k] \in Clients /\ HeldOK(k) BY <2>1 DEF SlotOK
    <3>2. PICK d \in Clients : d = holder[k] BY <3>1
    <3>3. Away(d)' /\ client'[d].job = k /\ workerPc'[d] = "pump" /\ holder'[k] = d
      BY <1>3, <1>4, <3>1, <3>2 DEF HeldOK
    <3> QED BY <3>1, <3>3 DEF HeldOK, Away
  <2> QED BY <1>3, <2>1, <2>2 DEF SlotOK
<1>6. ASSUME NEW d \in Clients PROVE ClientOK(d)'
  <2>1. ClientOK(d) BY DEF ExitInv
  <2>2. CASE d = c BY <2>2
  <2>3. CASE d # c BY <2>1, <2>3 DEF ClientOK
  <2> QED BY <2>2, <2>3
<1>7. ASSUME NEW k \in Jobs, NEW d \in Clients, taken'[k] = d PROVE TakenOK(k, d)'
  <2>1. TakenOK(k, d) /\ taken[k] = d BY <1>7 DEF ExitInv
  <2>2. CASE d = c BY <2>1, <2>2
  <2>3. CASE d # c
    <3>1. client'[d] = client[d] BY <2>3
    <3>2. Lost(d) => Lost(d)'
      <4>1. client[d].job # 0 BY <2>1, BrokerAssumption DEF ExitInv, SlotOK, Jobs
      <4> QED BY <1>3, <4>1, LostKept
    <3>3. Remembered(d) => Remembered(d)' \/ Lost(d)'
      <4>1. CASE pending' = pending BY <3>1, <4>1 DEF Remembered
      <4>2. CASE pending' = Unkeyed(client[c].job, client[c].token)
        BY <2>1, <2>3, <3>1, <4>2, TakenOut
      <4> QED BY <4>1, <4>2
    <3> QED BY <2>1, <3>1, <3>2, <3>3 DEF TakenOK, Away
  <2> QED BY <2>2, <2>3
<1> QED BY <1>2, <1>5, <1>6, <1>7 DEF ExitInv

\* The client asks for the status, or leaves.
LEMMA StatusKept ==
  ASSUME ExitInv, NEW c \in Clients, Status(c) \/ ClientDetach(c)
  PROVE  ExitInv'
<1>1. ExitTypes /\ ClientOK(c) BY DEF ExitInv
<1>2. client[c] \in ClientType /\ client \in [Clients -> ClientType] BY <1>1 DEF ExitTypes
<1>3. UNCHANGED <<evicted, phase, pump, holder, slotGen, taken, workerPc>>
  BY DEF Status, StatusTake, StatusFind, ClientDetach, exitVars, recordVars
<1>4. 0 \in 0..MaxJobs /\ client[c].job \in 0..MaxJobs BY <1>2, BrokerAssumption DEF ClientType
<1>5. ASSUME NEW k \in Jobs, taken[k] = c
      PROVE  TakenOK(k, c) /\ client[c].job = k
  BY <1>5, BrokerAssumption DEF ExitInv, SlotOK
<1> DEFINE found == Keyed(client[c].job, client[c].token)
           u == Unkeyed(client[c].job, client[c].token)
           code == pending[First(found)].code
<1>6. found = {} <=> ~Remembered(c) BY DEF Keyed, Remembered, Has
<1>7. CASE StatusTake(c) /\ found # {}
  <2>1. client[c].pc = "eof" /\ pending' = u /\ Settle(c, "exited", code)
    BY <1>7 DEF StatusTake
  <2>2. code = client[c].job
    <3>1. found \in SUBSET Nat BY DEF Keyed
    <3>2. First(found) \in found BY <1>7, <3>1, FirstExists
    <3> DEFINE i == First(found)
    <3> HIDE DEF i
    <3>3. i \in 1..Len(pending) /\ SameKey(pending[i], client[c].job, client[c].token)
      BY <3>2 DEF Keyed, i
    <3>4. pending[i] \in Entries BY <1>1, <3>3 DEF ExitTypes
    <3>5. pending[i].code = client[c].job BY <3>3, <3>4 DEF Entries, SameKey
    <3> QED BY <3>5 DEF i
  <2> HIDE DEF code, u, found
  <2>3. /\ client' \in [Clients -> ClientType] /\ \A d \in Clients \ {c} : client'[d] = client[d]
        /\ client'[c].pc = "done" /\ client'[c].outcome = "exited" /\ client'[c].code = client[c].job
        /\ client'[c].job = client[c].job /\ client'[c].token = client[c].token
    BY <1>2, <1>4, <2>1, <2>2, Settled DEF Outcomes
  <2>4. ~Away(c) BY <2>1 DEF Away
  <2>5. ASSUME NEW k \in Jobs, taken[k] = c PROVE TakenOK(k, c)'
    BY <1>3, <1>5, <2>3, <2>4, <2>5 DEF TakenOK
  <2>6. ClientOK(c)' BY <2>3 DEF ClientOK
  <2> QED BY <1>3, <2>1, <2>3, <2>4, <2>5, <2>6, ClientMoves DEF u
<1>8. CASE StatusTake(c) /\ found = {}
  <2>1. client[c].pc = "eof" /\ pending' = pending /\ client' = [client EXCEPT ![c].pc = "find"]
    BY <1>8 DEF StatusTake
  <2>2. PICK y : y = [client[c] EXCEPT !.pc = "find"] OBVIOUS
  <2>3. /\ y \in ClientType /\ y.pc = "find" /\ y.outcome = client[c].outcome
        /\ y.code = client[c].code /\ y.job = client[c].job /\ y.token = client[c].token
    BY <1>2, <2>2 DEF ClientType, ClientPcs
  <2>4. client' = [client EXCEPT ![c] = y] BY <2>1, <2>2
  <2>5. /\ client' \in [Clients -> ClientType] /\ client'[c] = y
        /\ \A d \in Clients \ {c} : client'[d] = client[d]
    BY <1>2, <2>3, <2>4
  <2>6. ~Away(c) BY <2>1 DEF Away
  <2>7. ASSUME NEW k \in Jobs, taken[k] = c PROVE TakenOK(k, c)'
    <3>1. Lost(c) BY <1>5, <1>6, <1>8, <2>1, <2>6, <2>7 DEF TakenOK
    <3>2. client[c].job # 0 BY <1>5, <2>7 DEF Jobs
    <3>3. Lost(c)'
      <4>1. \A d \in Clients : client'[d].job = client[d].job /\ client'[d].token = client[d].token
        BY <2>3, <2>5
      <4> QED BY <1>3, <3>1, <3>2, <4>1, LostKept
    <3> QED BY <1>3, <1>5, <2>3, <2>5, <2>6, <2>7, <3>3 DEF TakenOK
  <2>8. ClientOK(c)' BY <1>1, <2>1, <2>3, <2>5 DEF ClientOK
  <2> QED BY <1>3, <2>1, <2>3, <2>5, <2>6, <2>7, <2>8, ClientMoves
<1>9. CASE StatusFind(c)
  <2>1. client[c].pc = "find" /\ pending' = pending BY <1>9 DEF StatusFind, exitVars
  <2>2. PICK o \in {"error", "exited", "takenover"}, n \in 0..MaxJobs :
          Settle(c, o, n) /\ (o = "exited" => n = client[c].job)
    <3>1. \/ Settle(c, "error", 0) \/ Settle(c, "exited", client[c].job)
          \/ Settle(c, "takenover", 0)
      BY <1>9 DEF StatusFind
    <3> QED BY <1>4, <3>1
  <2>3. o \in Outcomes BY <2>2 DEF Outcomes
  <2>4. /\ client' \in [Clients -> ClientType] /\ \A d \in Clients \ {c} : client'[d] = client[d]
        /\ client'[c].pc = "done" /\ client'[c].outcome = o /\ client'[c].code = n
        /\ client'[c].job = client[c].job /\ client'[c].token = client[c].token
    BY <1>2, <2>2, <2>3, Settled
  <2>5. ~Away(c) BY <2>1 DEF Away
  <2>6. ASSUME NEW k \in Jobs, taken[k] = c PROVE TakenOK(k, c)'
    <3>1. Lost(c) BY <1>5, <2>1, <2>6 DEF TakenOK
    <3>2. client[c].job # 0 BY <1>5, <2>6 DEF Jobs
    <3>3. Lost(c)'
      <4>1. \A d \in Clients : client'[d].job = client[d].job /\ client'[d].token = client[d].token
        BY <2>4
      <4> QED BY <1>3, <3>1, <3>2, <4>1, LostKept
    <3> QED BY <1>3, <1>5, <2>4, <2>5, <2>6, <3>3 DEF TakenOK
  <2>7. ClientOK(c)' BY <2>2, <2>4 DEF ClientOK
  <2> QED BY <1>3, <2>1, <2>4, <2>5, <2>6, <2>7, ClientMoves
<1>10. CASE ClientDetach(c)
  <2>1. client[c].pc = "attached" /\ pending' = pending /\ Settle(c, "detached", 0)
    BY <1>10 DEF ClientDetach, exitVars
  <2>2. /\ client' \in [Clients -> ClientType] /\ \A d \in Clients \ {c} : client'[d] = client[d]
        /\ client'[c].pc = "done" /\ client'[c].outcome = "detached"
        /\ client'[c].job = client[c].job /\ client'[c].token = client[c].token
    BY <1>2, <1>4, <2>1, Settled DEF Outcomes
  <2>3. Away(c)' BY <2>2 DEF Away
  <2>4. ASSUME NEW k \in Jobs, taken[k] = c PROVE TakenOK(k, c)'
    BY <1>3, <1>5, <2>2, <2>3, <2>4 DEF TakenOK
  <2>5. ClientOK(c)' BY <2>2 DEF ClientOK
  <2> QED BY <1>3, <2>1, <2>2, <2>3, <2>4, <2>5, ClientMoves
<1> QED BY <1>7, <1>8, <1>9, <1>10 DEF Status

\* Nobody has attached.
LEMMA ExitInit == BrokerInit => ExitInv
<1> SUFFICES ASSUME BrokerInit PROVE ExitInv
  OBVIOUS
<1>1. ExitTypes
  <2>1. 0 \in 0..MaxJobs /\ pending \in Seq(Entries) BY BrokerAssumption DEF BrokerInit
  <2>2. [pc |-> "idle", job |-> 0, token |-> 0, outcome |-> "none", code |-> 0] \in ClientType
    BY <2>1 DEF ClientType, ClientPcs, Outcomes
  <2> QED BY <2>1, <2>2 DEF BrokerInit, ExitTypes
<1>2. \A j \in Jobs : SlotOK(j) BY DEF BrokerInit, SlotOK, HeldOK
<1>3. \A c \in Clients : ClientOK(c) BY DEF BrokerInit, ClientOK
<1>4. \A j \in Jobs, c \in Clients : taken[j] # c BY BrokerAssumption DEF BrokerInit
<1> QED BY <1>1, <1>2, <1>3, <1>4 DEF ExitInv

\* Every step keeps what the clients can learn.
LEMMA ExitNext == TableInv /\ ExitInv /\ [BrokerNext]_brokerVars => ExitInv'
<1> SUFFICES ASSUME TableInv, ExitInv, [BrokerNext]_brokerVars PROVE ExitInv'
  OBVIOUS
<1>1. CASE Prune \/ \E w \in Spawners : Spawn(w) BY <1>1, QuietKept
<1>2. ASSUME NEW j \in Jobs, ReapJob(j) \/ PumpEnd(j) \/ Remove(j) \/ DropHolder(j) PROVE ExitInv'
  BY <1>2, QuietKept, PublishKept, RememberKept, NotifyKept, DropKept DEF PumpEnd
<1>3. ASSUME NEW c \in Clients, ClientWorker(c) \/ Status(c) \/ ClientDetach(c) PROVE ExitInv'
  BY <1>3, WorkerMovesKept, DiscardKept, StatusKept DEF ClientWorker
<1>4. ASSUME NEW c \in Clients, NEW j \in Jobs,
             Attach(c, j) \/ AttachReplayFails(c, j) \/ AttachRefusal(c, j)
      PROVE  ExitInv'
  BY <1>4, AttachKept, RefusedKept
<1>5. CASE UNCHANGED brokerVars
  <2>1. UNCHANGED <<phase, pump, exitVars, holder, slotGen, taken, clientVars>>
    BY <1>5 DEF brokerVars, recordVars
  <2>2. \A j \in Jobs : GoesOn(j) BY <2>1 DEF GoesOn
  <2> QED BY <2>1, <2>2, JobsGoOn
<1> QED BY <1>1, <1>2, <1>3, <1>4, <1>5 DEF BrokerNext

\* An attach client that reports an exit reports its own job's code, and the one whose
\* stream the exit took learns it although the record may be pruned at once, unless the
\* bounded cache evicted the status or a failed replay gave its token to another client
\* (daemon.rs remember_attached_exit, attach.rs classify_stream_end).
THEOREM ExitAlwaysLearned == BrokerSpec => []ExitLearned
<1>1. ExitInv => ExitLearned
  <2> SUFFICES ASSUME ExitInv PROVE ExitLearned
    OBVIOUS
  <2>1. ExitStatusTrue BY DEF ExitInv, ClientOK, ExitStatusTrue
  <2>2. ASSUME NEW c \in Clients, client[c].outcome = "error", client[c].job # 0,
               taken[client[c].job] = c
        PROVE  Lost(c)
    <3>1. client[c].job \in Jobs BY <2>2 DEF ExitInv, ExitTypes, ClientType, Jobs
    <3> QED BY <2>2, <3>1 DEF ExitInv, TakenOK
  <2>3. ExitReachesHolder BY <2>2 DEF ExitReachesHolder, Lost
  <2> QED BY <2>1, <2>3 DEF ExitLearned
<1> QED BY <1>1, TableInit, TableNext, ExitInit, ExitNext, PTL DEF BrokerSpec

-----------------------------------------------------------------------------
(* Generations of the daemon *)

\* The set of logs has a largest id, which existing_job_sequence returns.
LEMMA SeedIsLargest ==
  ASSUME cur \subseteq Ids
  PROVE  /\ ExistingSequence \in 0..MaxId
         /\ \A i \in cur : i <= ExistingSequence
<1>1. CASE cur = {} BY <1>1, GenerationAssumption DEF ExistingSequence
<1>2. CASE cur # {}
  <2> DEFINE T == {MaxId - i : i \in cur}
  <2>1. T \in SUBSET Nat /\ T # {}
    <3>1. \A i \in cur : MaxId - i \in Nat BY GenerationAssumption DEF Ids
    <3>2. PICK i \in cur : TRUE BY <1>2
    <3>3. MaxId - i \in T BY <3>2
    <3> QED BY <3>1, <3>3
  <2>2. PICK x \in T : \A y \in T : x <= y BY <2>1, LeastNatural
  <2>3. PICK i \in cur : x = MaxId - i OBVIOUS
  <2>4. \A k \in cur : k <= i
    <3> TAKE k \in cur
    <3>1. MaxId - k \in T OBVIOUS
    <3>2. MaxId - i <= MaxId - k BY <2>2, <2>3, <3>1
    <3> QED BY <3>2, GenerationAssumption DEF Ids
  <2>5. \E j \in cur : \A k \in cur : k <= j BY <2>4
  <2>6. /\ ExistingSequence \in cur
        /\ \A k \in cur : k <= ExistingSequence
    BY <1>2, <2>5 DEF ExistingSequence
  <2> QED BY <2>6, GenerationAssumption DEF Ids
<1> QED BY <1>1, <1>2

DaemonPcs == {"off", "lock", "probe", "clear", "bind", "sweep", "serving",
              "refused", "dead"}

\* The steps of run() after acquire_generation_lock returned.
Holds(d) == pc[d] \in {"probe", "clear", "bind", "sweep", "serving"}

GenTypes ==
  /\ pc \in [Daemons -> DaemonPcs]
  /\ lock \in Daemons \cup {NoDaemon}
  /\ cur \subseteq Ids
  /\ nextIds \in [Daemons -> 0..MaxId]
  /\ jobs \in [Daemons -> SUBSET Ids]
  /\ logging \in [Daemons -> SUBSET Ids]

\* The lock is held from its acquisition to the end of the process.
LockHeld == \A d \in Daemons : Holds(d) => lock = d

\* Only a serving daemon has jobs, and no log is unlinked under its pump.
Jobless == \A d \in Daemons : pc[d] # "serving" => jobs[d] = {} /\ logging[d] = {}

\* The seed stays above every log from the bind on.
Seeded == \A d \in Daemons : Listening(d) => \A i \in cur : i <= nextIds[d]

GenInv == GenTypes /\ LockHeld /\ Jobless /\ LiveLogsKept /\ Seeded

\* What the invariant is for.
LEMMA GenInvImplies == GenInv => GenerationsApart
<1> SUFFICES ASSUME GenInv PROVE GenerationsApart OBVIOUS
<1>1. OneGeneration BY DEF GenInv, LockHeld, Holds, OneGeneration, Listening
<1>2. FreshLogs BY DEF GenInv, Seeded, FreshLogs, Listening
<1> QED BY <1>1, <1>2 DEF GenInv, GenerationsApart

\* No daemon runs and no log exists when the machine starts.
LEMMA GenInit == GenerationInit => GenInv
BY GenerationAssumption DEF GenerationInit, GenInv, GenTypes, LockHeld, Jobless, LiveLogsKept, Seeded, DaemonPcs, Holds,
       Listening

\* A daemon that lists is the only one that holds the lock; nobody else has a job.
LEMMA Alone ==
  ASSUME GenInv, NEW d \in Daemons, Holds(d), NEW e \in Daemons, e # d
  PROVE  ~Holds(e) /\ ~Listening(e) /\ jobs[e] = {} /\ logging[e] = {}
BY DEF GenInv, LockHeld, Jobless, Holds, Listening

\* The end of a process keeps the invariant.
LEMMA EndKeeps ==
  ASSUME GenInv, NEW d \in Daemons, NEW label \in {"refused", "dead"},
         End(d, label), UNCHANGED <<cur, nextIds>>
  PROVE  GenInv'
BY GenerationAssumption
DEF GenInv, GenTypes, LockHeld, Jobless, LiveLogsKept, Seeded, DaemonPcs, Holds, Listening, End, Goto

\* acquire_generation_lock.
LEMMA AcquireKeeps ==
  ASSUME GenInv, NEW d \in Daemons, AcquireLock(d)
  PROVE  GenInv'
<1>1. CASE LockAvailable
  <2>1. pc' = [pc EXCEPT ![d] = "probe"] /\ lock' = d /\ UNCHANGED <<jobs, logging, cur, nextIds>>
    BY <1>1 DEF AcquireLock, Goto
  <2>2. \A e \in Daemons : ~Holds(e)
    BY <1>1, GenerationAssumption DEF GenInv, LockHeld, LockAvailable
  <2>3. pc[d] = "lock" BY DEF AcquireLock
  <2> QED BY <2>1, <2>2, <2>3 DEF GenInv, GenTypes, LockHeld, Jobless, LiveLogsKept, Seeded,
          DaemonPcs, Holds, Listening
<1>2. CASE ~LockAvailable BY <1>2, EndKeeps DEF AcquireLock
<1> QED BY <1>1, <1>2

\* prepare_socket_path, its removal of a stale socket included.
LEMMA PrepareKeeps ==
  ASSUME GenInv, NEW d \in Daemons,
         ProbeSocket(d) \/ ClearStale(d)
  PROVE  GenInv'
<1>1. CASE End(d, "refused") \/ End(d, "dead")
  BY <1>1, EndKeeps DEF ProbeSocket, ClearStale
<1>2. CASE /\ pc[d] \in {"probe", "clear"}
           /\ \E label \in {"clear", "bind"} : Goto(d, label)
           /\ UNCHANGED <<lock, jobs, logging, cur, nextIds>>
  <2>1. PICK label \in {"clear", "bind"} : pc' = [pc EXCEPT ![d] = label]
    BY <1>2 DEF Goto
  <2> QED BY <1>2, <2>1 DEF GenInv, GenTypes, LockHeld, Jobless, LiveLogsKept, Seeded,
          DaemonPcs, Holds, Listening
<1> QED BY <1>1, <1>2 DEF ProbeSocket, ClearStale

\* bind_private_listener and the seed of the job ids.
LEMMA BindKeeps ==
  ASSUME GenInv, NEW d \in Daemons, BindSocket(d)
  PROVE  GenInv'
<1>1. CASE path # NoDaemon BY <1>1, EndKeeps DEF BindSocket
<1>2. CASE path = NoDaemon
  <2> DEFINE seed == ExistingSequence
  <2>1. seed \in 0..MaxId /\ \A i \in cur : i <= seed
    BY SeedIsLargest DEF GenInv, GenTypes
  <2>2. /\ pc[d] = "bind" /\ pc' = [pc EXCEPT ![d] = "sweep"]
        /\ nextIds' = [nextIds EXCEPT ![d] = seed]
        /\ UNCHANGED <<lock, jobs, logging, cur>>
    BY <1>2 DEF BindSocket, Goto
  <2> HIDE DEF seed
  <2> QED BY <2>1, <2>2 DEF GenInv, GenTypes, LockHeld, Jobless, LiveLogsKept, Seeded,
          DaemonPcs, Holds, Listening
<1> QED BY <1>1, <1>2

\* prune_orphan_logs removes logs while nobody has a pump.
LEMMA SweepKeeps ==
  ASSUME GenInv, NEW d \in Daemons,
         SweepOldest(d) \/ SweepDone(d)
  PROVE  GenInv'
<1>1. CASE SweepOldest(d)
  <2>1. pc[d] = "sweep" /\ cur' \subseteq cur /\ UNCHANGED <<pc, lock, nextIds, jobs, logging>>
    BY <1>1 DEF SweepOldest
  <2>2. \A e \in Daemons : logging[e] = {}
    BY <2>1, Alone DEF GenInv, Jobless, Holds
  <2> QED BY <2>1, <2>2 DEF GenInv, GenTypes, LockHeld, Jobless, LiveLogsKept, Seeded,
          DaemonPcs, Holds, Listening
<1>2. CASE SweepDone(d)
  <2>1. /\ pc[d] = "sweep" /\ pc' = [pc EXCEPT ![d] = "serving"]
        /\ UNCHANGED <<lock, cur, nextIds, jobs, logging>>
    BY <1>2 DEF SweepDone, Goto
  <2> QED BY <2>1 DEF GenInv, GenTypes, LockHeld, Jobless, LiveLogsKept, Seeded,
          DaemonPcs, Holds, Listening
<1> QED BY <1>1, <1>2

\* A new job takes the next id, above every log there is.
LEMMA SpawnKeeps ==
  ASSUME GenInv, NEW d \in Daemons, SpawnJob(d)
  PROVE  GenInv'
<1> DEFINE id == nextIds[d] + 1
<1>1. id \in Ids /\ id \in 0..MaxId
  BY GenerationAssumption DEF GenInv, GenTypes, SpawnJob, IdLeft, Ids
<1>2. /\ pc[d] = "serving" /\ UNCHANGED <<pc, lock>>
      /\ nextIds' = [nextIds EXCEPT ![d] = id]
      /\ jobs' = [jobs EXCEPT ![d] = jobs[d] \cup {id}]
      /\ \/ /\ cur' = cur \cup {id}
            /\ logging' = [logging EXCEPT ![d] = logging[d] \cup {id}]
         \/ UNCHANGED <<cur, logging>>
  BY DEF SpawnJob, GenInv, GenTypes
<1>3. \A e \in Daemons : e # d => ~Listening(e) /\ logging[e] = {}
  BY <1>2, Alone DEF Holds
<1>4. \A i \in cur : i <= nextIds[d] /\ i <= id
  BY <1>2, <1>1 DEF GenInv, GenTypes, Seeded, Listening, Ids
<1> HIDE DEF id
<1>5. GenTypes' BY <1>1, <1>2 DEF GenInv, GenTypes
<1>6. LockHeld' /\ Jobless'
  BY <1>2 DEF GenInv, GenTypes, LockHeld, Jobless, Holds
<1>7. LiveLogsKept' BY <1>2 DEF GenInv, GenTypes, LiveLogsKept
<1>8. Seeded'
  <2>1. \A e \in Daemons : Listening(e)' => e = d
    BY <1>2, <1>3 DEF Listening
  <2>2. \A i \in cur' : i <= nextIds'[d]
    <3>1. nextIds'[d] = id BY <1>2 DEF GenInv, GenTypes
    <3>2. cur' \subseteq cur \cup {id} BY <1>2
    <3>3. id <= id BY <1>1 DEF Ids
    <3> QED BY <1>4, <3>1, <3>2, <3>3
  <2> QED BY <2>1, <2>2 DEF Seeded
<1> QED BY <1>5, <1>6, <1>7, <1>8 DEF GenInv

\* rotate_job_log, and the unlinks of a removed job.
LEMMA LogStepKeeps ==
  ASSUME GenInv, NEW d \in Daemons, NEW i \in Ids,
         RotateLog(d, i) \/ RemoveLogs(d, i)
  PROVE  GenInv'
<1>1. /\ pc[d] = "serving" /\ UNCHANGED <<pc, lock, nextIds>>
      /\ jobs' = jobs \/ jobs' = [jobs EXCEPT ![d] = jobs[d] \ {i}]
      /\ \/ UNCHANGED <<cur, logging>>
         \/ /\ cur' \in {cur, cur \ {i}}
            /\ logging' = [logging EXCEPT ![d] = logging[d] \ {i}]
  BY DEF RotateLog, RemoveLogs
<1>2. \A e \in Daemons : e # d => logging[e] = {}
  BY <1>1, Alone DEF Holds
<1>3. GenTypes' BY <1>1 DEF GenInv, GenTypes
<1>4. LockHeld' /\ Jobless' BY <1>1 DEF GenInv, GenTypes, LockHeld, Jobless, Holds
<1>5. LiveLogsKept' BY <1>1, <1>2 DEF GenInv, GenTypes, LiveLogsKept
<1>6. Seeded' BY <1>1 DEF GenInv, GenTypes, Seeded, Listening
<1> QED BY <1>3, <1>4, <1>5, <1>6 DEF GenInv

\* Every step keeps the invariant.
LEMMA GenStep == GenInv /\ [GenerationNext]_generationVars => GenInv'
<1> SUFFICES ASSUME GenInv, [GenerationNext]_generationVars PROVE GenInv' OBVIOUS
<1> USE DEF GenInv, GenTypes, LockHeld, Jobless, LiveLogsKept, Seeded, DaemonPcs, Holds, Listening
<1>1. CASE UserUnlinks BY <1>1 DEF UserUnlinks
<1>2. CASE \E d \in Daemons : Launch(d) BY <1>2 DEF Launch, Goto
<1>3. CASE UNCHANGED generationVars BY <1>3 DEF generationVars
<1> HIDE DEF GenInv, GenTypes, LockHeld, Jobless, LiveLogsKept, Seeded, DaemonPcs, Holds, Listening
<1>4. ASSUME NEW d \in Daemons, Startup(d) PROVE GenInv'
  BY <1>4, AcquireKeeps, PrepareKeeps, BindKeeps, SweepKeeps DEF Startup
<1>5. ASSUME NEW d \in Daemons, SpawnJob(d) PROVE GenInv' BY <1>5, SpawnKeeps
<1>6. ASSUME NEW d \in Daemons, DaemonEnds(d) PROVE GenInv'
  BY <1>6, EndKeeps DEF DaemonEnds
<1>7. ASSUME NEW d \in Daemons, NEW i \in Ids, RotateLog(d, i) \/ RemoveLogs(d, i)
      PROVE GenInv'
  BY <1>7, LogStepKeeps
<1> QED BY <1>1, <1>2, <1>3, <1>4, <1>5, <1>6, <1>7 DEF GenerationNext

-----------------------------------------------------------------------------
\* However many daemons are started, crash or lose their socket path, two never
\* serve at once, no sweep deletes a log that a pump is writing, and no new job
\* appends to a log left behind (daemon.rs, run, acquire_generation_lock,
\* prune_orphan_logs, existing_job_sequence).
THEOREM GenerationsAlwaysApart == GenerationSpec => []GenerationsApart
<1>1. GenerationInit => GenInv BY GenInit
<1>2. GenInv /\ [GenerationNext]_generationVars => GenInv' BY GenStep
<1> QED BY <1>1, <1>2, GenInvImplies, PTL DEF GenerationSpec
=============================================================================
