--------------------------- MODULE ProcessProofs ---------------------------
(***************************************************************************)
(* The processes of a shell: JobsAccounted, for any number of process ids, *)
(* children, retained statuses and exit codes, and StagesReaped, for every *)
(* pipeline.                                                               *)
(***************************************************************************)
EXTENDS Jobs, Pipeline, SequenceTheorems, FiniteSetTheorems, TLAPS

Children == 1..MaxJobs
Statuses == ExitCodes \cup {137, 143, NoStatus}
JobRecords == [id : Nat \ {0}, child : Children, pid : Pids, name : Names,
               done : BOOLEAN, told : BOOLEAN]

TypeOK ==
  /\ jobs \in Seq(JobRecords) /\ lastId \in Nat /\ current \in Nat /\ previous \in Nat
  /\ os \in [Pids -> [child : 0..MaxJobs, st : {"free", "live", "zombie"}]]
  /\ exit \in [Children -> Statuses]
  /\ doing \in {"idle", "handoff", "waiting"} /\ handoff \in 0..MaxJobs
  /\ targets \in Seq(Children) /\ started \in 0..MaxJobs /\ answered \subseteq Children

\* A process id is free or belongs to one child that was started; it lives as long
\* as its child has no status.
PidsOK ==
  /\ \A p \in Pids :
       /\ os[p].child <= started
       /\ os[p].st = "free" <=> os[p].child = 0
       /\ os[p].st = "live" => exit[os[p].child] = NoStatus
       /\ os[p].st = "zombie" => exit[os[p].child] # NoStatus
  /\ \A p, q \in Pids : os[p].child = os[q].child /\ os[p].child # 0 => p = q
  /\ \A c \in Children : c > started => exit[c] = NoStatus

\* The child in the handoff is not reaped by anybody else, and only a wait has a list.
HandoffOK ==
  /\ handoff <= started
  /\ IF doing = "handoff" THEN \E p \in Pids : os[p].child = handoff /\ handoff # 0
     ELSE handoff = 0
  /\ doing # "waiting" => targets = <<>>

\* The table holds started children, and only ended ones are done or were told of.
TableOK ==
  /\ \A i \in DOMAIN jobs : /\ jobs[i].id <= lastId /\ jobs[i].child <= started
                            /\ jobs[i].done \/ jobs[i].told => exit[jobs[i].child] # NoStatus
  /\ \A i \in DOMAIN targets : targets[i] <= started

\* JobsAccounted is not inductive: that a reaped child's process id goes to another
\* child needs all of this.
JobsInv == TypeOK /\ PidsOK /\ HandoffOK /\ TableOK /\ JobsAccounted

-----------------------------------------------------------------------------
(* The positions of a set in their order *)

\* A position's rank in a finite set of positions is a number from 1 to its size,
\* and no two positions have the same.
LEMMA Ranks ==
  ASSUME NEW n \in Nat, NEW S \in SUBSET (1..n)
  PROVE  /\ IsFiniteSet(S) /\ Cardinality(S) \in Nat
         /\ [i \in S |-> Cardinality({j \in S : j <= i})] \in Injection(S, 1..Cardinality(S))
<1> DEFINE Below(i) == {j \in S : j <= i}
           rank == [i \in S |-> Cardinality(Below(i))]
<1>1. IsFiniteSet(S)
  <2>1. IsFiniteSet(1..n)
    BY FS_Interval
  <2> QED
    BY <2>1, FS_Subset
<1>2. Cardinality(S) \in Nat
  BY <1>1, FS_CardinalityType
<1>3. \A i \in S : IsFiniteSet(Below(i)) /\ Cardinality(Below(i)) \in Nat
                   /\ Cardinality(Below(i)) <= Cardinality(S)
  <2> TAKE i \in S
  <2>1. Below(i) \in SUBSET S
    OBVIOUS
  <2> QED
    BY <1>1, <2>1, FS_Subset, FS_CardinalityType
<1>4. \A i \in S : Cardinality(Below(i)) # 0
  <2> TAKE i \in S
  <2>1. i \in Below(i)
    OBVIOUS
  <2> QED
    BY <1>3, <2>1, FS_EmptySet
<1>5. ASSUME NEW i \in S, NEW j \in S, i < j
      PROVE  Cardinality(Below(i)) # Cardinality(Below(j))
  <2>1. Below(i) \in SUBSET Below(j)
    <3>1. \A x \in S : x <= i => x <= j
      BY <1>5
    <3> QED
      BY <3>1
  <2>2. j \in Below(j) /\ j \notin Below(i)
    BY <1>5
  <2> QED
    BY <1>3, <2>1, <2>2, FS_Subset
<1>6. \A i \in S : rank[i] \in 1..Cardinality(S)
  BY <1>2, <1>3, <1>4
<1>7. \A i, j \in S : rank[i] = rank[j] => i = j
  <2> SUFFICES ASSUME NEW i \in S, NEW j \in S, i # j PROVE rank[i] # rank[j]
    OBVIOUS
  <2>1. i < j \/ j < i
    OBVIOUS
  <2> QED
    BY <2>1, <1>5
<1>8. rank \in [S -> 1..Cardinality(S)]
  BY <1>6
<1> QED
  BY <1>1, <1>2, <1>7, <1>8 DEF Injection, IsInjective

\* s lists each element of S exactly once.
Lists(s, S) ==
  /\ s \in [1..Cardinality(S) -> S]
  /\ \A i \in S : \E k \in 1..Cardinality(S) : s[k] = i
  /\ \A k, l \in 1..Cardinality(S) : s[k] = s[l] => k = l

\* Nth goes through a set of positions.
LEMMA NthLists ==
  ASSUME NEW n \in Nat, NEW S \in SUBSET (1..n)
  PROVE  Cardinality(S) \in Nat /\ Lists([k \in 1..Cardinality(S) |-> Nth(S, k)], S)
<1> DEFINE rank == [i \in S |-> Cardinality({j \in S : j <= i})]
           m == Cardinality(S)
<1>1. IsFiniteSet(S) /\ m \in Nat /\ rank \in Injection(S, 1..m)
  BY Ranks
<1>2. IsFiniteSet(1..m) /\ Cardinality(1..m) = m
  BY <1>1, FS_Interval
<1>3. rank \in Surjection(S, 1..m)
  BY <1>1, <1>2, FS_Injection
<1>4. /\ \A k \in 1..m : \E i \in S : rank[i] = k
      /\ \A i \in S : rank[i] \in 1..m
      /\ \A i, j \in S : rank[i] = rank[j] => i = j
  BY <1>1, <1>3 DEF Surjection, Injection, IsInjective
<1>5. \A i \in S : rank[i] = Cardinality({j \in S : j <= i})
  OBVIOUS
<1>6. ASSUME NEW k \in 1..m PROVE Nth(S, k) \in S /\ rank[Nth(S, k)] = k
  <2>1. PICK i \in S : Cardinality({j \in S : j <= i}) = k
    BY <1>4, <1>5
  <2>2. Nth(S, k) \in S /\ Cardinality({j \in S : j <= Nth(S, k)}) = k
    BY <2>1 DEF Nth
  <2> QED
    BY <2>2, <1>5
<1>7. \A i \in S : Nth(S, rank[i]) = i
  <2> TAKE i \in S
  <2> DEFINE k == rank[i]
  <2>1. k \in 1..m
    BY <1>4
  <2>2. Nth(S, k) \in S /\ rank[Nth(S, k)] = k
    BY <2>1, <1>6
  <2> QED
    BY <2>2, <1>4
<1> HIDE DEF rank, m
<1>8. \A k, l \in 1..m : Nth(S, k) = Nth(S, l) => k = l
  BY <1>6
<1>9. \A i \in S : \E k \in 1..m : Nth(S, k) = i
  BY <1>4, <1>7
<1>10. [k \in 1..m |-> Nth(S, k)] \in [1..m -> S]
  BY <1>6
<1>11. Lists([k \in 1..m |-> Nth(S, k)], S)
  BY <1>8, <1>9, <1>10 DEF Lists, m
<1> QED
  BY <1>1, <1>11 DEF m

\* w is what a table holds at the positions of S, in some order, each once.
Picks(w, table, S) ==
  /\ DOMAIN w = 1..Cardinality(S) /\ Cardinality(S) \in Nat
  /\ \E pos : Lists(pos, S) /\ \A k \in 1..Cardinality(S) : w[k] = table[pos[k]]

\* Without leaves the other jobs, each once.
LEMMA WithoutPicks ==
  ASSUME NEW T, NEW table \in Seq(T), NEW dropped
  PROVE  /\ Without(table, dropped) \in Seq(T)
         /\ Picks(Without(table, dropped), table, DOMAIN table \ dropped)
<1> DEFINE S == DOMAIN table \ dropped
           m == Cardinality(S)
           pos == [k \in 1..m |-> Nth(S, k)]
           w == Without(table, dropped)
<1>1. Len(table) \in Nat /\ S \in SUBSET (1..Len(table)) /\ DOMAIN table = 1..Len(table)
  OBVIOUS
<1>2. m \in Nat /\ Lists(pos, S)
  BY <1>1, NthLists
<1>3. w = [k \in 1..m |-> table[Nth(S, k)]]
  BY DEF Without
<1>4. \A k \in 1..m : pos[k] = Nth(S, k) /\ pos[k] \in S
  BY <1>2 DEF Lists
<1>5. \A k \in 1..m : w[k] = table[pos[k]] /\ w[k] \in T
  <2> TAKE k \in 1..m
  <2>1. pos[k] \in 1..Len(table) /\ pos[k] = Nth(S, k)
    BY <1>1, <1>4
  <2>2. w[k] = table[Nth(S, k)]
    BY <1>3
  <2>3. table[pos[k]] \in T
    BY <1>1, <2>1
  <2> QED
    BY <2>1, <2>2, <2>3
<1>6. DOMAIN w = 1..m
  BY <1>3
<1> HIDE DEF w, pos, m, S
<1>7. w \in [1..m -> T]
  BY <1>3, <1>5, <1>6
<1>8. Picks(w, table, S)
  BY <1>2, <1>5, <1>6 DEF Picks, m
<1> QED
  BY <1>2, <1>7, <1>8 DEF S, w

\* The children a wait takes are those of the jobs taken, each once.
LEMMA TakenPicks ==
  ASSUME NEW T, NEW table \in Seq(T), NEW S \in SUBSET DOMAIN table
  PROVE  Picks([k \in 1..Cardinality(S) |-> table[Nth(S, k)].child],
               [i \in DOMAIN table |-> table[i].child], S)
<1> DEFINE m == Cardinality(S)
           pos == [k \in 1..m |-> Nth(S, k)]
           w == [k \in 1..m |-> table[Nth(S, k)].child]
           f == [i \in DOMAIN table |-> table[i].child]
<1>1. Len(table) \in Nat /\ S \in SUBSET (1..Len(table))
  OBVIOUS
<1>2. m \in Nat /\ Lists(pos, S)
  BY <1>1, NthLists
<1>3. \A k \in 1..m : pos[k] \in DOMAIN table /\ pos[k] = Nth(S, k)
  BY <1>2 DEF Lists
<1>4. \A k \in 1..m : w[k] = f[pos[k]]
  <2> TAKE k \in 1..m
  <2>1. w[k] = table[Nth(S, k)].child
    OBVIOUS
  <2>2. pos[k] \in DOMAIN table /\ pos[k] = Nth(S, k)
    BY <1>3
  <2>3. f[pos[k]] = table[pos[k]].child
    BY <2>2
  <2> QED
    BY <2>1, <2>2, <2>3
<1>5. DOMAIN w = 1..m
  OBVIOUS
<1> HIDE DEF w, pos, f
<1>6. Picks(w, f, S)
  BY <1>2, <1>4, <1>5 DEF Picks
<1> QED
  BY <1>6 DEF w, f

\* A nonempty set of positions has a last one.
LEMMA LastPosition ==
  ASSUME NEW n \in Nat, NEW S \in SUBSET (1..n), S # {}
  PROVE  \E i \in S : \A j \in S : j <= i
<1> DEFINE m == Cardinality(S)
<1>1. IsFiniteSet(S) /\ m \in Nat
  BY Ranks
<1>2. m \in 1..m
  BY <1>1, FS_EmptySet
<1>5. [j \in S |-> Cardinality({x \in S : x <= j})] \in Injection(S, 1..m)
  BY Ranks
<1>6. IsFiniteSet(1..m) /\ Cardinality(1..m) = m
  BY <1>1, FS_Interval
<1>7. [j \in S |-> Cardinality({x \in S : x <= j})] \in Surjection(S, 1..m)
  BY <1>1, <1>5, <1>6, FS_Injection
<1>8. PICK j \in S : [y \in S |-> Cardinality({x \in S : x <= y})][j] = m
  BY <1>2, <1>7 DEF Surjection
<1>9. Cardinality({x \in S : x <= j}) = m
  BY <1>8
<1>10. {x \in S : x <= j} = S
  BY <1>1, <1>9, FS_Subset
<1> QED
  BY <1>10

\* What refresh_markers leaves: + names a job of the table if there is one, - a
\* different one or none.
MarkersOf(table, cur, prev) ==
  /\ cur \in Nat /\ prev \in Nat
  /\ cur = 0 <=> table = <<>>
  /\ cur # 0 => \E i \in DOMAIN table : table[i].id = cur
  /\ prev # 0 => prev # cur /\ \E i \in DOMAIN table : table[i].id = prev

\* refresh_markers gives such markers.
LEMMA MarkersRefreshed ==
  ASSUME NEW table \in Seq(JobRecords), current \in Nat, previous \in Nat,
         RefreshMarkers(table)
  PROVE  MarkersOf(table, current', previous')
<1> DEFINE n == Len(table)
           rest == {i \in DOMAIN table : table[i].id # NewCurrent(table)}
<1>1. n \in Nat /\ DOMAIN table = 1..n /\ (table = <<>> <=> n = 0)
  OBVIOUS
<1>2. \A i \in 1..n : table[i].id \in Nat \ {0}
  <2> TAKE i \in 1..n
  <2>1. table[i] \in JobRecords
    BY <1>1
  <2> QED
    BY <2>1 DEF JobRecords
<1>3. /\ NewCurrent(table) \in Nat
      /\ NewCurrent(table) = 0 <=> table = <<>>
      /\ NewCurrent(table) # 0 => \E i \in DOMAIN table : table[i].id = NewCurrent(table)
  <2>1. CASE \E i \in DOMAIN table : table[i].id = current
    <3>1. NewCurrent(table) = current
      BY <2>1 DEF NewCurrent
    <3> QED
      BY <1>1, <1>2, <2>1, <3>1
  <2>2. CASE (~ \E i \in DOMAIN table : table[i].id = current) /\ table = <<>>
    BY <1>1, <2>2 DEF NewCurrent
  <2>3. CASE (~ \E i \in DOMAIN table : table[i].id = current) /\ table # <<>>
    <3>1. NewCurrent(table) = table[n].id
      BY <2>3 DEF NewCurrent
    <3>2. n \in 1..n
      BY <1>1, <2>3
    <3> QED
      BY <1>1, <1>2, <2>3, <3>1, <3>2
  <2> QED
    BY <2>1, <2>2, <2>3
<1>4. /\ NewPrevious(table) \in Nat
      /\ NewPrevious(table) # 0 => /\ NewPrevious(table) # NewCurrent(table)
                                   /\ \E i \in DOMAIN table : table[i].id = NewPrevious(table)
  <2>1. CASE previous # NewCurrent(table) /\ \E i \in DOMAIN table : table[i].id = previous
    BY <2>1 DEF NewPrevious
  <2>2. CASE ~(previous # NewCurrent(table) /\ \E i \in DOMAIN table : table[i].id = previous)
             /\ rest = {}
    BY <2>2 DEF NewPrevious
  <2>3. CASE ~(previous # NewCurrent(table) /\ \E i \in DOMAIN table : table[i].id = previous)
             /\ rest # {}
    <3>1. \E i \in rest : \A j \in rest : j <= i
      BY <1>1, <2>3, LastPosition
    <3>2. NewPrevious(table) = table[CHOOSE i \in rest : \A j \in rest : j <= i].id
      BY <2>3 DEF NewPrevious
    <3>3. (CHOOSE i \in rest : \A j \in rest : j <= i) \in rest
      BY <3>1
    <3> QED
      BY <1>1, <1>2, <3>2, <3>3
  <2> QED
    BY <2>1, <2>2, <2>3
<1> QED
  BY <1>3, <1>4 DEF MarkersOf, RefreshMarkers

-----------------------------------------------------------------------------
(* The steps *)

\* The fields of a job.
LEMMA TableFields ==
  ASSUME NEW table \in Seq(JobRecords)
  PROVE  \A i \in DOMAIN table :
           /\ table[i] \in JobRecords
           /\ table[i].id \in Nat \ {0} /\ table[i].child \in Children
           /\ table[i].pid \in Pids /\ table[i].name \in Names
           /\ table[i].done \in BOOLEAN /\ table[i].told \in BOOLEAN
<1> TAKE i \in DOMAIN table
<1>1. table[i] \in JobRecords
  OBVIOUS
<1> QED
  BY <1>1 DEF JobRecords

\* The children in the table, and those waited for, were started.
LEMMA HeldStarted ==
  ASSUME JobsInv
  PROVE  /\ \A i \in DOMAIN jobs : jobs[i].child \in 1..started /\ jobs[i].pid \in Pids
         /\ \A i \in DOMAIN targets : targets[i] \in 1..started
         /\ \A c \in JobChildren \cup Waited : c \in 1..started
<1>1. \A i \in DOMAIN jobs : jobs[i].child \in Children /\ jobs[i].pid \in Pids
  BY TableFields DEF JobsInv, TypeOK
<1>2. \A i \in DOMAIN targets : targets[i] \in Children
  BY DEF JobsInv, TypeOK
<1>3. started \in Nat
  BY JobsAssumption DEF JobsInv, TypeOK
<1>4. \A i \in DOMAIN jobs : jobs[i].child \in 1..started
  BY <1>1, <1>3, JobsAssumption DEF JobsInv, TableOK, Children
<1>5. \A i \in DOMAIN targets : targets[i] \in 1..started
  BY <1>2, <1>3, JobsAssumption DEF JobsInv, TableOK, Children
<1> QED
  BY <1>1, <1>4, <1>5 DEF JobChildren, Waited

\* Nothing was started.
LEMMA InitInv == JobsInit => JobsInv
<1> SUFFICES ASSUME JobsInit PROVE JobsInv
  OBVIOUS
<1>1. jobs = <<>> /\ targets = <<>> /\ DOMAIN jobs = {} /\ DOMAIN targets = {}
  BY DEF JobsInit
<1>2. TypeOK
  BY JobsAssumption DEF JobsInit, TypeOK, Free, Children, Statuses
<1>3. PidsOK /\ HandoffOK /\ TableOK
  BY <1>1, JobsAssumption DEF JobsInit, PidsOK, HandoffOK, TableOK, Free, Children
<1>4. JobsAccounted
  BY <1>1 DEF JobsInit, JobsAccounted, Free, JobIds, JobChildren, Waited
<1> QED
  BY <1>2, <1>3, <1>4 DEF JobsInv

\* A child takes a free process id and a number nobody has.
LEMMA LaunchKeeps == JobsInv /\ Launch => JobsInv'
<1> SUFFICES ASSUME JobsInv, Launch PROVE JobsInv'
  OBVIOUS
<1> USE JobsAssumption DEF Children
<1>1. PICK p \in Pids : /\ os[p].st = "free"
                        /\ os' = [os EXCEPT ![p] = [child |-> started + 1, st |-> "live"]]
  BY DEF Launch
<1>2. /\ doing = "idle" /\ started \in 0..MaxJobs /\ started < MaxJobs /\ started + 1 \in 1..MaxJobs
      /\ started' = started + 1 /\ handoff' = started + 1 /\ doing' = "handoff"
      /\ UNCHANGED <<jobs, lastId, current, previous, exit, targets, answered>>
      /\ handoff = 0 /\ os[p].child = 0
  BY <1>1 DEF Launch, JobsInv, TypeOK, HandoffOK, PidsOK
<1>3. TypeOK'
  BY <1>1, <1>2 DEF JobsInv, TypeOK
<1>4. /\ os'[p] = [child |-> started + 1, st |-> "live"]
      /\ \A q \in Pids : q # p => os'[q] = os[q]
  BY <1>1 DEF JobsInv, TypeOK
<1>5. \A q \in Pids : os[q].child \in 0..started
  BY DEF JobsInv, TypeOK, PidsOK
<1>6. PidsOK'
  BY <1>2, <1>4, <1>5 DEF JobsInv, PidsOK
<1>7. HandoffOK'
  BY <1>2, <1>4 DEF JobsInv, HandoffOK
<1>8. TableOK'
  BY <1>2, HeldStarted DEF JobsInv, TableOK
<1>9. JobsAccounted'
  <2>1. JobChildren' = JobChildren /\ Waited' = Waited /\ JobIds' = JobIds
    BY <1>2 DEF JobChildren, Waited, JobIds
  <2>2. \A c \in JobChildren \cup Waited \cup answered : c # started + 1
    <3>1. \A c \in JobChildren \cup Waited : c \in 1..started
      BY HeldStarted
    <3>2. \A c \in answered : c \in 1..MaxJobs /\ exit[c] # NoStatus
      BY DEF JobsInv, TypeOK, JobsAccounted
    <3>3. exit[started + 1] = NoStatus
      BY <1>2 DEF JobsInv, PidsOK
    <3> QED
      BY <1>2, <3>1, <3>2, <3>3
  <2>3. \A i \in DOMAIN jobs : exit[jobs[i].child] = NoStatus => jobs[i].pid # p
    <3> SUFFICES ASSUME NEW i \in DOMAIN jobs, exit[jobs[i].child] = NoStatus, jobs[i].pid = p
                 PROVE  FALSE
      OBVIOUS
    <3>1. os[p] = [child |-> jobs[i].child, st |-> "live"]
      BY DEF JobsInv, JobsAccounted
    <3> QED
      BY <1>1, <3>1
  <2>4. \A i \in DOMAIN jobs : jobs[i].pid \in Pids
    BY HeldStarted
  <2>5. \A q \in Pids : os'[q].st # "free" =>
          os'[q].child \in JobChildren' \cup Waited' \cup {handoff'}
    <3> SUFFICES ASSUME NEW q \in Pids, os'[q].st # "free"
                 PROVE  os'[q].child \in JobChildren' \cup Waited' \cup {handoff'}
      OBVIOUS
    <3>1. CASE q = p
      BY <1>2, <1>4, <3>1
    <3>2. CASE q # p
      <4>1. os[q].child \in JobChildren \cup Waited \cup {handoff} /\ os[q].child # 0
        BY <1>4, <3>2 DEF JobsInv, JobsAccounted, PidsOK
      <4> QED
        BY <1>2, <1>4, <2>1, <3>2, <4>1
    <3> QED
      BY <3>1, <3>2
  <2>6. /\ \A c \in JobChildren' : c \notin Waited' \cup answered' \cup {handoff'}
        /\ \A c \in Waited' : c \notin answered' \cup {handoff'}
    BY <1>2, <2>1, <2>2 DEF JobsInv, JobsAccounted
  <2>7. \A i \in DOMAIN jobs' : exit'[jobs'[i].child] = NoStatus =>
          os'[jobs'[i].pid] = [child |-> jobs'[i].child, st |-> "live"]
    BY <1>2, <1>4, <2>3, <2>4 DEF JobsInv, JobsAccounted
  <2>8. \A c \in answered' : exit'[c] # NoStatus /\ \A q \in Pids : os'[q].child # c
    BY <1>2, <1>4, <2>2 DEF JobsInv, JobsAccounted
  <2> QED
    BY <1>2, <2>1, <2>5, <2>6, <2>7, <2>8 DEF JobsInv, JobsAccounted
<1> QED
  BY <1>3, <1>6, <1>7, <1>8, <1>9 DEF JobsInv

\* The child's process id is found, and the child is dead or alive in it.
LEMMA HandoffPid ==
  ASSUME JobsInv, doing = "handoff"
  PROVE  /\ PidOf(handoff) \in Pids /\ os[PidOf(handoff)].child = handoff /\ handoff \in Children
         /\ \A q \in Pids : os[q].child = handoff => q = PidOf(handoff)
         /\ exit[handoff] = NoStatus => os[PidOf(handoff)] = [child |-> handoff, st |-> "live"]
<1>1. PICK p \in Pids : os[p].child = handoff /\ handoff # 0
  BY DEF JobsInv, HandoffOK
<1>2. PidOf(handoff) \in Pids /\ os[PidOf(handoff)].child = handoff
  BY <1>1 DEF PidOf
<1>3. handoff \in Children
  BY <1>1, JobsAssumption DEF JobsInv, TypeOK, Children
<1>4. \A q \in Pids : os[q].child = handoff => q = PidOf(handoff)
  BY <1>1, <1>2 DEF JobsInv, PidsOK
<1>5. ASSUME exit[handoff] = NoStatus
      PROVE  os[PidOf(handoff)] = [child |-> handoff, st |-> "live"]
  <2>1. os[PidOf(handoff)].st = "live"
    BY <1>1, <1>2, <1>5 DEF JobsInv, PidsOK, TypeOK
  <2>2. os[PidOf(handoff)] \in [child : 0..MaxJobs, st : {"free", "live", "zombie"}]
    BY <1>2 DEF JobsInv, TypeOK
  <2> QED
    BY <1>2, <2>1, <2>2
<1> QED
  BY <1>2, <1>3, <1>4, <1>5

\* The child moves from the handoff to the end of the table.
LEMMA RegisterKeeps == JobsInv /\ Register => JobsInv'
<1> SUFFICES ASSUME JobsInv, Register PROVE JobsInv'
  OBVIOUS
<1> DEFINE n == Len(jobs)
<1>1. PICK t \in Names :
        jobs' = Append(jobs, [id |-> lastId + 1, child |-> handoff, pid |-> PidOf(handoff),
                              name |-> t, done |-> FALSE, told |-> FALSE])
  BY DEF Register
<1>2. /\ doing = "handoff" /\ lastId' = lastId + 1 /\ previous' = current /\ current' = lastId + 1
      /\ doing' = "idle" /\ handoff' = 0
      /\ UNCHANGED <<os, exit, targets, started, answered>>
  BY DEF Register
<1>3. jobs \in Seq(JobRecords) /\ n \in Nat /\ DOMAIN jobs = 1..n /\ lastId \in Nat
  BY DEF JobsInv, TypeOK
<1>4. /\ PidOf(handoff) \in Pids /\ os[PidOf(handoff)].child = handoff /\ handoff \in Children
      /\ exit[handoff] = NoStatus => os[PidOf(handoff)] = [child |-> handoff, st |-> "live"]
  BY <1>2, HandoffPid
<1>5. [id |-> lastId + 1, child |-> handoff, pid |-> PidOf(handoff),
       name |-> t, done |-> FALSE, told |-> FALSE] \in JobRecords
  BY <1>3, <1>4 DEF JobRecords
<1>6. /\ DOMAIN jobs' = 1..(n + 1) /\ \A i \in 1..n : jobs'[i] = jobs[i]
      /\ jobs'[n + 1] = [id |-> lastId + 1, child |-> handoff, pid |-> PidOf(handoff),
                         name |-> t, done |-> FALSE, told |-> FALSE]
      /\ jobs' \in Seq(JobRecords)
  BY <1>1, <1>3, <1>5
<1>7. TypeOK'
  BY <1>2, <1>3, <1>6, JobsAssumption DEF JobsInv, TypeOK
<1>8. PidsOK'
  BY <1>2 DEF JobsInv, PidsOK
<1>9. HandoffOK'
  BY <1>2, JobsAssumption DEF JobsInv, TypeOK, HandoffOK
<1>10. TableOK'
  <2>1. \A i \in 1..n : jobs[i].id <= lastId + 1
    <3>1. \A i \in 1..n : jobs[i].id \in Nat /\ jobs[i].id <= lastId
      BY <1>3, TableFields DEF JobsInv, TableOK
    <3> QED
      BY <1>3, <3>1
  <2>2. handoff <= started
    BY DEF JobsInv, HandoffOK
  <2>3. \A i \in DOMAIN jobs' : i \in 1..n \/ i = n + 1
    BY <1>3, <1>6
  <2> QED
    BY <1>2, <1>3, <1>6, <2>1, <2>2, <2>3 DEF JobsInv, TableOK
<1>11. JobsAccounted'
  <2>1. \A i \in DOMAIN jobs' : i \in 1..n \/ i = n + 1
    BY <1>3, <1>6
  <2>2. JobChildren' = JobChildren \cup {handoff} /\ Waited' = Waited
    BY <1>2, <1>3, <1>6, <2>1 DEF JobChildren, Waited
  <2>3. JobIds' = JobIds \cup {lastId + 1}
    BY <1>3, <1>6, <2>1 DEF JobIds
  <2>4. \A q \in Pids : os'[q].st # "free" =>
          os'[q].child \in JobChildren' \cup Waited' \cup {handoff'}
    BY <1>2, <2>2 DEF JobsInv, JobsAccounted
  <2>5. handoff \notin JobChildren \cup Waited \cup answered
    <3>1. handoff \notin answered
      BY <1>4 DEF JobsInv, JobsAccounted
    <3> QED
      BY <3>1 DEF JobsInv, JobsAccounted
  <2>6. \A c \in JobChildren \cup Waited \cup {handoff} : c # 0
    BY <1>4, HeldStarted DEF Children
  <2>7. /\ \A c \in JobChildren' : c \notin Waited' \cup answered' \cup {handoff'}
        /\ \A c \in Waited' : c \notin answered' \cup {handoff'}
    BY <1>2, <2>2, <2>5, <2>6 DEF JobsInv, JobsAccounted
  <2>8. \A i, j \in DOMAIN jobs' : jobs'[i].child = jobs'[j].child => i = j
    <3>1. \A i \in 1..n : jobs[i].child # handoff
      BY <1>3, <2>5 DEF JobChildren
    <3> QED
      BY <1>3, <1>6, <2>1, <3>1 DEF JobsInv, JobsAccounted
  <2>9. \A i \in DOMAIN jobs' : exit'[jobs'[i].child] = NoStatus =>
          os'[jobs'[i].pid] = [child |-> jobs'[i].child, st |-> "live"]
    BY <1>2, <1>3, <1>4, <1>6, <2>1 DEF JobsInv, JobsAccounted
  <2>10. current' \in JobIds' \cup {0} /\ (current' = 0 <=> jobs' = <<>>)
    BY <1>2, <1>3, <1>6, <2>3
  <2>11. previous' \in JobIds' \cup {0} /\ (previous' # 0 => previous' # current')
    <3>1. \A x \in JobIds : x <= lastId /\ x \in Nat
      BY TableFields DEF JobsInv, TypeOK, TableOK, JobIds
    <3>2. current \in JobIds \cup {0}
      BY DEF JobsInv, JobsAccounted
    <3> QED
      BY <1>2, <1>3, <2>3, <3>1, <3>2
  <2>12. /\ \A c \in answered' : exit'[c] # NoStatus /\ \A p \in Pids : os'[p].child # c
         /\ \A i, j \in DOMAIN targets' : targets'[i] = targets'[j] => i = j
    BY <1>2 DEF JobsInv, JobsAccounted
  <2> QED
    BY <2>4, <2>7, <2>8, <2>9, <2>10, <2>11, <2>12 DEF JobsAccounted
<1> QED
  BY <1>7, <1>8, <1>9, <1>10, <1>11 DEF JobsInv

\* A failed handoff frees the process id of its child, which nobody else holds.
LEMMA HandoffFailsKeeps == JobsInv /\ HandoffFails => JobsInv'
<1> SUFFICES ASSUME JobsInv, HandoffFails PROVE JobsInv'
  OBVIOUS
<1> DEFINE p == PidOf(handoff)
<1>1. /\ doing = "handoff" /\ doing' = "idle" /\ handoff' = 0
      /\ os' = [os EXCEPT ![p] = Free]
      /\ exit' = [exit EXCEPT ![handoff] = IF @ = NoStatus THEN 137 ELSE @]
      /\ UNCHANGED <<jobs, lastId, current, previous, targets, started, answered>>
  BY DEF HandoffFails
<1>2. /\ p \in Pids /\ os[p].child = handoff /\ handoff \in Children
      /\ \A q \in Pids : os[q].child = handoff => q = p
  BY <1>1, HandoffPid
<1> HIDE DEF p
<1>3. /\ os'[p] = Free /\ \A q \in Pids : q # p => os'[q] = os[q]
      /\ \A c \in Children : c # handoff => exit'[c] = exit[c]
      /\ exit'[handoff] # NoStatus /\ exit'[handoff] \in Statuses
      /\ os' \in [Pids -> [child : 0..MaxJobs, st : {"free", "live", "zombie"}]]
      /\ exit' \in [Children -> Statuses]
  BY <1>1, <1>2, JobsAssumption DEF JobsInv, TypeOK, Free, Statuses, NoStatus
<1>4. TypeOK'
  BY <1>1, <1>3, JobsAssumption DEF JobsInv, TypeOK
<1>5. PidsOK'
  <2>1. \A q \in Pids : q # p /\ os[q].child # 0 => os[q].child \in Children /\ os[q].child # handoff
    BY <1>2, JobsAssumption DEF JobsInv, TypeOK, Children
  <2>2. handoff <= started /\ started \in Nat
    BY JobsAssumption DEF JobsInv, HandoffOK, TypeOK
  <2>3. \A q \in Pids :
          /\ os'[q].child <= started'
          /\ os'[q].st = "free" <=> os'[q].child = 0
          /\ os'[q].st = "live" => exit'[os'[q].child] = NoStatus
          /\ os'[q].st = "zombie" => exit'[os'[q].child] # NoStatus
    <3> TAKE q \in Pids
    <3>1. CASE q = p
      BY <1>1, <1>3, <2>2, <3>1 DEF Free
    <3>2. CASE q # p
      BY <1>1, <1>3, <2>1, <3>2 DEF JobsInv, PidsOK
    <3> QED
      BY <3>1, <3>2
  <2>4. \A q, r \in Pids : os'[q].child = os'[r].child /\ os'[q].child # 0 => q = r
    BY <1>3 DEF JobsInv, PidsOK, Free
  <2>5. \A c \in Children : c > started' => exit'[c] = NoStatus
    BY <1>1, <1>3, <2>2, JobsAssumption DEF JobsInv, PidsOK, Children
  <2> QED
    BY <2>3, <2>4, <2>5 DEF PidsOK
<1>6. HandoffOK'
  BY <1>1, JobsAssumption DEF JobsInv, TypeOK, HandoffOK
<1>7. \A i \in DOMAIN jobs : jobs[i].child \in Children /\ jobs[i].child # handoff
  BY TableFields DEF JobsInv, TypeOK, JobsAccounted, JobChildren
<1>8. TableOK'
  BY <1>1, <1>3, <1>7 DEF JobsInv, TableOK
<1>9. JobsAccounted'
  <2>1. JobChildren' = JobChildren /\ Waited' = Waited /\ JobIds' = JobIds
    BY <1>1 DEF JobChildren, Waited, JobIds
  <2>2. \A q \in Pids : os'[q].st # "free" =>
          os'[q].child \in JobChildren' \cup Waited' \cup {handoff'}
    BY <1>2, <1>3, <2>1 DEF JobsInv, JobsAccounted, Free
  <2>3. /\ \A c \in JobChildren' : c \notin Waited' \cup answered' \cup {handoff'}
        /\ \A c \in Waited' : c \notin answered' \cup {handoff'}
    BY <1>1, <2>1, HeldStarted DEF JobsInv, JobsAccounted
  <2>4. \A i \in DOMAIN jobs' : exit'[jobs'[i].child] = NoStatus =>
          os'[jobs'[i].pid] = [child |-> jobs'[i].child, st |-> "live"]
    <3> SUFFICES ASSUME NEW i \in DOMAIN jobs, exit[jobs[i].child] = NoStatus
                 PROVE  os'[jobs[i].pid] = [child |-> jobs[i].child, st |-> "live"]
      BY <1>1, <1>3, <1>7
    <3>1. os[jobs[i].pid] = [child |-> jobs[i].child, st |-> "live"] /\ jobs[i].pid \in Pids
      BY HeldStarted DEF JobsInv, JobsAccounted
    <3>2. jobs[i].pid # p
      BY <1>2, <1>7, <3>1
    <3> QED
      BY <1>3, <3>1, <3>2
  <2>5. \A c \in answered' : exit'[c] # NoStatus /\ \A q \in Pids : os'[q].child # c
    <3> SUFFICES ASSUME NEW c \in answered
                 PROVE  exit'[c] # NoStatus /\ \A q \in Pids : os'[q].child # c
      BY <1>1
    <3>1. c \in Children /\ c # 0 /\ c # handoff /\ exit[c] # NoStatus /\ \A q \in Pids : os[q].child # c
      BY <1>2, JobsAssumption DEF JobsInv, TypeOK, JobsAccounted, Children
    <3> QED
      BY <1>3, <3>1 DEF Free
  <2> QED
    BY <1>1, <2>1, <2>2, <2>3, <2>4, <2>5 DEF JobsInv, JobsAccounted
<1> QED
  BY <1>4, <1>5, <1>6, <1>8, <1>9 DEF JobsInv

\* A live child that ends, by itself or by a signal, keeps its process id.
LEMMA EndKeeps ==
  ASSUME JobsInv, NEW p \in Pids, NEW s \in Statuses \ {NoStatus}, os[p].st = "live",
         os' = [os EXCEPT ![p].st = "zombie"], exit' = [exit EXCEPT ![os[p].child] = s],
         UNCHANGED <<jobs, lastId, current, previous, doing, handoff, targets, started, answered>>
  PROVE  JobsInv'
<1> DEFINE c == os[p].child
<1>1. c \in Children /\ c # 0 /\ \A q \in Pids : os[q].child = c => q = p
  BY JobsAssumption DEF JobsInv, PidsOK, TypeOK, Children
<1>2. /\ os'[p].child = c /\ os'[p].st = "zombie" /\ \A q \in Pids : q # p => os'[q] = os[q]
      /\ os' \in [Pids -> [child : 0..MaxJobs, st : {"free", "live", "zombie"}]]
  BY DEF JobsInv, TypeOK
<1>3. /\ exit' \in [Children -> Statuses] /\ exit'[c] # NoStatus
      /\ \A d \in Children : d # c => exit'[d] = exit[d]
  BY <1>1 DEF JobsInv, TypeOK
<1>4. \A q \in Pids : os'[q].child = os[q].child /\ (os'[q].st = "free" <=> os[q].st = "free")
  BY <1>2
<1>5. c <= started
  BY DEF JobsInv, PidsOK
<1> HIDE DEF c
<1>6. TypeOK'
  BY <1>2, <1>3 DEF JobsInv, TypeOK
<1>7. PidsOK'
  <2>1. \A q \in Pids :
          /\ os'[q].st = "live" => exit'[os'[q].child] = NoStatus
          /\ os'[q].st = "zombie" => exit'[os'[q].child] # NoStatus
    <3> TAKE q \in Pids
    <3>1. CASE q = p
      BY <1>2, <1>3, <3>1
    <3>2. CASE q # p
      <4>1. os[q].st \in {"live", "zombie"} => os[q].child \in Children /\ os[q].child # c
        BY <1>1, <3>2, JobsAssumption DEF JobsInv, TypeOK, PidsOK, Children
      <4> QED
        BY <1>2, <1>3, <3>2, <4>1 DEF JobsInv, PidsOK
    <3> QED
      BY <3>1, <3>2
  <2>2. \A d \in Children : d > started' => exit'[d] = NoStatus
    BY <1>1, <1>3, <1>5, JobsAssumption DEF JobsInv, TypeOK, PidsOK, Children
  <2> QED
    BY <1>4, <2>1, <2>2 DEF JobsInv, PidsOK
<1>8. HandoffOK'
  BY <1>4 DEF JobsInv, HandoffOK
<1>9. \A i \in DOMAIN jobs : jobs[i].child \in Children /\ jobs[i].pid \in Pids
  BY TableFields DEF JobsInv, TypeOK
<1>10. TableOK'
  BY <1>3, <1>9 DEF JobsInv, TableOK
<1>11. JobsAccounted'
  <2>1. JobChildren' = JobChildren /\ Waited' = Waited /\ JobIds' = JobIds
    BY DEF JobChildren, Waited, JobIds
  <2>2. \A i \in DOMAIN jobs' : exit'[jobs'[i].child] = NoStatus =>
          os'[jobs'[i].pid] = [child |-> jobs'[i].child, st |-> "live"]
    <3> SUFFICES ASSUME NEW i \in DOMAIN jobs, exit'[jobs[i].child] = NoStatus
                 PROVE  os'[jobs[i].pid] = [child |-> jobs[i].child, st |-> "live"]
      OBVIOUS
    <3>1. jobs[i].child # c /\ exit[jobs[i].child] = NoStatus
      BY <1>3, <1>9
    <3>2. os[jobs[i].pid] = [child |-> jobs[i].child, st |-> "live"]
      BY <3>1 DEF JobsInv, JobsAccounted
    <3>3. jobs[i].pid # p
      BY <3>1, <3>2 DEF c
    <3> QED
      BY <1>2, <1>9, <3>2, <3>3
  <2>3. \A d \in answered' : exit'[d] # NoStatus /\ \A q \in Pids : os'[q].child # d
    BY <1>3, <1>4 DEF JobsInv, TypeOK, JobsAccounted
  <2>4. \A q \in Pids : os'[q].st # "free" =>
          os'[q].child \in JobChildren' \cup Waited' \cup {handoff'}
    BY <1>4, <2>1 DEF JobsInv, JobsAccounted
  <2> QED
    BY <2>1, <2>2, <2>3, <2>4 DEF JobsInv, JobsAccounted
<1> QED
  BY <1>6, <1>7, <1>8, <1>10, <1>11 DEF JobsInv

\* A child's own end is such an end.
LEMMA ExitKeeps == JobsInv /\ ChildExits => JobsInv'
<1> SUFFICES ASSUME JobsInv, ChildExits PROVE JobsInv'
  OBVIOUS
<1>1. PICK p \in Pids, c \in ExitCodes :
        /\ os[p].st = "live" /\ os' = [os EXCEPT ![p].st = "zombie"]
        /\ exit' = [exit EXCEPT ![os[p].child] = c]
  BY DEF ChildExits
<1>2. c \in Statuses \ {NoStatus}
  BY JobsAssumption DEF Statuses
<1>3. UNCHANGED <<jobs, lastId, current, previous, doing, handoff, targets, started, answered>>
  BY DEF ChildExits
<1> QED
  BY <1>1, <1>2, <1>3, EndKeeps

\* So is the end that kill gives whoever has the process id.
LEMMA KillKeeps ==
  ASSUME JobsInv, NEW spec, Kill(spec) PROVE JobsInv'
<1> DEFINE p == KillTarget(spec)
<1>1. /\ p \in Pids /\ os[p].st = "live" /\ os' = [os EXCEPT ![p].st = "zombie"]
      /\ exit' = [exit EXCEPT ![os[p].child] = 143]
      /\ UNCHANGED <<jobs, lastId, current, previous, doing, handoff, targets, started, answered>>
  BY DEF Kill
<1>2. 143 \in Statuses \ {NoStatus}
  BY DEF Statuses, NoStatus
<1> HIDE DEF p
<1> QED
  BY <1>1, <1>2, EndKeeps

\* The same jobs, with other marks; done or told only for children that ended.
SameJobs(table, old) ==
  /\ table \in Seq(JobRecords) /\ DOMAIN table = DOMAIN old
  /\ \A i \in DOMAIN old :
       /\ table[i].id = old[i].id /\ table[i].child = old[i].child /\ table[i].pid = old[i].pid
       /\ table[i].done \/ table[i].told => exit[old[i].child] # NoStatus

\* bg only calls a job running again.
LEMMA BackgroundSame ==
  ASSUME JobsInv, NEW spec, Background(spec) PROVE SameJobs(jobs', jobs)
<1> DEFINE k == JobOf(ResolveSpec(spec))
<1>1. jobs' = [jobs EXCEPT ![k].done = FALSE]
  BY DEF Background
<1> HIDE DEF k
<1>2. jobs \in Seq(JobRecords)
  BY DEF JobsInv, TypeOK
<1>3. \A i \in DOMAIN jobs : jobs[i] \in JobRecords
  BY <1>2, TableFields
<1>4. \A i \in DOMAIN jobs : jobs'[i] = IF i = k THEN [jobs[i] EXCEPT !.done = FALSE] ELSE jobs[i]
  BY <1>1
<1>5. \A i \in DOMAIN jobs :
        /\ jobs'[i] \in JobRecords /\ jobs'[i].id = jobs[i].id
        /\ jobs'[i].child = jobs[i].child /\ jobs'[i].pid = jobs[i].pid
        /\ (jobs'[i].done => jobs[i].done) /\ jobs'[i].told = jobs[i].told
  BY <1>3, <1>4, ZenonT(40) DEF JobRecords
<1>6. DOMAIN jobs' = DOMAIN jobs /\ jobs' \in Seq(JobRecords)
  <2>1. Len(jobs) \in Nat /\ DOMAIN jobs = 1..Len(jobs)
    BY <1>2
  <2>2. jobs' \in [1..Len(jobs) -> JobRecords]
    BY <1>1, <1>5, <2>1
  <2> QED
    BY <2>1, <2>2
<1> QED
  BY <1>5, <1>6 DEF SameJobs, JobsInv, TableOK

\* The jobs left in the table: w holds those at S, each with its marks.
Left(w, S) ==
  /\ w \in Seq(JobRecords)
  /\ \A k \in DOMAIN w : \E i \in S :
       /\ w[k].id = jobs[i].id /\ w[k].child = jobs[i].child /\ w[k].pid = jobs[i].pid
       /\ w[k].done \/ w[k].told => exit[jobs[i].child] # NoStatus
  /\ {w[k].child : k \in DOMAIN w} = {jobs[i].child : i \in S}
  /\ \A k, l \in DOMAIN w : w[k].child = w[l].child => k = l

\* What Without leaves of the same jobs.
LEMMA PickedLeft ==
  ASSUME JobsInv, NEW table, SameJobs(table, jobs), NEW S \in SUBSET DOMAIN jobs,
         NEW w \in Seq(JobRecords), Picks(w, table, S)
  PROVE  Left(w, S)
<1> DEFINE m == Cardinality(S)
<1>1. PICK pos : Lists(pos, S) /\ \A k \in 1..m : w[k] = table[pos[k]]
  BY DEF Picks
<1>2. DOMAIN w = 1..m
  BY DEF Picks
<1>3. /\ \A k \in 1..m : pos[k] \in S
      /\ \A i \in S : \E k \in 1..m : pos[k] = i
      /\ \A k, l \in 1..m : pos[k] = pos[l] => k = l
  BY <1>1 DEF Lists
<1> HIDE DEF m
<1>4. \A i \in S :
        /\ i \in DOMAIN jobs
        /\ table[i].id = jobs[i].id /\ table[i].child = jobs[i].child /\ table[i].pid = jobs[i].pid
        /\ table[i].done \/ table[i].told => exit[jobs[i].child] # NoStatus
  BY DEF SameJobs
<1>5. \A k \in 1..m : w[k].child = jobs[pos[k]].child
  BY <1>1, <1>3, <1>4
<1>6. \A k \in 1..m :
        /\ w[k].id = jobs[pos[k]].id /\ w[k].pid = jobs[pos[k]].pid
        /\ w[k].done \/ w[k].told => exit[jobs[pos[k]].child] # NoStatus
  BY <1>1, <1>3, <1>4
<1>7. \A k, l \in 1..m : w[k].child = w[l].child => k = l
  <2>1. \A i, j \in S : jobs[i].child = jobs[j].child => i = j
    BY <1>4 DEF JobsInv, JobsAccounted
  <2> QED
    BY <1>3, <1>5, <2>1
<1>8. {w[k].child : k \in 1..m} = {jobs[i].child : i \in S}
  BY <1>3, <1>5
<1> QED
  BY <1>2, <1>3, <1>5, <1>6, <1>7, <1>8 DEF Left

\* A table with the same jobs in their places.
LEMMA AllLeft ==
  ASSUME JobsInv, NEW table, SameJobs(table, jobs)
  PROVE  Left(table, DOMAIN jobs)
BY DEF SameJobs, Left, JobsInv, JobsAccounted

\* The markers of a state, as refresh_markers leaves them.
LEMMA MarkersHold == JobsInv => MarkersOf(jobs, current, previous)
BY DEF JobsInv, TypeOK, JobsAccounted, JobIds, MarkersOf

\* With the same ids they are still right.
LEMMA MarkersSame ==
  ASSUME JobsInv, NEW table, SameJobs(table, jobs)
  PROVE  MarkersOf(table, current, previous)
<1>1. MarkersOf(jobs, current, previous)
  BY MarkersHold
<1>2. jobs \in Seq(JobRecords)
  BY DEF JobsInv, TypeOK
<1>3. /\ table \in Seq(JobRecords) /\ DOMAIN table = DOMAIN jobs
      /\ \A i \in DOMAIN jobs : table[i].id = jobs[i].id
  BY DEF SameJobs
<1>4. table = <<>> <=> jobs = <<>>
  BY <1>2, <1>3
<1> QED
  BY <1>1, <1>3, <1>4 DEF MarkersOf

\* Marks in the table, reaped zombies of jobs, and statuses that are dropped: poll,
\* notice and list.
LEMMA MarksKeep ==
  ASSUME JobsInv, NEW S \in SUBSET DOMAIN jobs, Left(jobs', S),
         os' \in [Pids -> [child : 0..MaxJobs, st : {"free", "live", "zombie"}]],
         \A p \in Pids : os'[p] = os[p] \/ (os'[p] = Free /\ os[p].st = "zombie"
                                            /\ os[p].child \in JobChildren),
         \A i \in DOMAIN jobs \ S : /\ exit[jobs[i].child] # NoStatus
                                    /\ \A p \in Pids : os'[p].child # jobs[i].child,
         answered' = answered \cup {jobs[i].child : i \in DOMAIN jobs \ S},
         MarkersOf(jobs', current', previous'),
         UNCHANGED <<lastId, exit, doing, handoff, targets, started>>
  PROVE  JobsInv'
<1>1. /\ jobs' \in Seq(JobRecords)
      /\ \A k \in DOMAIN jobs' : \E i \in S :
           /\ jobs'[k].id = jobs[i].id /\ jobs'[k].child = jobs[i].child
           /\ jobs'[k].pid = jobs[i].pid
           /\ jobs'[k].done \/ jobs'[k].told => exit[jobs[i].child] # NoStatus
      /\ {jobs'[k].child : k \in DOMAIN jobs'} = {jobs[i].child : i \in S}
      /\ \A k, l \in DOMAIN jobs' : jobs'[k].child = jobs'[l].child => k = l
  BY ZenonT(40) DEF Left
<1>2. \A i \in DOMAIN jobs : /\ jobs[i].child \in Children /\ jobs[i].pid \in Pids
                             /\ jobs[i].id <= lastId /\ jobs[i].child <= started
                             /\ jobs[i].child \in JobChildren
  BY TableFields DEF JobsInv, TypeOK, TableOK, JobChildren
<1>3. TypeOK'
  <2>1. answered' \subseteq Children
    BY <1>2 DEF JobsInv, TypeOK
  <2>2. current' \in Nat /\ previous' \in Nat
    BY DEF MarkersOf
  <2> QED
    BY <1>1, <2>1, <2>2 DEF JobsInv, TypeOK
<1>4. PidsOK'
  <2>1. started \in Nat
    BY JobsAssumption DEF JobsInv, TypeOK
  <2>2. \A p \in Pids : os'[p] = os[p] \/ (os'[p].child = 0 /\ os'[p].st = "free")
    BY DEF Free
  <2>3. \A p \in Pids :
       /\ os'[p].child <= started
       /\ os'[p].st = "free" <=> os'[p].child = 0
       /\ os'[p].st = "live" => exit[os'[p].child] = NoStatus
       /\ os'[p].st = "zombie" => exit[os'[p].child] # NoStatus
    BY <2>1, <2>2 DEF JobsInv, PidsOK
  <2>4. \A p, q \in Pids : os'[p].child = os'[q].child /\ os'[p].child # 0 => p = q
    BY <2>2 DEF JobsInv, PidsOK
  <2> QED
    BY <2>3, <2>4 DEF JobsInv, PidsOK
<1>5. HandoffOK'
  <2>1. ASSUME NEW p \in Pids, os[p].child = handoff, handoff # 0
        PROVE  os'[p] = os[p]
    BY <2>1 DEF JobsInv, JobsAccounted
  <2> QED
    BY <2>1 DEF JobsInv, HandoffOK
<1>6. TableOK'
  BY <1>1, <1>2 DEF JobsInv, TableOK
<1>7. JobsAccounted'
  <2>1. JobChildren' = {jobs[i].child : i \in S} /\ Waited' = Waited
    <3>1. JobChildren' = {jobs'[k].child : k \in DOMAIN jobs'} /\ Waited' = Waited
      BY DEF JobChildren, Waited
    <3> QED
      BY <1>1, <3>1
  <2>2. \A i \in S, j \in DOMAIN jobs \ S : jobs[i].child # jobs[j].child
    BY DEF JobsInv, JobsAccounted
  <2>3. \A c \in JobChildren' : c \in JobChildren /\ c \notin answered'
    <3> SUFFICES ASSUME NEW i \in S
                 PROVE  jobs[i].child \in JobChildren /\ jobs[i].child \notin answered'
      BY <2>1
    <3>1. jobs[i].child \in JobChildren /\ jobs[i].child \notin answered
      BY <1>2 DEF JobsInv, JobsAccounted
    <3> QED
      BY <2>2, <3>1
  <2>4. \A c \in Waited : c \notin answered'
    BY <1>2 DEF JobsInv, JobsAccounted
  <2>5. \A p \in Pids : os'[p].st # "free" =>
          os'[p].child \in JobChildren' \cup Waited' \cup {handoff'}
    <3> SUFFICES ASSUME NEW p \in Pids, os'[p].st # "free"
                 PROVE  os'[p].child \in JobChildren' \cup Waited' \cup {handoff'}
      OBVIOUS
    <3>1. os'[p] = os[p]
      BY DEF Free
    <3>2. os[p].child \in JobChildren \cup Waited \cup {handoff}
      BY <3>1 DEF JobsInv, JobsAccounted
    <3>3. CASE os[p].child \in JobChildren
      <4>1. PICK i \in DOMAIN jobs : os[p].child = jobs[i].child
        BY <3>3 DEF JobChildren
      <4>2. i \in S
        BY <3>1, <4>1
      <4> QED
        BY <2>1, <3>1, <4>1, <4>2
    <3> QED
      BY <2>1, <3>1, <3>2, <3>3
  <2>6. \A k \in DOMAIN jobs' : exit'[jobs'[k].child] = NoStatus =>
          os'[jobs'[k].pid] = [child |-> jobs'[k].child, st |-> "live"]
    <3> SUFFICES ASSUME NEW k \in DOMAIN jobs', exit[jobs'[k].child] = NoStatus
                 PROVE  os'[jobs'[k].pid] = [child |-> jobs'[k].child, st |-> "live"]
      OBVIOUS
    <3>1. PICK i \in S : jobs'[k].child = jobs[i].child /\ jobs'[k].pid = jobs[i].pid
      BY <1>1
    <3>2. os[jobs[i].pid] = [child |-> jobs[i].child, st |-> "live"] /\ jobs[i].pid \in Pids
      BY <1>2, <3>1 DEF JobsInv, JobsAccounted
    <3>3. os[jobs[i].pid].st # "zombie"
      BY <3>2
    <3> QED
      BY <3>1, <3>2, <3>3
  <2>7. \A c \in answered' : exit'[c] # NoStatus /\ \A p \in Pids : os'[p].child # c
    <3>1. \A c \in answered : exit[c] # NoStatus /\ c # 0 /\ \A p \in Pids : os[p].child # c
      BY JobsAssumption DEF JobsInv, TypeOK, JobsAccounted, Children
    <3>2. \A c \in answered : \A p \in Pids : os'[p].child # c
      BY <3>1 DEF Free
    <3> QED
      BY <3>1, <3>2
  <2>8. /\ current' \in JobIds' \cup {0} /\ (current' = 0 <=> jobs' = <<>>)
        /\ previous' \in JobIds' \cup {0} /\ (previous' # 0 => previous' # current')
    BY DEF MarkersOf, JobIds
  <2>9. /\ \A c \in JobChildren' : c \notin Waited' \cup answered' \cup {handoff'}
        /\ \A c \in Waited' : c \notin answered' \cup {handoff'}
        /\ \A i, j \in DOMAIN targets' : targets'[i] = targets'[j] => i = j
    BY <2>1, <2>3, <2>4 DEF JobsInv, JobsAccounted
  <2> QED
    BY <1>1, <2>5, <2>6, <2>7, <2>8, <2>9 DEF JobsAccounted
<1> QED
  BY <1>3, <1>4, <1>5, <1>6, <1>7 DEF JobsInv

\* bg changes no more than a mark.
LEMMA BackgroundKeeps ==
  ASSUME JobsInv, NEW spec, Background(spec) PROVE JobsInv'
<1>1. SameJobs(jobs', jobs)
  BY BackgroundSame
<1>2. Left(jobs', DOMAIN jobs)
  BY <1>1, AllLeft
<1>3. MarkersOf(jobs', current, previous)
  BY <1>1, MarkersSame
<1>4. UNCHANGED <<lastId, current, previous, os, exit, doing, handoff, targets, started, answered>>
  BY DEF Background
<1>5. answered' = answered \cup {jobs[i].child : i \in DOMAIN jobs \ DOMAIN jobs}
  BY <1>4
<1>6. /\ os' \in [Pids -> [child : 0..MaxJobs, st : {"free", "live", "zombie"}]]
      /\ \A p \in Pids : os'[p] = os[p]
  BY <1>4 DEF JobsInv, TypeOK
<1> QED
  BY <1>2, <1>3, <1>4, <1>5, <1>6, MarksKeep

\* A poll marks the jobs that ended, and frees process ids of zombies only.
LEMMA PollReaps ==
  ASSUME JobsInv, NEW table, SameJobs(table, jobs),
         \A i \in DOMAIN jobs : exit[jobs[i].child] # NoStatus => table[i].done
  PROVE  /\ ReapedBy(table) \in [Pids -> [child : 0..MaxJobs, st : {"free", "live", "zombie"}]]
         /\ \A p \in Pids : \/ ReapedBy(table)[p] = os[p]
                            \/ /\ ReapedBy(table)[p] = Free /\ os[p].st = "zombie"
                               /\ os[p].child \in JobChildren
         /\ \A i \in DOMAIN jobs : exit[jobs[i].child] # NoStatus =>
              \A p \in Pids : ReapedBy(table)[p].child # jobs[i].child
<1> DEFINE Reaped(p) == \E i \in DOMAIN table : table[i].done /\ os[p].child = table[i].child
                           /\ os[p].st = "zombie"
<1>1. ReapedBy(table) = [p \in Pids |-> IF Reaped(p) THEN Free ELSE os[p]]
  BY DEF ReapedBy
<1>2. \A p \in Pids : ReapedBy(table)[p] = IF Reaped(p) THEN Free ELSE os[p]
  BY <1>1
<1>3. \A i \in DOMAIN jobs : table[i].child = jobs[i].child /\ jobs[i].child \in Children
  BY TableFields DEF SameJobs, JobsInv, TypeOK
<1>4. DOMAIN table = DOMAIN jobs
  BY DEF SameJobs
<1>5. \A p \in Pids : Reaped(p) => os[p].st = "zombie" /\ os[p].child \in JobChildren
  BY <1>3, <1>4 DEF JobChildren
<1>6. \A p \in Pids : ReapedBy(table)[p] \in [child : 0..MaxJobs, st : {"free", "live", "zombie"}]
  <2>1. Free \in [child : 0..MaxJobs, st : {"free", "live", "zombie"}]
    BY JobsAssumption DEF Free
  <2>2. \A p \in Pids : os[p] \in [child : 0..MaxJobs, st : {"free", "live", "zombie"}]
    BY DEF JobsInv, TypeOK
  <2> HIDE DEF Reaped
  <2> QED
    BY <1>2, <2>1, <2>2
<1>7. ASSUME NEW i \in DOMAIN jobs, exit[jobs[i].child] # NoStatus, NEW p \in Pids,
             os[p].child = jobs[i].child
      PROVE  Reaped(p)
  <2>1. table[i].done
    BY <1>7
  <2>2. os[p].child # 0
    BY <1>3, <1>7, JobsAssumption DEF Children
  <2>3. os[p].st = "zombie"
    BY <1>7, <2>2 DEF JobsInv, TypeOK, PidsOK
  <2> QED
    BY <1>3, <1>4, <1>7, <2>1, <2>3
<1>8. \A i \in DOMAIN jobs : jobs[i].child # 0
  BY <1>3, JobsAssumption DEF Children
<1> HIDE DEF Reaped
<1>9. ASSUME NEW i \in DOMAIN jobs, exit[jobs[i].child] # NoStatus, NEW p \in Pids
      PROVE  ReapedBy(table)[p].child # jobs[i].child
  BY <1>2, <1>7, <1>8, <1>9 DEF Free
<1>10. ReapedBy(table) \in [Pids -> [child : 0..MaxJobs, st : {"free", "live", "zombie"}]]
  BY <1>1, <1>6
<1> QED
  BY <1>2, <1>5, <1>9, <1>10

\* Polling marks exactly the jobs that ended.
LEMMA PolledSame ==
  ASSUME JobsInv
  PROVE  /\ SameJobs(Polled, jobs)
         /\ \A i \in DOMAIN jobs : exit[jobs[i].child] # NoStatus <=> Polled[i].done
<1>1. jobs \in Seq(JobRecords) /\ Len(jobs) \in Nat /\ DOMAIN jobs = 1..Len(jobs)
  BY DEF JobsInv, TypeOK
<1>2. \A i \in DOMAIN jobs : jobs[i] \in JobRecords
  BY <1>1, TableFields
<1>3. \A i \in DOMAIN jobs :
        Polled[i] = [jobs[i] EXCEPT !.done = @ \/ exit[jobs[i].child] # NoStatus]
  BY DEF Polled
<1>4. \A i \in DOMAIN jobs :
        /\ Polled[i] \in JobRecords /\ Polled[i].id = jobs[i].id
        /\ Polled[i].child = jobs[i].child /\ Polled[i].pid = jobs[i].pid
        /\ Polled[i].done = (jobs[i].done \/ exit[jobs[i].child] # NoStatus)
        /\ Polled[i].told = jobs[i].told
  <2> TAKE i \in DOMAIN jobs
  <2>1. jobs[i] \in JobRecords
    BY <1>2
  <2> QED
    BY <1>3, <2>1 DEF JobRecords
<1>5. DOMAIN Polled = DOMAIN jobs
  BY DEF Polled
<1>6. Polled \in [1..Len(jobs) -> JobRecords]
  BY <1>1, <1>4, <1>5 DEF Polled
<1>7. Polled \in Seq(JobRecords)
  BY <1>1, <1>6
<1> QED
  BY <1>4, <1>5, <1>7 DEF SameJobs, JobsInv, TableOK

\* The listing polls.
LEMMA ListKeeps == JobsInv /\ ListJobs => JobsInv'
<1> SUFFICES ASSUME JobsInv, ListJobs PROVE JobsInv'
  OBVIOUS
<1>1. /\ jobs' = Polled /\ os' = ReapedBy(Polled)
      /\ UNCHANGED <<lastId, current, previous, exit, doing, handoff, targets, started, answered>>
  BY DEF ListJobs
<1>2. SameJobs(Polled, jobs) /\ \A i \in DOMAIN jobs : exit[jobs[i].child] # NoStatus <=> Polled[i].done
  BY PolledSame
<1>3. Left(jobs', DOMAIN jobs)
  BY <1>1, <1>2, AllLeft
<1>4. MarkersOf(jobs', current', previous')
  BY <1>1, <1>2, MarkersSame
<1>5. /\ os' \in [Pids -> [child : 0..MaxJobs, st : {"free", "live", "zombie"}]]
      /\ \A p \in Pids : os'[p] = os[p] \/ (os'[p] = Free /\ os[p].st = "zombie"
                                            /\ os[p].child \in JobChildren)
  BY <1>1, <1>2, PollReaps
<1>6. answered' = answered \cup {jobs[i].child : i \in DOMAIN jobs \ DOMAIN jobs}
  BY <1>1
<1> QED
  BY <1>1, <1>3, <1>4, <1>5, <1>6, MarksKeep

\* The notice before a prompt polls, marks what it told and drops old statuses.
LEMMA ReapKeeps == JobsInv /\ ReapFinishedJobs => JobsInv'
<1> SUFFICES ASSUME JobsInv, ReapFinishedJobs PROVE JobsInv'
  OBVIOUS
<1> DEFINE told == [i \in DOMAIN Polled |->
                      [Polled[i] EXCEPT !.told = @ \/ Polled[i].done]]
           gone == Evicted(told)
           S == DOMAIN told \ gone
<1>1. /\ jobs' = Without(told, gone) /\ os' = ReapedBy(told)
      /\ RefreshMarkers(Without(told, gone))
      /\ answered' = answered \cup {told[i].child : i \in {j \in gone : told[j].done}}
      /\ UNCHANGED <<lastId, exit, doing, handoff, targets, started>>
  BY DEF ReapFinishedJobs
<1>2. /\ Polled \in Seq(JobRecords) /\ DOMAIN Polled = DOMAIN jobs
      /\ \A i \in DOMAIN jobs :
           /\ Polled[i].id = jobs[i].id /\ Polled[i].child = jobs[i].child
           /\ Polled[i].pid = jobs[i].pid
           /\ Polled[i].done \/ Polled[i].told => exit[jobs[i].child] # NoStatus
           /\ exit[jobs[i].child] # NoStatus <=> Polled[i].done
  BY PolledSame DEF SameJobs
<1>3. \A i \in DOMAIN jobs :
        /\ told[i] \in JobRecords /\ told[i].id = Polled[i].id
        /\ told[i].child = Polled[i].child /\ told[i].pid = Polled[i].pid
        /\ told[i].done = Polled[i].done /\ told[i].told = (Polled[i].told \/ Polled[i].done)
  <2> TAKE i \in DOMAIN jobs
  <2>1. Polled[i] \in JobRecords /\ i \in DOMAIN Polled
    BY <1>2, TableFields
  <2>2. told[i] = [Polled[i] EXCEPT !.told = @ \/ Polled[i].done]
    BY <2>1
  <2> QED
    BY <2>1, <2>2 DEF JobRecords
<1>4. DOMAIN told = DOMAIN jobs
  BY <1>2
<1>5. told \in Seq(JobRecords)
  <2>1. Len(Polled) \in Nat /\ DOMAIN Polled = 1..Len(Polled)
    BY <1>2
  <2>2. told \in [1..Len(Polled) -> JobRecords]
    BY <1>2, <1>3, <1>4, <2>1
  <2> QED
    BY <2>1, <2>2
<1>6. \A i \in gone : i \in DOMAIN told /\ told[i].told
  BY DEF Evicted
<1> HIDE DEF told, gone
<1>7. SameJobs(told, jobs)
  BY <1>2, <1>3, <1>4, <1>5 DEF SameJobs
<1>8. jobs' \in Seq(JobRecords) /\ Picks(jobs', told, S)
  BY <1>1, <1>5, WithoutPicks
<1>9. S \in SUBSET DOMAIN jobs
  BY <1>4
<1>10. Left(jobs', S)
  BY <1>7, <1>8, <1>9, PickedLeft
<1>11. MarkersOf(jobs', current', previous')
  <2>1. current \in Nat /\ previous \in Nat
    BY DEF JobsInv, TypeOK
  <2> QED
    BY <1>1, <1>8, <2>1, MarkersRefreshed
<1>12. /\ os' \in [Pids -> [child : 0..MaxJobs, st : {"free", "live", "zombie"}]]
       /\ \A p \in Pids : os'[p] = os[p] \/ (os'[p] = Free /\ os[p].st = "zombie"
                                             /\ os[p].child \in JobChildren)
       /\ \A i \in DOMAIN jobs : exit[jobs[i].child] # NoStatus =>
            \A p \in Pids : os'[p].child # jobs[i].child
  <2>1. \A i \in DOMAIN jobs : exit[jobs[i].child] # NoStatus => told[i].done
    BY <1>2, <1>3
  <2> QED
    BY <1>1, <1>7, <2>1, PollReaps
<1>13. \A i \in DOMAIN jobs \ S : /\ i \in gone /\ told[i].done /\ told[i].child = jobs[i].child
                                  /\ exit[jobs[i].child] # NoStatus
  BY <1>2, <1>3, <1>4, <1>6
<1>14. \A i \in gone : i \in DOMAIN jobs \ S
  BY <1>4, <1>6
<1>15. answered' = answered \cup {jobs[i].child : i \in DOMAIN jobs \ S}
  BY <1>1, <1>13, <1>14
<1>16. \A i \in DOMAIN jobs \ S : /\ exit[jobs[i].child] # NoStatus
                                  /\ \A p \in Pids : os'[p].child # jobs[i].child
  BY <1>12, <1>13
<1> HIDE DEF S
<1> QED
  BY <1>1, <1>9, <1>10, <1>11, <1>12, <1>15, <1>16, MarksKeep

\* A wait moves jobs from the table to its list.
LEMMA TakeKeeps ==
  ASSUME JobsInv, NEW ids, doing = "idle", TakeForWait(ids),
         UNCHANGED <<lastId, os, exit, handoff, started, answered>>
  PROVE  JobsInv'
<1> DEFINE taken == {i \in DOMAIN jobs : jobs[i].id \in ids}
           S == DOMAIN jobs \ taken
           f == [i \in DOMAIN jobs |-> jobs[i].child]
           m == Cardinality(taken)
<1>1. /\ targets' = [k \in 1..m |-> jobs[Nth(taken, k)].child]
      /\ jobs' = Without(jobs, taken) /\ RefreshMarkers(Without(jobs, taken))
      /\ doing' = "waiting"
  BY DEF TakeForWait
<1>2. jobs \in Seq(JobRecords) /\ current \in Nat /\ previous \in Nat /\ handoff = 0
  BY DEF JobsInv, TypeOK, HandoffOK
<1>3. taken \in SUBSET DOMAIN jobs /\ S \in SUBSET DOMAIN jobs
      /\ \A i \in DOMAIN jobs : i \in taken <=> i \notin S
  OBVIOUS
<1>4. jobs' \in Seq(JobRecords) /\ Picks(jobs', jobs, S)
  BY <1>1, <1>2, WithoutPicks
<1>5. Picks(targets', f, taken)
  BY <1>1, <1>2, <1>3, TakenPicks
<1>6. MarkersOf(jobs', current', previous')
  BY <1>1, <1>2, <1>4, MarkersRefreshed
<1> HIDE DEF taken, S, m, f
<1>7. SameJobs(jobs, jobs)
  BY <1>2 DEF SameJobs, JobsInv, TableOK
<1>8. Left(jobs', S)
  BY <1>3, <1>4, <1>7, PickedLeft
<1>9. /\ jobs' \in Seq(JobRecords)
      /\ \A k \in DOMAIN jobs' : \E i \in S :
           /\ jobs'[k].id = jobs[i].id /\ jobs'[k].child = jobs[i].child
           /\ jobs'[k].pid = jobs[i].pid
           /\ jobs'[k].done \/ jobs'[k].told => exit[jobs[i].child] # NoStatus
      /\ {jobs'[k].child : k \in DOMAIN jobs'} = {jobs[i].child : i \in S}
      /\ \A k, l \in DOMAIN jobs' : jobs'[k].child = jobs'[l].child => k = l
  <2>1. \A k \in DOMAIN jobs' : \E i \in S :
           /\ jobs'[k].id = jobs[i].id /\ jobs'[k].child = jobs[i].child
           /\ jobs'[k].pid = jobs[i].pid
           /\ jobs'[k].done \/ jobs'[k].told => exit[jobs[i].child] # NoStatus
    BY <1>8 DEF Left
  <2>2. {jobs'[k].child : k \in DOMAIN jobs'} = {jobs[i].child : i \in S}
    BY <1>8 DEF Left
  <2>3. \A k, l \in DOMAIN jobs' : jobs'[k].child = jobs'[l].child => k = l
    BY <1>8 DEF Left
  <2> QED
    BY <1>4, <2>1, <2>2, <2>3
<1>10. PICK pos : Lists(pos, taken) /\ \A k \in 1..m : targets'[k] = f[pos[k]]
  BY <1>5 DEF Picks, m
<1>11. DOMAIN targets' = 1..m /\ m \in Nat
  BY <1>5 DEF Picks, m
<1>12. /\ \A k \in 1..m : pos[k] \in taken
       /\ \A i \in taken : \E k \in 1..m : pos[k] = i
       /\ \A k, l \in 1..m : pos[k] = pos[l] => k = l
  BY <1>10 DEF Lists, m
<1>13. \A k \in 1..m : targets'[k] = jobs[pos[k]].child
  BY <1>3, <1>10, <1>12 DEF f
<1>14. \A k, l \in DOMAIN targets' : targets'[k] = targets'[l] => k = l
  <2>1. \A i, j \in taken : jobs[i].child = jobs[j].child => i = j
    BY <1>3 DEF JobsInv, JobsAccounted
  <2> QED
    BY <1>11, <1>12, <1>13, <2>1
<1>15. Waited' = {jobs[i].child : i \in taken}
  <2>1. Waited' = {targets'[k] : k \in DOMAIN targets'}
    BY DEF Waited
  <2> QED
    BY <1>11, <1>12, <1>13, <2>1
<1>16. JobChildren' = {jobs[i].child : i \in S}
  <2>1. JobChildren' = {jobs'[k].child : k \in DOMAIN jobs'}
    BY DEF JobChildren
  <2> QED
    BY <1>9, <2>1
<1>17. \A i \in DOMAIN jobs : /\ jobs[i].child \in Children /\ jobs[i].pid \in Pids
                              /\ jobs[i].id <= lastId /\ jobs[i].child <= started
                              /\ jobs[i].child \in JobChildren /\ jobs[i].child # 0
  BY <1>2, TableFields, JobsAssumption DEF JobsInv, TableOK, JobChildren, Children
<1>18. TypeOK'
  <2>1. targets' \in [1..m -> Children]
    BY <1>1, <1>3, <1>12, <1>13, <1>17
  <2>2. targets' \in Seq(Children)
    BY <1>11, <2>1
  <2> QED
    BY <1>1, <1>4, <1>6, <2>2 DEF JobsInv, TypeOK, MarkersOf
<1>19. PidsOK' /\ HandoffOK'
  BY <1>1, <1>2 DEF JobsInv, PidsOK, HandoffOK
<1>20. TableOK'
  <2>1. \A k \in DOMAIN targets' : targets'[k] <= started
    BY <1>3, <1>11, <1>12, <1>13, <1>17
  <2>2. \A k \in DOMAIN jobs' :
          /\ jobs'[k].id <= lastId /\ jobs'[k].child <= started
          /\ jobs'[k].done \/ jobs'[k].told => exit[jobs'[k].child] # NoStatus
    BY <1>3, <1>9, <1>17
  <2> QED
    BY <2>1, <2>2 DEF TableOK
<1>21. JobsAccounted'
  <2>1. JobChildren \subseteq JobChildren' \cup Waited'
    BY <1>3, <1>15, <1>16 DEF JobChildren
  <2>2. Waited = {}
    BY DEF JobsInv, HandoffOK, Waited
  <2>3. \A p \in Pids : os'[p].st # "free" =>
          os'[p].child \in JobChildren' \cup Waited' \cup {handoff'}
    BY <2>1, <2>2 DEF JobsInv, JobsAccounted
  <2>4. \A i \in S, j \in taken : jobs[i].child # jobs[j].child
    BY <1>3 DEF JobsInv, JobsAccounted
  <2>5. \A i \in DOMAIN jobs : jobs[i].child \notin answered
    BY <1>17 DEF JobsInv, JobsAccounted
  <2>6. /\ \A c \in JobChildren' : c \notin Waited' \cup answered' \cup {handoff'}
        /\ \A c \in Waited' : c \notin answered' \cup {handoff'}
    BY <1>2, <1>3, <1>15, <1>16, <1>17, <2>4, <2>5
  <2>7. \A k \in DOMAIN jobs' : exit'[jobs'[k].child] = NoStatus =>
          os'[jobs'[k].pid] = [child |-> jobs'[k].child, st |-> "live"]
    <3> TAKE k \in DOMAIN jobs'
    <3>1. PICK i \in S : jobs'[k].child = jobs[i].child /\ jobs'[k].pid = jobs[i].pid
      BY <1>9
    <3> QED
      BY <1>3, <3>1 DEF JobsInv, JobsAccounted
  <2>8. /\ current' \in JobIds' \cup {0} /\ (current' = 0 <=> jobs' = <<>>)
        /\ previous' \in JobIds' \cup {0} /\ (previous' # 0 => previous' # current')
    BY <1>6 DEF MarkersOf, JobIds
  <2>9. \A c \in answered' : exit'[c] # NoStatus /\ \A p \in Pids : os'[p].child # c
    BY DEF JobsInv, JobsAccounted
  <2> QED
    BY <1>9, <1>14, <2>3, <2>6, <2>7, <2>8, <2>9 DEF JobsAccounted
<1> QED
  BY <1>18, <1>19, <1>20, <1>21 DEF JobsInv

\* Every wait and fg is such a move.
LEMMA WaitsKeep ==
  ASSUME JobsInv, NEW spec, Foreground(spec) \/ Wait(spec) \/ WaitAll
  PROVE  JobsInv'
<1>1. CASE Foreground(spec) \/ Wait(spec)
  BY <1>1, TakeKeeps DEF Foreground, Wait
<1>2. CASE WaitAll
  BY <1>2, TakeKeeps DEF WaitAll
<1> QED
  BY <1>1, <1>2

\* The child collected leaves the list, its process id and nothing else.
LEMMA CollectKeeps == JobsInv /\ Collect => JobsInv'
<1> SUFFICES ASSUME JobsInv, Collect PROVE JobsInv'
  OBVIOUS
<1> DEFINE c == Head(targets)
           n == Len(targets)
<1>1. /\ doing = "waiting" /\ targets # <<>> /\ exit[c] # NoStatus
      /\ os' = [p \in Pids |-> IF os[p].child = c THEN Free ELSE os[p]]
      /\ answered' = answered \cup {c} /\ targets' = Tail(targets)
      /\ doing' = IF Tail(targets) = <<>> THEN "idle" ELSE "waiting"
      /\ UNCHANGED <<jobs, lastId, current, previous, exit, handoff, started>>
  BY DEF Collect
<1>2. targets \in Seq(Children) /\ n \in Nat \ {0} /\ DOMAIN targets = 1..n
  BY <1>1 DEF JobsInv, TypeOK
<1>3. /\ targets' \in Seq(Children) /\ DOMAIN targets' = 1..(n - 1) /\ c = targets[1] /\ c \in Children
      /\ \A k \in 1..(n - 1) : targets'[k] = targets[k + 1] /\ k + 1 \in 1..n
  BY <1>1, <1>2
<1>4. Waited = {c} \cup Waited' /\ c \notin Waited'
  <2>1. Waited = {targets[k] : k \in 1..n}
    BY <1>2 DEF Waited
  <2>2. Waited' = {targets'[k] : k \in 1..(n - 1)}
    BY <1>3 DEF Waited
  <2>3. \A k \in 1..n : k = 1 \/ (k - 1 \in 1..(n - 1) /\ targets'[k - 1] = targets[k])
    BY <1>2, <1>3
  <2>4. \A k \in 1..(n - 1) : targets[k + 1] # targets[1]
    BY <1>2, <1>3 DEF JobsInv, JobsAccounted
  <2>5. \A x \in Waited : x \in {c} \cup Waited'
    BY <1>3, <2>1, <2>2, <2>3
  <2>6. \A x \in {c} \cup Waited' : x \in Waited
    BY <1>2, <1>3, <2>1, <2>2
  <2>7. c \notin Waited'
    BY <1>3, <2>2, <2>4
  <2> QED
    BY <2>5, <2>6, <2>7
<1>5. c # 0 /\ c \in Waited
  BY <1>3, <1>4, JobsAssumption DEF Children
<1> HIDE DEF c
<1>6. \A p \in Pids : IF os[p].child = c THEN os'[p] = Free ELSE os'[p] = os[p]
  BY <1>1
<1>7. TypeOK'
  <2>1. \A p \in Pids : os'[p] \in [child : 0..MaxJobs, st : {"free", "live", "zombie"}]
    BY <1>6, JobsAssumption DEF JobsInv, TypeOK, Free
  <2>2. os' \in [Pids -> [child : 0..MaxJobs, st : {"free", "live", "zombie"}]]
    BY <1>1, <2>1
  <2> QED
    BY <1>1, <1>3, <2>2 DEF JobsInv, TypeOK
<1>8. PidsOK'
  <2>1. started \in Nat
    BY JobsAssumption DEF JobsInv, TypeOK
  <2>2. \A p \in Pids : os'[p] = os[p] \/ (os'[p].child = 0 /\ os'[p].st = "free")
    BY <1>6 DEF Free
  <2>3. \A p \in Pids :
       /\ os'[p].child <= started
       /\ os'[p].st = "free" <=> os'[p].child = 0
       /\ os'[p].st = "live" => exit[os'[p].child] = NoStatus
       /\ os'[p].st = "zombie" => exit[os'[p].child] # NoStatus
    BY <2>1, <2>2 DEF JobsInv, PidsOK
  <2>4. \A p, q \in Pids : os'[p].child = os'[q].child /\ os'[p].child # 0 => p = q
    BY <2>2 DEF JobsInv, PidsOK
  <2> QED
    BY <1>1, <2>3, <2>4 DEF JobsInv, PidsOK
<1>9. HandoffOK'
  BY <1>1 DEF JobsInv, HandoffOK
<1>10. TableOK'
  BY <1>1, <1>2, <1>3 DEF JobsInv, TableOK
<1>11. JobsAccounted'
  <2>1. JobChildren' = JobChildren /\ JobIds' = JobIds
    BY <1>1 DEF JobChildren, JobIds
  <2>2. \A p \in Pids : os'[p].st # "free" =>
          os'[p].child \in JobChildren' \cup Waited' \cup {handoff'}
    <3> SUFFICES ASSUME NEW p \in Pids, os'[p].st # "free"
                 PROVE  os'[p].child \in JobChildren' \cup Waited' \cup {handoff'}
      OBVIOUS
    <3>1. os'[p] = os[p] /\ os[p].child # c
      BY <1>6 DEF Free
    <3>2. os[p].child \in JobChildren \cup Waited \cup {handoff}
      BY <3>1 DEF JobsInv, JobsAccounted
    <3> QED
      BY <1>1, <1>4, <2>1, <3>1, <3>2
  <2>3. /\ \A x \in JobChildren' : x \notin Waited' \cup answered' \cup {handoff'}
        /\ \A x \in Waited' : x \notin answered' \cup {handoff'}
    BY <1>1, <1>4, <1>5, <2>1 DEF JobsInv, JobsAccounted
  <2>4. \A i \in DOMAIN jobs' : exit'[jobs'[i].child] = NoStatus =>
          os'[jobs'[i].pid] = [child |-> jobs'[i].child, st |-> "live"]
    <3> SUFFICES ASSUME NEW i \in DOMAIN jobs, exit[jobs[i].child] = NoStatus
                 PROVE  os'[jobs[i].pid] = [child |-> jobs[i].child, st |-> "live"]
      BY <1>1
    <3>1. os[jobs[i].pid] = [child |-> jobs[i].child, st |-> "live"] /\ jobs[i].pid \in Pids
      BY HeldStarted DEF JobsInv, JobsAccounted
    <3>2. os[jobs[i].pid].child # c
      BY <1>1, <3>1
    <3> QED
      BY <1>6, <3>1, <3>2
  <2>5. \A x \in answered' : exit'[x] # NoStatus /\ \A p \in Pids : os'[p].child # x
    <3>1. \A x \in answered : exit[x] # NoStatus /\ x # 0 /\ \A p \in Pids : os[p].child # x
      BY JobsAssumption DEF JobsInv, TypeOK, JobsAccounted, Children
    <3> QED
      BY <1>1, <1>5, <1>6, <3>1 DEF Free
  <2>6. \A i, j \in DOMAIN targets' : targets'[i] = targets'[j] => i = j
    <3>1. \A i, j \in 1..n : targets[i] = targets[j] => i = j
      BY <1>2 DEF JobsInv, JobsAccounted
    <3> SUFFICES ASSUME NEW i \in 1..(n - 1), NEW j \in 1..(n - 1), targets'[i] = targets'[j]
                 PROVE  i = j
      BY <1>3
    <3>2. targets[i + 1] = targets[j + 1] /\ i + 1 \in 1..n /\ j + 1 \in 1..n
      BY <1>3
    <3>3. i + 1 = j + 1
      BY <3>1, <3>2
    <3> QED
      BY <1>2, <3>3
  <2> QED
    BY <1>1, <2>1, <2>2, <2>3, <2>4, <2>5, <2>6 DEF JobsInv, JobsAccounted
<1> QED
  BY <1>7, <1>8, <1>9, <1>10, <1>11 DEF JobsInv

-----------------------------------------------------------------------------

\* Every step keeps the invariant.
LEMMA NextInv == JobsInv /\ [JobsNext]_jobVars => JobsInv'
<1> SUFFICES ASSUME JobsInv, [JobsNext]_jobVars PROVE JobsInv'
  OBVIOUS
<1>1. CASE UNCHANGED jobVars
  <2>1. TypeOK' /\ PidsOK'
    BY <1>1 DEF jobVars, JobsInv, TypeOK, PidsOK
  <2>2. HandoffOK' /\ TableOK'
    BY <1>1 DEF jobVars, JobsInv, HandoffOK, TableOK
  <2>3. JobsAccounted'
    BY <1>1 DEF jobVars, JobsInv, JobsAccounted, JobIds, JobChildren, Waited
  <2> QED
    BY <2>1, <2>2, <2>3 DEF JobsInv
<1>2. CASE Launch
  BY <1>2, LaunchKeeps
<1>3. CASE Register
  BY <1>3, RegisterKeeps
<1>4. CASE HandoffFails
  BY <1>4, HandoffFailsKeeps
<1>5. CASE ChildExits
  BY <1>5, ExitKeeps
<1>6. CASE ReapFinishedJobs
  BY <1>6, ReapKeeps
<1>7. CASE ListJobs
  BY <1>7, ListKeeps
<1>8. CASE WaitAll
  BY <1>8, WaitsKeep
<1>9. CASE Collect
  BY <1>9, CollectKeeps
<1>10. ASSUME NEW spec \in Specs, Foreground(spec) \/ Wait(spec)
       PROVE  JobsInv'
  BY <1>10, WaitsKeep
<1>11. ASSUME NEW spec \in Specs, Background(spec)
       PROVE  JobsInv'
  BY <1>11, BackgroundKeeps
<1>12. ASSUME NEW spec \in Specs, Kill(spec)
       PROVE  JobsInv'
  BY <1>12, KillKeeps
<1> QED
  BY <1>1, <1>2, <1>3, <1>4, <1>5, <1>6, <1>7, <1>8, <1>9, <1>10, <1>11, <1>12 DEF JobsNext

\* Every background child of a shell is accounted for exactly once, and no process
\* id goes to another process while the table still signals it as a live job.
THEOREM JobsAlwaysAccounted == JobsSpec => []JobsAccounted
<1>1. JobsInv => JobsAccounted
  BY DEF JobsInv
<1> QED
  BY <1>1, InitInv, NextInv, PTL DEF JobsSpec

-----------------------------------------------------------------------------
(* The pipeline.  What run_pipeline has already waited for at each of its  *)
(* program points; no assumption on the pipelines, the codes or the pipes. *)

StatesOK == st \in [Stages -> {"none", "run", "ended", "waited"}]

\* Stages run one after the other are never loose, and after the kill only
\* threads are.
PhasesOK ==
  /\ pc = "buffered" => Loose = {}
  /\ pc = "joining" => \A k \in Loose : ~Ext(k)

\* There is a status only where there is a return; the limit on what is captured
\* is met where stages of both kinds are waited for.
StatusOK == (pc # "returned" => status = -1) /\ (full # {} => Route = "mixed")

PipelineInv == StatesOK /\ PhasesOK /\ StatusOK /\ StagesReaped

\* The route, and with it the order of waiting, is a matter of the commands and
\* of where the output goes.
LEMMA RouteFixed ==
  ASSUME UNCHANGED <<cmds, live>>
  PROVE  /\ Stages' = Stages /\ N' = N /\ Route' = Route /\ Records' = Records
         /\ \A k : Ext(k)' = Ext(k)
         /\ \A j, k : WaitsBefore(j, k)' = WaitsBefore(j, k)
  BY DEF Stages, N, Route, Records, Ext, WaitsBefore

\* No stage runs when the pipeline is made.
LEMMA PipelineInitInv == PipelineInit => PipelineInv
<1> SUFFICES ASSUME PipelineInit PROVE PipelineInv
  OBVIOUS
<1>1. StatesOK /\ Loose = {}
  BY DEF PipelineInit, StatesOK, Loose
<1>2. pc \in {"buffered", "start"} /\ status = -1 /\ full = {}
  BY DEF PipelineInit
<1> QED
  BY <1>1, <1>2 DEF PipelineInv, PhasesOK, StatusOK, StagesReaped

\* A stage that writes, reads or quits was running; it ends and stays loose, so
\* it does so only while nobody has promised that it was waited for.
LEMMA StageKeeps ==
  ASSUME PipelineInv, NEW k \in Stages, WriteItem(k) \/ ReadItem(k) \/ Quit(k)
  PROVE  PipelineInv'
<1>1. /\ UNCHANGED <<cmds, live, pc, full, status, pipestatus>>
      /\ k \in Loose /\ st[k] = "run"
      /\ \/ UNCHANGED <<st, code, failed>>
         \/ /\ st' = [st EXCEPT ![k] = "ended"]
            /\ failed' \in {failed, failed \cup {k}}
  <2>1. Running(k) /\ UNCHANGED <<cmds, live, pc, full, status, pipestatus>>
    BY DEF WriteItem, ReadItem, Quit
  <2>2. \/ UNCHANGED <<st, code, failed>>
        \/ \E c, err : EndStage(k, c, err)
    BY DEF WriteItem, ReadItem, Quit
  <2>3. k \in Loose
    BY <2>1 DEF Running, Loose
  <2> QED
    BY <2>1, <2>2, <2>3 DEF EndStage, Running
<1>2. /\ Stages' = Stages /\ Route' = Route /\ Records' = Records
      /\ \A j : Ext(j)' = Ext(j)
      /\ \A i, j : WaitsBefore(i, j)' = WaitsBefore(i, j)
  BY <1>1, RouteFixed
<1>3. StatesOK' /\ Loose' = Loose
  BY <1>1, <1>2 DEF PipelineInv, StatesOK, Loose
<1>4. PhasesOK' /\ StatusOK'
  BY <1>1, <1>2, <1>3 DEF PipelineInv, PhasesOK, StatusOK
<1>5. StagesReaped'
  <2> SUFFICES ASSUME pc = "returned" PROVE StagesReaped'
    BY <1>1 DEF StagesReaped
  <2>1. ~Records
    <3>1. ReturnedEarly # {}
      BY <1>1 DEF PipelineInv, StagesReaped
    <3>2. Route = "stages" \/ full # {}
      BY <3>1 DEF ReturnedEarly
    <3> QED
      BY <3>2 DEF PipelineInv, StatusOK, Records
  <2>2. \A j \in ReturnedEarly : j \in ReturnedEarly'
    BY <1>1, <1>2 DEF ReturnedEarly, PipelineInv, StatesOK
  <2>3. \A i \in Loose : \E j \in ReturnedEarly : WaitsBefore(j, i)
    BY DEF PipelineInv, StagesReaped
  <2> QED
    BY <1>2, <1>3, <2>1, <2>2, <2>3 DEF StagesReaped
<1> QED
  BY <1>3, <1>4, <1>5 DEF PipelineInv

\* While the stages are started, and while the started ones are waited for in
\* turn, nothing is promised of any of them yet.
LEMMA OpenPhaseKeeps ==
  ASSUME PipelineInv, UNCHANGED <<cmds, live, full, status>>, status = -1,
         pc' \in {"start", "cleanup", "last", "wait"},
         StatesOK'
  PROVE  PipelineInv'
  BY RouteFixed DEF PipelineInv, PhasesOK, StatusOK, StagesReaped

\* Pipes are made, stages started, and a stage or a pipe that fails to start
\* leads to the clean-up.
LEMMA StartKeeps ==
  ASSUME PipelineInv, MakeShellPipes \/ StartStage \/ StartFails \/ PipeFails \/ AllStarted
  PROVE  PipelineInv'
<1>1. UNCHANGED <<cmds, live, full, status>> /\ pc = "start"
      /\ pc' \in {"start", "cleanup", "last", "wait"}
      /\ (UNCHANGED st \/ \E k : st' = [st EXCEPT ![k] = "run"])
  <2>1. CASE MakeShellPipes
    BY <2>1 DEF MakeShellPipes
  <2>2. CASE StartStage
    <3>1. \E among : Begin(among)
      BY <2>2 DEF StartStage, StartExternalStage, StartLiveExternalStage, StartMixedStage,
         StartLiveMixedStage, StartPrefixStage, StartSuffixStage, StartShellStage,
         StartFinalPrefixStage, StartReadPrefixStage, StartLivePrefixStage
    <3> QED
      BY <3>1 DEF Begin
  <2>3. CASE StartFails
    BY <2>3 DEF StartFails
  <2>4. CASE PipeFails
    BY <2>4 DEF PipeFails
  <2>5. CASE AllStarted
    BY <2>5 DEF AllStarted
  <2> QED
    BY <2>1, <2>2, <2>3, <2>4, <2>5
<1>2. status = -1
  BY <1>1 DEF PipelineInv, StatusOK
<1>3. StatesOK'
  BY <1>1, RouteFixed DEF PipelineInv, StatesOK
<1> QED
  BY <1>1, <1>2, <1>3, OpenPhaseKeeps

\* The kill leaves only threads, and joining them leaves nothing.
LEMMA CleanUpKeeps ==
  ASSUME PipelineInv, KillStages \/ CleanedUp
  PROVE  PipelineInv'
<1>1. UNCHANGED <<cmds, live, status, pipestatus, failed, full>> /\ pc # "returned"
  BY DEF KillStages, CleanedUp
<1>2. status = -1 /\ status' = -1
  BY <1>1 DEF PipelineInv, StatusOK
<1>3. /\ Stages' = Stages /\ Route' = Route /\ \A j : Ext(j)' = Ext(j)
  BY <1>1, RouteFixed
<1>4. CASE KillStages
  <2>1. /\ pc' = "joining"
        /\ st' = [k \in Stages |-> IF k \in Loose /\ Ext(k) THEN "waited" ELSE st[k]]
    BY <1>4 DEF KillStages, Live, Loose
  <2>2. StatesOK' /\ \A k \in Loose' : ~Ext(k)
    BY <1>3, <2>1 DEF PipelineInv, StatesOK, Loose
  <2> QED
    BY <1>1, <1>2, <1>3, <2>1, <2>2 DEF PipelineInv, PhasesOK, StatusOK, StagesReaped
<1>5. CASE CleanedUp
  <2>1. /\ pc = "joining" /\ pc' = "returned"
        /\ st' = [k \in Stages |-> IF k \in Loose /\ ~Ext(k) THEN "waited" ELSE st[k]]
    BY <1>5 DEF CleanedUp, Live, Loose
  <2>2. \A k \in Loose : ~Ext(k)
    BY <2>1 DEF PipelineInv, PhasesOK
  <2>3. StatesOK' /\ Loose' = {}
    BY <1>3, <2>1, <2>2 DEF PipelineInv, StatesOK, Loose
  <2> QED
    BY <1>1, <1>2, <1>3, <2>1, <2>3 DEF PipelineInv, PhasesOK, StatusOK, StagesReaped
<1> QED
  BY <1>4, <1>5

\* The two early returns: what is left unwaited comes after the stage whose error
\* is returned.
LEMMA WaitingKeeps ==
  ASSUME PipelineInv, LastDone \/ WaitStage
  PROVE  PipelineInv'
<1>1. \/ /\ pc' = "wait" /\ UNCHANGED <<cmds, live, status, full>> /\ pc \in {"last", "wait"}
         /\ \E k : st' = [st EXCEPT ![k] = "waited"]
      \/ /\ pc' = "returned" /\ UNCHANGED <<cmds, live, status, failed>> /\ pc = "wait"
         /\ \E k \in Unwaited :
              /\ \A j \in Unwaited \ {k} : WaitsBefore(k, j)
              /\ st' = [st EXCEPT ![k] = "waited"]
              /\ \/ Route = "stages" /\ k \in failed /\ UNCHANGED full
                 \/ Route = "mixed" /\ full' = {k}
  <2>1. CASE LastDone
    BY <2>1 DEF LastDone
  <2>2. CASE WaitShellStages
    BY <2>2 DEF WaitShellStages, CollectStage
  <2>3. CASE CollectStage("wait")
    BY <2>3 DEF CollectStage
  <2>4. CASE Route = "mixed" /\ StderrFull
    BY <2>4 DEF StderrFull
  <2> QED
    BY <2>1, <2>2, <2>3, <2>4 DEF WaitStage, WaitMixed, WaitExternal, WaitPrefix
<1>2. status = -1 /\ status' = -1
  BY <1>1 DEF PipelineInv, StatusOK
<1>3. /\ Stages' = Stages /\ Route' = Route
      /\ \A i, j : WaitsBefore(i, j)' = WaitsBefore(i, j)
  BY <1>1, RouteFixed
<1>4. StatesOK'
  BY <1>1, <1>3 DEF PipelineInv, StatesOK
<1>5. CASE pc' = "wait"
  BY <1>1, <1>2, <1>4, <1>5, OpenPhaseKeeps
<1>6. CASE pc' = "returned"
  <2>1. PICK k \in Unwaited :
          /\ \A j \in Unwaited \ {k} : WaitsBefore(k, j)
          /\ st' = [st EXCEPT ![k] = "waited"]
          /\ \/ Route = "stages" /\ k \in failed /\ failed' = failed /\ UNCHANGED full
             \/ Route = "mixed" /\ full' = {k}
    BY <1>1, <1>6
  <2>2. k \in Stages /\ st'[k] = "waited"
    BY <2>1 DEF Unwaited, PipelineInv, StatesOK
  <2>3. k \in ReturnedEarly'
    BY <1>3, <2>1, <2>2 DEF ReturnedEarly
  <2>4. \A j \in Loose' : j \in Unwaited \ {k}
    BY <1>3, <2>1, <2>2 DEF Loose, Unwaited, PipelineInv, StatesOK
  <2>5. StagesReaped'
    BY <1>2, <1>3, <2>1, <2>3, <2>4 DEF StagesReaped
  <2>6. StatusOK' /\ PhasesOK'
    BY <1>3, <1>6, <2>1 DEF PipelineInv, StatusOK, PhasesOK
  <2> QED
    BY <1>4, <2>5, <2>6 DEF PipelineInv
<1> QED
  BY <1>1, <1>5, <1>6

\* The ordinary return: every stage has been waited for, and the codes that give
\* the status are the ones PIPESTATUS gets.
LEMMA ReturnKeeps ==
  ASSUME PipelineInv, Return
  PROVE  PipelineInv'
<1>1. /\ UNCHANGED <<cmds, live, st, code, failed, full>>
      /\ pc = "wait" /\ pc' = "returned" /\ Unwaited = {}
  BY DEF Return
<1>2. Stages' = Stages /\ Route' = Route /\ Records' = Records
  BY <1>1, RouteFixed
<1>3. StatesOK' /\ Loose' = {}
  BY <1>1, <1>2 DEF PipelineInv, StatesOK, Loose, Unwaited
<1>4. status' # -1 /\ Records => pipestatus' = code
  <2>1. status = -1
    BY <1>1 DEF PipelineInv, StatusOK
  <2> QED
    BY <2>1 DEF Return
<1> QED
  BY <1>1, <1>2, <1>3, <1>4 DEF PipelineInv, PhasesOK, StatusOK, StagesReaped

\* One stage after the other: each is over before the next.
LEMMA BufferedKeeps ==
  ASSUME PipelineInv, BufferedStage
  PROVE  PipelineInv'
<1>1. UNCHANGED <<cmds, live, full>> /\ pc = "buffered"
  BY DEF BufferedStage
<1>2. Stages' = Stages /\ Route' = Route /\ Records' = Records
  BY <1>1, RouteFixed
<1>3. status = -1 /\ Loose = {}
  BY <1>1 DEF PipelineInv, StatusOK, PhasesOK
<1>4. \E k : st' = [st EXCEPT ![k] = "waited"]
  BY DEF BufferedStage
<1>5. StatesOK' /\ Loose' = {}
  BY <1>2, <1>3, <1>4 DEF PipelineInv, StatesOK, Loose
<1>6. \/ pc' = "buffered" /\ status' = -1
      \/ pc' = "returned" /\ pipestatus' = code'
      \/ pc' = "returned" /\ status' = -1
  BY <1>1, <1>3 DEF BufferedStage
<1> QED
  BY <1>1, <1>2, <1>5, <1>6 DEF PipelineInv, PhasesOK, StatusOK, StagesReaped

\* Every step of a stage or of the shell keeps the invariant.
LEMMA PipelineNextInv == PipelineInv /\ [PipelineNext]_pipelineVars => PipelineInv'
<1> SUFFICES ASSUME PipelineInv, [PipelineNext]_pipelineVars PROVE PipelineInv'
  OBVIOUS
<1>1. CASE UNCHANGED pipelineVars
  BY <1>1 DEF pipelineVars, PipelineInv, StatesOK, PhasesOK, StatusOK, StagesReaped, Loose,
     ReturnedEarly, WaitsBefore, Stages, N, Route, Records, Ext
<1>2. ASSUME NEW k \in Stages, WriteItem(k) \/ ReadItem(k) \/ Quit(k) PROVE PipelineInv'
  BY <1>2, StageKeeps
<1>3. CASE StartFails \/ PipeFails \/ MakeShellPipes \/ StartStage \/ AllStarted
  BY <1>3, StartKeeps
<1>4. CASE KillStages \/ CleanedUp
  BY <1>4, CleanUpKeeps
<1>5. CASE LastDone \/ WaitStage
  BY <1>5, WaitingKeeps
<1>6. CASE Return
  BY <1>6, ReturnKeeps
<1>7. CASE BufferedStage
  BY <1>7, BufferedKeeps
<1> QED
  BY <1>1, <1>2, <1>3, <1>4, <1>5, <1>6, <1>7 DEF PipelineNext, ShellStep

\* However a pipeline ends, by its stages, by a failure to start one or by an
\* error while they are waited for, a stage is left behind only after one whose
\* error is returned early, and a recorded PIPESTATUS is this pipeline's
\* (executor.rs, run_pipeline).
THEOREM StagesAlwaysReaped == PipelineSpec => []StagesReaped
<1>1. PipelineInv => StagesReaped
  BY DEF PipelineInv
<1> QED
  BY <1>1, PipelineInitInv, PipelineNextInv, PTL DEF PipelineSpec
=============================================================================
