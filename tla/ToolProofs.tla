----------------------------- MODULE ToolProofs -----------------------------
(***************************************************************************)
(* The searches that one thread makes, for every job their assumptions     *)
(* admit: the counters of the tables are those of what was scanned         *)
(* (CountsAreExact), two outcomes of a prefix pair meet exactly where they *)
(* do behind the prefixes (MergesAreExact), the pair a projection search   *)
(* reports is the nearest it compared (NearestIsExact), the pairs of a     *)
(* divergent beam stay apart, its best one never lost (PairsStayApart),    *)
(* the tools that fold pairs of one forward state back report what becomes *)
(* of them (SeparationIsExact), and the multicollision probe writes out    *)
(* the messages of a longest chain of aliases (ProbeIsExact), the first of *)
(* its length (ChainIsFirst).                                              *)
(*                                                                         *)
(* Each has the same shape: what the invariant says is a constant operator *)
(* of the job, of how much of it was scanned, and of what was kept, and a  *)
(* lemma says what one more record makes of it.                            *)
(***************************************************************************)
EXTENDS FirstSeen, Lsh, DivergentBeam, PrefixPair, Probe, InductionTheorems, SequenceTheorems

(* A job is one of its tool.                                               *)
LEMMA JobOfItsTool ==
  ASSUME NEW tools, job \in JobsOf(tools)
  PROVE  job.tool \in tools /\ job \in JobsOf({job.tool})
  BY JobsAssumption DEF JobsOf

-----------------------------------------------------------------------------
(* The tables: how a job of one of them looks.                             *)
(* predecessor_enumerator: the targets of all transitions.                 *)
Targets == [n \in Nat |-> Target(n)]

LeadTo(k, v) == Cardinality(Places(Targets, k, v))
Merging(k) == {v \in Met(Targets, k) : LeadTo(k, v) > 1}
Indegrees(k) == {1} \cup {LeadTo(k, v) : v \in Met(Targets, k)}

TargetsEntered(table, k) ==
  /\ DOMAIN table = Met(Targets, k)
  /\ \A v \in Met(Targets, k) :
       table[v].count = LeadTo(k, v) /\ IsLeast(table[v].first, Places(Targets, k, v))

PredecessorCounters(numbers, k) ==
  /\ numbers.collision_targets = Cardinality(Merging(k))
  /\ numbers.extra_predecessors = k - Cardinality(Met(Targets, k))
  /\ IsMost(numbers.max_indegree, Indegrees(k))

PredecessorInv ==
  job.tool = "predecessor" =>
    /\ at \in Nat
    /\ DOMAIN seen = {"targets"} /\ TargetsEntered(seen["targets"], at)
    /\ PredecessorCounters(counters, at)

(* One transition more, to v, which c have led to before.                  *)
LEMMA OneMoreMerging ==
  ASSUME NEW k \in Nat
  PROVE  LET v == Targets[k]
             c == LeadTo(k, v) + 1
         IN  /\ LeadTo(k, v) \in Nat /\ LeadTo(k + 1, v) = c
             /\ \A w : w # v => LeadTo(k + 1, w) = LeadTo(k, w) /\ LeadTo(k, w) \in Nat
             /\ Cardinality(Merging(k + 1)) = Cardinality(Merging(k)) + Count(c = 2)
             /\ Cardinality(Merging(k)) \in Nat
             /\ \A m : IsMost(m, Indegrees(k)) => IsMost(Max({m, c}), Indegrees(k + 1))
  <1> DEFINE v == Targets[k]
             c == LeadTo(k, v) + 1
  <1>1. /\ LeadTo(k, v) \in Nat /\ LeadTo(k + 1, v) = c
        /\ \A w : w # v => LeadTo(k + 1, w) = LeadTo(k, w)
        /\ \A w : LeadTo(k, w) \in Nat
        /\ v \in Met(Targets, k) <=> LeadTo(k, v) > 0
    BY OneMorePlace DEF LeadTo
  <1>2. /\ Met(Targets, k + 1) = Met(Targets, k) \cup {v}
        /\ IsFiniteSet(Met(Targets, k))
    BY OneMoreMet
  <1>. HIDE DEF v
  <1>3. /\ Cardinality(Merging(k + 1)) = Cardinality(Merging(k)) + Count(c = 2)
        /\ Cardinality(Merging(k)) \in Nat
    <2>1. IsFiniteSet(Merging(k)) /\ Cardinality(Merging(k)) \in Nat
      BY <1>2, FS_Subset, FS_CardinalityType DEF Merging
    <2>2. CASE c = 2
      <3>1. Merging(k + 1) = Merging(k) \cup {v} /\ v \notin Merging(k)
        BY <1>1, <1>2, <2>2 DEF Merging
      <3>. QED
        BY <2>1, <2>2, <3>1, FS_AddElement DEF Count
    <2>3. CASE c # 2
      <3>1. Merging(k + 1) = Merging(k)
        BY <1>1, <1>2, <2>3 DEF Merging
      <3>. QED
        BY <2>1, <2>3, <3>1 DEF Count
    <2>. QED
      BY <2>1, <2>2, <2>3
  <1>4. ASSUME NEW m, IsMost(m, Indegrees(k)) PROVE IsMost(Max({m, c}), Indegrees(k + 1))
    <2>1. m \in Int /\ c \in Int /\ m \in Indegrees(k) /\ \A x \in Indegrees(k) : x <= m
      BY <1>1, <1>4 DEF IsMost, Indegrees
    <2>2. Max({m, c}) = IF m < c THEN c ELSE m
      BY <2>1, MostIsMax DEF IsMost
    <2>3. c \in Indegrees(k + 1)
      BY <1>1, <1>2 DEF Indegrees
    <2>4. ASSUME NEW x \in Indegrees(k + 1) PROVE x <= m \/ x = c
      BY <1>1, <1>2, <2>1 DEF Indegrees
    <2>5. ~(m < c) => m \in Indegrees(k + 1)
      BY <1>1, <1>2, <2>1 DEF Indegrees
    <2>6. \A x \in Indegrees(k + 1) : x \in Int
      BY <1>1, <1>2 DEF Indegrees
    <2>. QED
      BY <2>1, <2>2, <2>3, <2>4, <2>5, <2>6 DEF IsMost
  <1>. QED
    BY <1>1, <1>3, <1>4 DEF v

LEMMA PredecessorInit == TableInit => PredecessorInv
  <1>. SUFFICES ASSUME TableInit, job.tool = "predecessor"
                PROVE  /\ at \in Nat
                       /\ DOMAIN seen = {"targets"} /\ TargetsEntered(seen["targets"], at)
                       /\ PredecessorCounters(counters, at)
    BY DEF PredecessorInv
  <1>1. /\ at = 0 /\ seen = [table \in {"targets"} |-> Empty]
        /\ counters = [collision_targets |-> 0, extra_predecessors |-> 0, max_indegree |-> 1]
    BY DEF TableInit, Start, EmptyTables, ZeroCounters, Trials
  <1>2. Met(Targets, 0) = {} /\ Cardinality(Met(Targets, 0)) = 0
    BY NothingMet
  <1>3. TargetsEntered(Empty, 0)
    BY <1>2 DEF TargetsEntered, Empty
  <1>4. Merging(0) = {} /\ Indegrees(0) = {1}
    BY <1>2 DEF Merging, Indegrees
  <1>5. PredecessorCounters(counters, 0)
    BY <1>1, <1>2, <1>4, FS_EmptySet DEF PredecessorCounters, IsMost
  <1>. QED
    BY <1>1, <1>3, <1>5

LEMMA PredecessorStep ==
  ASSUME PredecessorInv, [TableNext]_vars
  PROVE  PredecessorInv'
  <1>. SUFFICES ASSUME (job.tool)' = "predecessor" PROVE PredecessorInv'
    BY DEF PredecessorInv
  <1>1. job' = job /\ Targets' = Targets
    BY DEF TableNext, vars, Predecessor, EndPredecessor, PhaseMessage, EndPhase, Miss, Hit,
           Censored, EndTrial, Leave, Targets, Target, Source, Symbol
  <1>2. /\ job.tool = "predecessor" /\ at \in Nat
        /\ DOMAIN seen = {"targets"} /\ TargetsEntered(seen["targets"], at)
        /\ PredecessorCounters(counters, at)
    BY <1>1 DEF PredecessorInv
  <1>3. ASSUME UNCHANGED <<at, seen, counters>> PROVE PredecessorInv'
    BY <1>1, <1>2, <1>3
       DEF PredecessorInv, TargetsEntered, PredecessorCounters, LeadTo, Merging, Indegrees
  <1>4. CASE Predecessor
    <2> DEFINE v == Targets[at]
               table == seen["targets"]
               c == LeadTo(at, v) + 1
               first == IF v \in DOMAIN table THEN table[v].first ELSE at
               new == [w \in DOMAIN table \cup {v} |->
                         IF w = v THEN [first |-> first, count |-> c] ELSE table[w]]
    <2>1. /\ v = Target(at) /\ DOMAIN table = Met(Targets, at)
          /\ v \in DOMAIN table => table[v].count = LeadTo(at, v)
          /\ v \notin DOMAIN table => LeadTo(at, v) = 0
      BY <1>2, OneMorePlace DEF Targets, TargetsEntered, LeadTo
    <2>2. (IF v \in DOMAIN table THEN table[v].count + 1 ELSE 1) = c
      BY <2>1
    <2>. HIDE DEF c
    <2>3. /\ at' = at + 1 /\ seen' = [seen EXCEPT !["targets"] = new]
          /\ counters' = [collision_targets |-> counters.collision_targets + Count(c = 2),
                          extra_predecessors |-> counters.extra_predecessors + Count(c > 1),
                          max_indegree       |-> Max({counters.max_indegree, c})]
      BY <1>4, <2>1, <2>2 DEF Predecessor
    <2>4. /\ LeadTo(at, v) \in Nat /\ LeadTo(at + 1, v) = c
          /\ \A w : w # v => LeadTo(at + 1, w) = LeadTo(at, w) /\ LeadTo(at, w) \in Nat
          /\ Cardinality(Merging(at + 1)) = Cardinality(Merging(at)) + Count(c = 2)
          /\ Cardinality(Merging(at)) \in Nat
          /\ \A m : IsMost(m, Indegrees(at)) => IsMost(Max({m, c}), Indegrees(at + 1))
      BY <1>2, OneMoreMerging DEF c
    <2>5. /\ Met(Targets, at + 1) = Met(Targets, at) \cup {v}
          /\ Cardinality(Met(Targets, at)) \in Nat
          /\ Cardinality(Met(Targets, at + 1))
               = Cardinality(Met(Targets, at)) + (IF v \in Met(Targets, at) THEN 0 ELSE 1)
      BY <1>2, OneMoreMet
    <2>6. /\ v \in Met(Targets, at) <=> c > 1
          /\ Places(Targets, at + 1, v) = Places(Targets, at, v) \cup {at}
          /\ Places(Targets, at, v) \subseteq 0..(at - 1)
          /\ v \notin Met(Targets, at) => Places(Targets, at, v) = {}
          /\ \A w : w # v => Places(Targets, at + 1, w) = Places(Targets, at, w)
      <3>1. /\ Places(Targets, at + 1, v) = Places(Targets, at, v) \cup {at}
            /\ Places(Targets, at, v) \subseteq 0..(at - 1)
            /\ v \in Met(Targets, at) <=> Places(Targets, at, v) # {}
            /\ \A w : w # v => Places(Targets, at + 1, w) = Places(Targets, at, w)
        <4>1. Places(Targets, at + 1, Targets[at]) = Places(Targets, at, Targets[at]) \cup {at}
          BY <1>2, OneMorePlace, Zenon
        <4>2. \A w : Places(Targets, at, w) \subseteq 0..(at - 1)
          BY <1>2, OneMorePlace
        <4>3. \A w : w \in Met(Targets, at) <=> Places(Targets, at, w) # {}
          BY <1>2, OneMorePlace
        <4>4. \A w : w # Targets[at] => Places(Targets, at + 1, w) = Places(Targets, at, w)
          BY <1>2, OneMorePlace
        <4>. QED
          BY <4>1, <4>2, <4>3, <4>4
      <3>2. /\ v \in Met(Targets, at) => LeadTo(at, v) > 0
            /\ v \notin Met(Targets, at) => LeadTo(at, v) = 0
        BY <1>2, OneMorePlace DEF LeadTo
      <3>3. v \in Met(Targets, at) <=> c > 1
        BY <2>4, <3>2 DEF c
      <3>. QED
        BY <3>1, <3>3
    <2>7. TargetsEntered(new, at + 1)
      <3>1. DOMAIN new = Met(Targets, at + 1)
        BY <2>1, <2>5
      <3>2. IsLeast(first, Places(Targets, at + 1, v))
        <4>1. CASE v \in Met(Targets, at)
          <5>1. IsLeast(first, Places(Targets, at, v))
            BY <1>2, <2>1, <4>1 DEF TargetsEntered
          <5>. QED
            BY <1>2, <2>6, <5>1 DEF IsLeast
        <4>2. CASE v \notin Met(Targets, at)
          BY <1>2, <2>1, <2>6, <4>2 DEF IsLeast
        <4>. QED
          BY <4>1, <4>2
      <3>3. new[v].count = LeadTo(at + 1, v) /\ new[v].first = first
        BY <2>4
      <3>4. ASSUME NEW w \in Met(Targets, at + 1), w # v
            PROVE  /\ new[w].count = LeadTo(at + 1, w)
                   /\ IsLeast(new[w].first, Places(Targets, at + 1, w))
        <4>1. w \in Met(Targets, at) /\ new[w] = table[w]
          BY <2>1, <2>5, <3>4
        <4>. QED
          BY <1>2, <2>4, <2>6, <3>4, <4>1 DEF TargetsEntered
      <3>. HIDE DEF new
      <3>. QED
        BY <3>1, <3>2, <3>3, <3>4 DEF TargetsEntered
    <2>8. PredecessorCounters(counters', at + 1)
      <3>1. Count(c > 1) = IF v \in Met(Targets, at) THEN 1 ELSE 0
        BY <2>6 DEF Count
      <3>2. counters'.extra_predecessors = (at + 1) - Cardinality(Met(Targets, at + 1))
        BY <1>2, <2>3, <2>5, <3>1 DEF PredecessorCounters
      <3>3. counters'.collision_targets = Cardinality(Merging(at + 1))
        BY <1>2, <2>3, <2>4 DEF PredecessorCounters
      <3>4. IsMost(counters'.max_indegree, Indegrees(at + 1))
        BY <1>2, <2>3, <2>4 DEF PredecessorCounters
      <3>. QED
        BY <3>2, <3>3, <3>4 DEF PredecessorCounters
    <2>9. DOMAIN seen' = {"targets"} /\ seen'["targets"] = new
      BY <1>2, <2>3
    <2>. HIDE DEF new, v
    <2>10. /\ TargetsEntered(seen["targets"], at)'
           /\ PredecessorCounters(counters, at)'
      BY <1>1, <2>3, <2>7, <2>8, <2>9
         DEF TargetsEntered, PredecessorCounters, LeadTo, Merging, Indegrees
    <2>. QED
      BY <1>2, <2>3, <2>9, <2>10 DEF PredecessorInv
  <1>5. ~(job.tool \in {"phase"} \cup Trials)
    BY <1>2 DEF Trials
  <1>6. CASE EndPredecessor \/ UNCHANGED vars
    BY <1>3, <1>6 DEF EndPredecessor, Leave, vars
  <1>. QED
    BY <1>4, <1>5, <1>6 DEF TableNext, PhaseMessage, EndPhase, Miss, Hit, Censored, Tool

LEMMA PredecessorsExact ==
  ASSUME PredecessorInv
  PROVE  PredecessorsCounted
  <1>. SUFFICES ASSUME job.tool = "predecessor"
       PROVE  LET targets == {Target(n) : n \in Scanned}
              IN  /\ counters.collision_targets
                       = Cardinality({t \in targets : Cardinality(PredecessorsOf(t)) > 1})
                  /\ counters.extra_predecessors = at - Cardinality(targets)
                  /\ counters.max_indegree
                       = Max({1} \cup {Cardinality(PredecessorsOf(t)) : t \in targets})
                  /\ \A t \in targets : seen["targets"][t].first = Min(PredecessorsOf(t))
    BY DEF PredecessorsCounted
  <1> DEFINE targets == {Target(n) : n \in Scanned}
  <1>1. /\ at \in Nat /\ TargetsEntered(seen["targets"], at)
        /\ PredecessorCounters(counters, at)
    BY DEF PredecessorInv
  <1>2. targets = Met(Targets, at)
    BY <1>1 DEF Met, Targets, Scanned
  <1>3. \A t : PredecessorsOf(t) = Places(Targets, at, t)
    BY <1>1 DEF PredecessorsOf, Places, Targets, Scanned
  <1>4. \A t : Cardinality(PredecessorsOf(t)) = LeadTo(at, t)
    BY <1>3 DEF LeadTo
  <1>. HIDE DEF targets
  <1>5. {t \in targets : Cardinality(PredecessorsOf(t)) > 1} = Merging(at)
    BY <1>2, <1>4 DEF Merging
  <1>6. {1} \cup {Cardinality(PredecessorsOf(t)) : t \in targets} = Indegrees(at)
    BY <1>2, <1>4 DEF Indegrees
  <1>7. counters.max_indegree = Max(Indegrees(at))
    <2>1. \A x \in Indegrees(at) : x \in Int
      BY <1>1, OneMorePlace DEF Indegrees, LeadTo
    <2>. QED
      BY <1>1, <2>1, MostIsMax DEF PredecessorCounters
  <1>8. \A t \in targets : seen["targets"][t].first = Min(PredecessorsOf(t))
    <2>1. ASSUME NEW t \in targets PROVE seen["targets"][t].first = Min(Places(Targets, at, t))
      <3>1. IsLeast(seen["targets"][t].first, Places(Targets, at, t))
        BY <1>1, <1>2 DEF TargetsEntered
      <3>2. \A x \in Places(Targets, at, t) : x \in Int
        BY DEF Places
      <3>. QED
        BY <3>1, <3>2, LeastIsMin
    <2>. QED
      BY <1>3, <2>1
  <1>9. /\ counters.collision_targets = Cardinality(Merging(at))
        /\ counters.extra_predecessors = at - Cardinality(targets)
    BY <1>1, <1>2 DEF PredecessorCounters
  <1>. QED
    BY <1>5, <1>6, <1>7, <1>8, <1>9 DEF targets

-----------------------------------------------------------------------------
(* phase_collision: the states of all messages at a checkpoint.            *)
StatesAt(p) == [n \in Nat |-> CheckpointState(p, n)]
Digests == [n \in Nat |-> Digest(n)]

PhaseTables == {"AfterForward", "AfterFoldback", "AfterDiagonalClosure", "AfterOrbitClosure",
                "Final"}

LEMMA PhaseNames == ToSet(Phases) = PhaseTables /\ "digest" \notin PhaseTables
  <1>1. DOMAIN Phases = 1..5 /\ 1..5 = {1, 2, 3, 4, 5}
    BY DEF Phases
  <1>2. \A x : x \in ToSet(Phases) <=> \E n \in {1, 2, 3, 4, 5} : Phases[n] = x
    BY <1>1 DEF ToSet
  <1>3. /\ Phases[1] = "AfterForward" /\ Phases[2] = "AfterFoldback"
        /\ Phases[3] = "AfterDiagonalClosure" /\ Phases[4] = "AfterOrbitClosure"
        /\ Phases[5] = "Final"
    BY DEF Phases
  <1>. QED
    BY <1>2, <1>3 DEF PhaseTables

(* Every message is in the bucket of its fingerprint, and only messages    *)
(* that have been are in a bucket.                                         *)
BucketsHold(table, p, k) ==
  /\ \A n \in 0..(k - 1) : /\ Fingerprint(p, n) \in DOMAIN table
                           /\ n \in ToSet(table[Fingerprint(p, n)])
  /\ \A fp \in DOMAIN table : table[fp] \in Seq(0..(k - 1))

Collisions(f, k) == k - Cardinality(Met(f, k))

PhaseInv ==
  job.tool = "phase" =>
    /\ at \in Nat
    /\ DOMAIN seen = PhaseTables \cup {"digest"}
    /\ DOMAIN counters = PhaseTables \cup {"digest"}
    /\ \A p \in PhaseTables : /\ BucketsHold(seen[p], p, at)
                             /\ counters[p] = Collisions(StatesAt(p), at)
    /\ seen["digest"] = Met(Digests, at)
    /\ counters["digest"] = Collisions(Digests, at)

LEMMA PhaseInitially == TableInit => PhaseInv
  <1>. SUFFICES ASSUME TableInit, job.tool = "phase" PROVE PhaseInv
    BY DEF PhaseInv
  <1>1. /\ at = 0 /\ counters = [table \in PhaseTables \cup {"digest"} |-> 0]
        /\ seen = [table \in PhaseTables \cup {"digest"} |-> IF table = "digest" THEN {} ELSE Empty]
    BY PhaseNames DEF TableInit, Start, EmptyTables, ZeroCounters, Trials
  <1>2. \A f : Met(f, 0) = {} /\ Collisions(f, 0) = 0
    BY NothingMet DEF Collisions
  <1>3. \A p : BucketsHold(Empty, p, 0)
    BY DEF BucketsHold, Empty
  <1>. QED
    BY <1>1, <1>2, <1>3, PhaseNames DEF PhaseInv

LEMMA OneMoreCollision ==
  ASSUME NEW f, NEW k \in Nat
  PROVE  Collisions(f, k + 1) = Collisions(f, k) + Count(f[k] \in Met(f, k))
  BY OneMoreMet DEF Collisions, Count

(* The bucket of the fingerprint tells whether the state has been met, and *)
(* the message joins it.                                                   *)
LEMMA OneMoreInBucket ==
  ASSUME at \in Nat, NEW p, BucketsHold(seen[p], p, at), NEW new,
         new = [fp \in DOMAIN seen[p] \cup {Fingerprint(p, at)} |->
                  IF fp = Fingerprint(p, at) THEN Append(Bucket(p, at), at) ELSE seen[p][fp]]
  PROVE  /\ Collides(p, at) <=> StatesAt(p)[at] \in Met(StatesAt(p), at)
         /\ BucketsHold(new, p, at + 1)
  <1> DEFINE fp0 == Fingerprint(p, at)
             B == Bucket(p, at)
  <1>1. B \in Seq(0..(at - 1))
    <2>1. <<>> \in Seq(0..(at - 1))
      OBVIOUS
    <2>2. fp0 \in DOMAIN seen[p] => seen[p][fp0] \in Seq(0..(at - 1))
      BY DEF BucketsHold
    <2>. QED
      BY <2>1, <2>2 DEF Bucket
  <1>2. \A m \in ToSet(B) : m \in 0..(at - 1)
    BY <1>1 DEF ToSet
  <1>3. \A m \in 0..(at - 1) : Fingerprint(p, m) = fp0 => m \in ToSet(B)
    BY DEF BucketsHold, Bucket
  <1>4. ASSUME NEW m \in ToSet(B), CheckpointState(p, m) = CheckpointState(p, at)
        PROVE  StatesAt(p)[at] \in Met(StatesAt(p), at)
    BY <1>2, <1>4 DEF StatesAt, Met
  <1>5. ASSUME StatesAt(p)[at] \in Met(StatesAt(p), at) PROVE Collides(p, at)
    <2>1. PICK m \in 0..(at - 1) : StatesAt(p)[m] = StatesAt(p)[at]
      BY <1>5 DEF Met
    <2>2. CheckpointState(p, m) = CheckpointState(p, at)
      BY <2>1 DEF StatesAt
    <2>3. m \in ToSet(B)
      BY <1>3, <2>2 DEF Fingerprint
    <2>. QED
      BY <2>2, <2>3 DEF Collides
  <1>6. ASSUME NEW T, NEW s \in Seq(T), NEW x
        PROVE  /\ Append(s, x) \in Seq(T \cup {x}) /\ x \in ToSet(Append(s, x))
               /\ \A y \in ToSet(s) : y \in ToSet(Append(s, x))
    <2>1. /\ Len(s) \in Nat /\ DOMAIN s = 1..Len(s) /\ DOMAIN Append(s, x) = 1..(Len(s) + 1)
          /\ Append(s, x)[Len(s) + 1] = x
          /\ \A n \in 1..Len(s) : Append(s, x)[n] = s[n] /\ s[n] \in T
      OBVIOUS
    <2>2. x \in ToSet(Append(s, x))
      BY <2>1 DEF ToSet
    <2>3. ASSUME NEW n \in 1..Len(s) PROVE s[n] \in ToSet(Append(s, x))
      <3>1. n \in 1..(Len(s) + 1) /\ Append(s, x)[n] = s[n]
        BY <2>1
      <3>. QED
        BY <2>1, <3>1 DEF ToSet
    <2>4. \A y \in ToSet(s) : y \in ToSet(Append(s, x))
      BY <2>1, <2>3 DEF ToSet
    <2>5. s \in Seq(T \cup {x})
      OBVIOUS
    <2>6. Append(s, x) \in Seq(T \cup {x})
      BY <2>5
    <2>. QED
      BY <2>2, <2>4, <2>6
  <1>7. 0..at = 0..(at - 1) \cup {at}
    OBVIOUS
  <1>8. /\ Append(B, at) \in Seq(0..at) /\ at \in ToSet(Append(B, at))
        /\ \A y \in ToSet(B) : y \in ToSet(Append(B, at))
    BY <1>1, <1>6, <1>7
  <1>9. BucketsHold(new, p, at + 1)
    <2>1. DOMAIN new = DOMAIN seen[p] \cup {fp0} /\ new[fp0] = Append(B, at)
      OBVIOUS
    <2>2. \A fp \in DOMAIN seen[p] : fp # fp0 => new[fp] = seen[p][fp]
      OBVIOUS
    <2>. HIDE DEF fp0, B
    <2>3. ASSUME NEW fp \in DOMAIN new PROVE new[fp] \in Seq(0..at)
      <3>1. CASE fp = fp0
        BY <1>8, <2>1, <3>1
      <3>2. CASE fp # fp0
        <4>1. new[fp] \in Seq(0..(at - 1))
          BY <2>1, <2>2, <3>2 DEF BucketsHold
        <4>. QED
          BY <1>7, <4>1
      <3>. QED
        BY <3>1, <3>2
    <2>4. ASSUME NEW n \in 0..at
          PROVE  /\ Fingerprint(p, n) \in DOMAIN new
                 /\ n \in ToSet(new[Fingerprint(p, n)])
      <3>1. CASE n = at
        BY <1>8, <2>1, <3>1 DEF fp0
      <3>2. CASE n # at /\ Fingerprint(p, n) = fp0
        BY <1>3, <1>7, <1>8, <2>1, <3>2
      <3>3. CASE n # at /\ Fingerprint(p, n) # fp0
        BY <1>7, <2>1, <2>2, <3>3 DEF BucketsHold
      <3>. QED
        BY <3>1, <3>2, <3>3
    <2>5. (at + 1) - 1 = at
      OBVIOUS
    <2>. QED
      BY <2>3, <2>4, <2>5, Zenon DEF BucketsHold
  <1>. QED
    BY <1>4, <1>5, <1>9 DEF Collides

LEMMA PhaseStep ==
  ASSUME PhaseInv, [TableNext]_vars
  PROVE  PhaseInv'
  <1>. SUFFICES ASSUME (job.tool)' = "phase" PROVE PhaseInv'
    BY DEF PhaseInv
  <1>1. /\ job' = job /\ Digests' = Digests
        /\ \A p : StatesAt(p)' = StatesAt(p)
        /\ \A p, n : Fingerprint(p, n)' = Fingerprint(p, n)
    <2>1. job' = job
      BY DEF TableNext, vars, Predecessor, EndPredecessor, PhaseMessage, EndPhase, Miss, Hit,
             Censored, EndTrial, Leave
    <2>2. \A p, n : CheckpointState(p, n)' = CheckpointState(p, n)
      BY <2>1 DEF CheckpointState, Folded, Diagonal, Orbit, Final
    <2>3. \A p : StatesAt(p)' = StatesAt(p)
      BY <2>2 DEF StatesAt
    <2>4. \A p, n : Fingerprint(p, n)' = Fingerprint(p, n)
      BY <2>1, <2>2 DEF Fingerprint
    <2>5. Digests' = Digests
      BY <2>1 DEF Digests, Digest, Folded, Diagonal, Orbit
    <2>. QED
      BY <2>1, <2>3, <2>4, <2>5
  <1>2. /\ job.tool = "phase" /\ at \in Nat
        /\ DOMAIN seen = PhaseTables \cup {"digest"}
        /\ DOMAIN counters = PhaseTables \cup {"digest"}
        /\ \A p \in PhaseTables : BucketsHold(seen[p], p, at) /\ counters[p] = Collisions(StatesAt(p), at)
        /\ seen["digest"] = Met(Digests, at)
        /\ counters["digest"] = Collisions(Digests, at)
    BY <1>1 DEF PhaseInv
  <1>3. ASSUME NEW table, NEW p, NEW k, BucketsHold(table, p, k)
        PROVE  (\A n \in 0..(k - 1) : /\ Fingerprint(p, n)' \in DOMAIN table
                                     /\ n \in ToSet(table[Fingerprint(p, n)']))
               /\ \A fp \in DOMAIN table : table[fp] \in Seq(0..(k - 1))
    BY <1>1, <1>3 DEF BucketsHold
  <1>4. CASE PhaseMessage
    <2>1. /\ at' = at + 1
          /\ seen' = [table \in DOMAIN seen |->
               IF table = "digest" THEN seen[table] \cup {Digest(at)}
               ELSE [fp \in DOMAIN seen[table] \cup {Fingerprint(table, at)} |->
                       IF fp = Fingerprint(table, at) THEN Append(Bucket(table, at), at)
                                                      ELSE seen[table][fp]]]
          /\ counters' = [table \in DOMAIN counters |->
               counters[table] + Count(IF table = "digest" THEN Digest(at) \in seen[table]
                                                           ELSE Collides(table, at))]
      BY <1>4 DEF PhaseMessage
    <2>2. ASSUME NEW p \in PhaseTables
          PROVE  /\ BucketsHold(seen'[p], p, at + 1)
                 /\ counters'[p] = Collisions(StatesAt(p), at + 1)
      <3>1. p # "digest"
        BY PhaseNames
      <3>2. /\ Collides(p, at) <=> StatesAt(p)[at] \in Met(StatesAt(p), at)
            /\ BucketsHold(seen'[p], p, at + 1)
        <4> DEFINE new == [fp \in DOMAIN seen[p] \cup {Fingerprint(p, at)} |->
                             IF fp = Fingerprint(p, at) THEN Append(Bucket(p, at), at)
                                                        ELSE seen[p][fp]]
        <4>1. seen'[p] = new
          BY <1>2, <2>1, <3>1
        <4>2. BucketsHold(seen[p], p, at)
          BY <1>2
        <4>. HIDE DEF new
        <4>3. /\ Collides(p, at) <=> StatesAt(p)[at] \in Met(StatesAt(p), at)
              /\ BucketsHold(new, p, at + 1)
          BY <1>2, <4>2, OneMoreInBucket DEF new
        <4>. QED
          BY <4>1, <4>3
      <3>3. counters'[p] = counters[p] + Count(Collides(p, at))
        BY <1>2, <2>1, <3>1
      <3>. QED
        BY <1>2, <3>2, <3>3, OneMoreCollision DEF Count
    <2>3. seen'["digest"] = Met(Digests, at + 1)
      <3>1. Digest(at) = Digests[at]
        BY <1>2 DEF Digests
      <3>. QED
        BY <1>2, <2>1, <3>1, OneMoreMet
    <2>4. counters'["digest"] = Collisions(Digests, at + 1)
      <3>1. Digest(at) = Digests[at]
        BY <1>2 DEF Digests
      <3>2. counters'["digest"] = counters["digest"] + Count(Digests[at] \in Met(Digests, at))
        BY <1>2, <2>1, <3>1
      <3>. QED
        BY <1>2, <3>2, OneMoreCollision
    <2>5. ASSUME NEW p \in PhaseTables PROVE BucketsHold(seen[p], p, at)'
      BY <1>3, <2>1, <2>2 DEF BucketsHold
    <2>6. /\ at' \in Nat /\ DOMAIN seen' = PhaseTables \cup {"digest"}
          /\ DOMAIN counters' = PhaseTables \cup {"digest"}
      BY <1>2, <2>1
    <2>7. ASSUME NEW p \in PhaseTables PROVE (counters[p])' = Collisions(StatesAt(p), at)'
      <3>1. Collisions(StatesAt(p), at)' = Collisions(StatesAt(p), at + 1)
        BY <1>1, <2>1 DEF Collisions, Met
      <3>. QED
        BY <2>2, <3>1
    <2>8. /\ Met(Digests, at)' = Met(Digests, at + 1)
          /\ Collisions(Digests, at)' = Collisions(Digests, at + 1)
      BY <1>1, <2>1 DEF Collisions, Met
    <2>. QED
      BY <2>3, <2>4, <2>5, <2>6, <2>7, <2>8 DEF PhaseInv
  <1>5. CASE EndPhase \/ UNCHANGED vars
    <2>1. UNCHANGED <<at, seen, counters>>
      BY <1>5 DEF EndPhase, Leave, vars
    <2>2. ASSUME NEW p \in PhaseTables PROVE BucketsHold(seen[p], p, at)'
      BY <1>2, <1>3, <2>1 DEF BucketsHold
    <2>. QED
      BY <1>1, <1>2, <2>1, <2>2 DEF PhaseInv, Collisions, Met
  <1>6. ~(job.tool \in {"predecessor"} \cup Trials)
    BY <1>2 DEF Trials
  <1>. QED
    BY <1>4, <1>5, <1>6 DEF TableNext, Predecessor, EndPredecessor, Miss, Hit, Censored, Tool

LEMMA PhasesExact ==
  ASSUME PhaseInv
  PROVE  PhasesCounted
  <1>. SUFFICES ASSUME job.tool = "phase"
       PROVE  /\ \A p \in ToSet(Phases) :
                   counters[p] = at - Cardinality({CheckpointState(p, n) : n \in Scanned})
              /\ counters["digest"] = at - Cardinality({Digest(n) : n \in Scanned})
              /\ \A m, n \in 2..5 : m < n => counters[Phases[m]] <= counters[Phases[n]]
              /\ counters["AfterOrbitClosure"] <= counters["digest"]
    BY DEF PhasesCounted
  <1>1. /\ at \in Nat
        /\ \A p \in PhaseTables : counters[p] = Collisions(StatesAt(p), at)
        /\ counters["digest"] = Collisions(Digests, at)
    BY DEF PhaseInv
  <1>2. /\ \A p : Met(StatesAt(p), at) = {CheckpointState(p, n) : n \in Scanned}
        /\ Met(Digests, at) = {Digest(n) : n \in Scanned}
    BY <1>1 DEF Met, StatesAt, Digests, Scanned
  <1>3. ASSUME NEW f, NEW g, Decides(f, g, at)
        PROVE  Collisions(f, at) <= Collisions(g, at)
    <2>1. Cardinality(Met(g, at)) <= Cardinality(Met(f, at))
      BY <1>1, <1>3, FewerBehind
    <2>2. Cardinality(Met(g, at)) \in Nat /\ Cardinality(Met(f, at)) \in Nat
      BY <1>1, OneMoreMet
    <2>. QED
      BY <1>1, <2>1, <2>2 DEF Collisions
  <1>4. /\ StatesAt("AfterFoldback") = [n \in Nat |-> Folded(n)]
        /\ StatesAt("AfterDiagonalClosure") = [n \in Nat |-> Diagonal(n)]
        /\ StatesAt("AfterOrbitClosure") = [n \in Nat |-> Orbit(n)]
        /\ StatesAt("Final") = [n \in Nat |-> Final(n)]
    BY DEF StatesAt, CheckpointState
  <1>5. Collisions(StatesAt("AfterFoldback"), at) <= Collisions(StatesAt("AfterDiagonalClosure"), at)
    <2>1. Decides(StatesAt("AfterFoldback"), StatesAt("AfterDiagonalClosure"), at)
      BY <1>1, <1>4 DEF Diagonal, Decides
    <2>. QED
      BY <1>3, <2>1
  <1>6. Collisions(StatesAt("AfterDiagonalClosure"), at) <= Collisions(StatesAt("AfterOrbitClosure"), at)
    <2>1. Decides(StatesAt("AfterDiagonalClosure"), StatesAt("AfterOrbitClosure"), at)
      BY <1>1, <1>4 DEF Orbit, Decides
    <2>. QED
      BY <1>3, <2>1
  <1>7. Collisions(StatesAt("AfterOrbitClosure"), at) <= Collisions(StatesAt("Final"), at)
    <2>1. Decides(StatesAt("AfterOrbitClosure"), StatesAt("Final"), at)
      BY <1>1, <1>4 DEF Final, Decides
    <2>. QED
      BY <1>3, <2>1
  <1>8. Collisions(StatesAt("AfterOrbitClosure"), at) <= Collisions(Digests, at)
    <2>1. Decides(StatesAt("AfterOrbitClosure"), Digests, at)
      BY <1>1, <1>4 DEF Digest, Digests, Decides
    <2>. QED
      BY <1>3, <2>1
  <1>9. \A f : Collisions(f, at) \in Int
    BY <1>1, OneMoreMet DEF Collisions
  <1>10. /\ Phases[2] = "AfterFoldback" /\ Phases[3] = "AfterDiagonalClosure"
         /\ Phases[4] = "AfterOrbitClosure" /\ Phases[5] = "Final"
    BY DEF Phases
  <1>11. ASSUME NEW m \in 2..5, NEW n \in 2..5, m < n
         PROVE  counters[Phases[m]] <= counters[Phases[n]]
    <2>1. /\ counters[Phases[2]] \in Int /\ counters[Phases[3]] \in Int
          /\ counters[Phases[4]] \in Int /\ counters[Phases[5]] \in Int
          /\ counters[Phases[2]] <= counters[Phases[3]] /\ counters[Phases[3]] <= counters[Phases[4]]
          /\ counters[Phases[4]] <= counters[Phases[5]]
      BY <1>1, <1>5, <1>6, <1>7, <1>9, <1>10 DEF PhaseTables
    <2>2. /\ m = 2 \/ m = 3 \/ m = 4
          /\ n = 3 \/ n = 4 \/ n = 5
      BY <1>11
    <2>. HIDE DEF Phases
    <2>. QED
      BY <1>11, <2>1, <2>2
  <1>12. \A p \in ToSet(Phases) :
           counters[p] = at - Cardinality({CheckpointState(p, n) : n \in Scanned})
    BY <1>1, <1>2, PhaseNames DEF Collisions
  <1>13. /\ counters["digest"] = at - Cardinality({Digest(n) : n \in Scanned})
         /\ counters["AfterOrbitClosure"] <= counters["digest"]
    BY <1>1, <1>2, <1>8 DEF Collisions, PhaseTables
  <1>. QED
    BY <1>11, <1>12, <1>13

-----------------------------------------------------------------------------
(* transition_collision, truncated_collision, truncated_campaign.          *)

(* The table holds the values of the items so far, all different.          *)
TableHolds(table, value, k) ==
  /\ \A n \in 0..(k - 1) : value[n] \in DOMAIN table /\ table[value[n]] = n
  /\ \A v \in DOMAIN table : table[v] \in 0..(k - 1) /\ value[table[v]] = v

AgreeingPairs(value, limit) ==
  {p \in (0..(limit - 1)) \X (0..(limit - 1)) : p[1] < p[2] /\ value[p[1]] = value[p[2]]}

(* What a trial that ended so says of its items.                           *)
ExactFor(outcome, value, limit) ==
  IF outcome = <<>> THEN AgreeingPairs(value, limit) = {}
  ELSE /\ outcome \in AgreeingPairs(value, limit)
       /\ \A pair \in AgreeingPairs(value, limit) : outcome[2] <= pair[2]

Found(outs) == {t \in DOMAIN outs : outs[t] # <<>>}
LengthsOf(outs) == [t \in DOMAIN outs |-> outs[t][2] + 1]
FoundLengths(outs) == {LengthsOf(outs)[t] : t \in Found(outs)}

Outcomes == {<<>>} \cup (Nat \X Nat)

TrialCounters(numbers, outs, limit) ==
  /\ numbers.found = Cardinality(Found(outs))
  /\ numbers.total = SumOver(LengthsOf(outs), Found(outs))
  /\ IsLeast(numbers.minimum, {limit + 1} \cup FoundLengths(outs))
  /\ IsMost(numbers.maximum, {0} \cup FoundLengths(outs))

TrialInv ==
  job.tool \in Trials =>
    /\ job.limit \in Nat /\ at \in 0..job.limit
    /\ outcomes \in Seq(Outcomes)
    /\ DOMAIN seen = {"first"}
    /\ pc = "scan" => TableHolds(seen["first"], job.value[Len(outcomes) + 1], at)
    /\ \A t \in DOMAIN outcomes : ExactFor(outcomes[t], job.value[t], job.limit)
    /\ TrialCounters(counters, outcomes, job.limit)

LEMMA TrialInitially == TableInit => TrialInv
  <1>. SUFFICES ASSUME TableInit, job.tool \in Trials PROVE TrialInv
    BY DEF TrialInv
  <1>1. /\ at = 0 /\ outcomes = <<>> /\ seen = [table \in {"first"} |-> Empty]
        /\ counters = [found |-> 0, total |-> 0, minimum |-> job.limit + 1, maximum |-> 0]
    BY DEF TableInit, Start, EmptyTables, ZeroCounters, Trials
  <1>2. job.limit \in Nat
    <2>1. JobsOf({job.tool}) \subseteq JobsOf({"transition", "truncated", "campaign"})
      BY DEF JobsOf, Trials
    <2>2. job \in JobsOf({job.tool})
      BY JobOfItsTool DEF TableInit
    <2>. QED
      BY <2>1, <2>2, FirstHitJobsAssumption
  <1>3. \A value : TableHolds(Empty, value, 0)
    BY DEF TableHolds, Empty
  <1>4. /\ outcomes \in Seq(Outcomes) /\ DOMAIN outcomes = {}
        /\ Found(outcomes) = {} /\ FoundLengths(outcomes) = {}
    BY <1>1 DEF Found, FoundLengths
  <1>5. TrialCounters(counters, outcomes, job.limit)
    <2>1. /\ counters.found = Cardinality(Found(outcomes))
          /\ counters.total = SumOver(LengthsOf(outcomes), Found(outcomes))
      BY <1>1, <1>4, FS_EmptySet, SumOverNone
    <2>2. {job.limit + 1} \cup FoundLengths(outcomes) = {job.limit + 1}
      BY <1>4
    <2>3. IsLeast(counters.minimum, {job.limit + 1})
      BY <1>1, <1>2 DEF IsLeast
    <2>4. {0} \cup FoundLengths(outcomes) = {0}
      BY <1>4
    <2>5. IsMost(counters.maximum, {0})
      BY <1>1 DEF IsMost
    <2>. QED
      BY <2>1, <2>2, <2>3, <2>4, <2>5 DEF TrialCounters
  <1>. QED
    BY <1>1, <1>2, <1>3, <1>4, <1>5 DEF TrialInv

(* Before the table has the value of an item, no earlier two items agree.  *)
LEMMA NoneAgreeBefore ==
  ASSUME NEW limit \in Nat, NEW k \in 0..limit, NEW table, NEW value, TableHolds(table, value, k)
  PROVE  \A pair \in AgreeingPairs(value, limit) : k <= pair[2]
  <1>. SUFFICES ASSUME NEW pair \in AgreeingPairs(value, limit), ~(k <= pair[2])
                PROVE  FALSE
    OBVIOUS
  <1>1. /\ pair[1] \in 0..(limit - 1) /\ pair[2] \in 0..(limit - 1)
        /\ pair[1] < pair[2] /\ value[pair[1]] = value[pair[2]]
    BY DEF AgreeingPairs
  <1>2. pair[1] \in 0..(k - 1) /\ pair[2] \in 0..(k - 1)
    BY <1>1
  <1>3. table[value[pair[1]]] = pair[1] /\ table[value[pair[2]]] = pair[2]
    BY <1>2 DEF TableHolds
  <1>. QED
    BY <1>1, <1>3

LEMMA HitIsExact ==
  ASSUME NEW limit \in Nat, NEW k \in 0..(limit - 1), NEW table, NEW value,
         TableHolds(table, value, k), value[k] \in DOMAIN table
  PROVE  /\ ExactFor(<<table[value[k]], k>>, value, limit)
         /\ <<table[value[k]], k>> \in Outcomes
  <1> DEFINE m == table[value[k]]
  <1>1. m \in 0..(k - 1) /\ value[m] = value[k]
    BY DEF TableHolds
  <1>. HIDE DEF m
  <1>2. <<m, k>> \in AgreeingPairs(value, limit)
    BY <1>1 DEF AgreeingPairs
  <1>3. \A pair \in AgreeingPairs(value, limit) : k <= pair[2]
    BY NoneAgreeBefore
  <1>4. <<m, k>> \in Outcomes
    BY <1>1 DEF Outcomes
  <1>. QED
    BY <1>2, <1>3, <1>4 DEF ExactFor, m

LEMMA MissIsHeld ==
  ASSUME NEW k \in Nat, NEW table, NEW value, TableHolds(table, value, k),
         value[k] \notin DOMAIN table
  PROVE  TableHolds([v \in DOMAIN table \cup {value[k]} |-> IF v = value[k] THEN k ELSE table[v]],
                    value, k + 1)
  <1> DEFINE new == [v \in DOMAIN table \cup {value[k]} |-> IF v = value[k] THEN k ELSE table[v]]
  <1>1. (k + 1) - 1 = k
    OBVIOUS
  <1>2. ASSUME NEW n \in 0..k PROVE value[n] \in DOMAIN new /\ new[value[n]] = n
    <2>1. CASE n = k
      BY <2>1
    <2>2. CASE n # k
      <3>1. value[n] \in DOMAIN table /\ table[value[n]] = n
        BY <2>2 DEF TableHolds
      <3>. QED
        BY <3>1
    <2>. QED
      BY <2>1, <2>2
  <1>3. ASSUME NEW v \in DOMAIN new PROVE new[v] \in 0..k /\ value[new[v]] = v
    <2>1. CASE v = value[k]
      BY <2>1
    <2>2. CASE v # value[k]
      <3>1. table[v] \in 0..(k - 1) /\ value[table[v]] = v
        BY <2>2 DEF TableHolds
      <3>. QED
        BY <2>2, <3>1
    <2>. QED
      BY <2>1, <2>2
  <1>. HIDE DEF new
  <1>4. TableHolds(new, value, k + 1)
    BY <1>1, <1>2, <1>3, Zenon DEF TableHolds
  <1>. QED
    BY <1>4 DEF new

LEMMA FoundAreLengths ==
  ASSUME NEW outs \in Seq(Outcomes)
  PROVE  /\ IsFiniteSet(Found(outs)) /\ Cardinality(Found(outs)) \in Nat
         /\ \A t \in Found(outs) : LengthsOf(outs)[t] \in Nat
         /\ FoundLengths(outs) \subseteq Nat
  <1>1. IsFiniteSet(DOMAIN outs)
    BY FS_Interval
  <1>2. IsFiniteSet(Found(outs)) /\ Cardinality(Found(outs)) \in Nat
    BY <1>1, FS_Subset, FS_CardinalityType DEF Found
  <1>3. ASSUME NEW t \in Found(outs) PROVE LengthsOf(outs)[t] \in Nat
    <2>1. t \in DOMAIN outs /\ outs[t] \in Outcomes /\ outs[t] # <<>>
      BY DEF Found
    <2>. QED
      BY <2>1 DEF LengthsOf, Outcomes
  <1>. QED
    BY <1>2, <1>3 DEF FoundLengths

LEMMA OneMoreOutcome ==
  ASSUME NEW outs \in Seq(Outcomes), NEW outcome \in Outcomes
  PROVE  LET more == Append(outs, outcome)
         IN  /\ more \in Seq(Outcomes) /\ DOMAIN more = DOMAIN outs \cup {Len(outs) + 1}
             /\ more[Len(outs) + 1] = outcome /\ \A t \in DOMAIN outs : more[t] = outs[t]
             /\ outcome = <<>> =>
                  /\ Found(more) = Found(outs) /\ FoundLengths(more) = FoundLengths(outs)
                  /\ SumOver(LengthsOf(more), Found(more)) = SumOver(LengthsOf(outs), Found(outs))
             /\ outcome # <<>> =>
                  /\ Cardinality(Found(more)) = Cardinality(Found(outs)) + 1
                  /\ FoundLengths(more) = FoundLengths(outs) \cup {outcome[2] + 1}
                  /\ SumOver(LengthsOf(more), Found(more))
                       = outcome[2] + 1 + SumOver(LengthsOf(outs), Found(outs))
  <1> DEFINE more == Append(outs, outcome)
             last == Len(outs) + 1
  <1>1. /\ more \in Seq(Outcomes) /\ DOMAIN more = DOMAIN outs \cup {last}
        /\ more[last] = outcome /\ \A t \in DOMAIN outs : more[t] = outs[t]
        /\ last \notin DOMAIN outs
    OBVIOUS
  <1>. HIDE DEF more, last
  <1>2. /\ LengthsOf(more)[last] = outcome[2] + 1
        /\ \A t \in DOMAIN outs : LengthsOf(more)[t] = LengthsOf(outs)[t]
        /\ Found(outs) \subseteq DOMAIN outs
    BY <1>1 DEF LengthsOf, Found
  <1>3. /\ outcome = <<>> => Found(more) = Found(outs)
        /\ outcome # <<>> => Found(more) = Found(outs) \cup {last}
    BY <1>1 DEF Found
  <1>4. /\ IsFiniteSet(Found(outs)) /\ \A t \in Found(outs) : LengthsOf(outs)[t] \in Nat
    BY FoundAreLengths
  <1>5. SumOver(LengthsOf(more), Found(outs)) = SumOver(LengthsOf(outs), Found(outs))
    BY <1>2, <1>4, SameSum
  <1>6. CASE outcome = <<>>
    <2>1. FoundLengths(more) = FoundLengths(outs)
      BY <1>2, <1>3, <1>6 DEF FoundLengths
    <2>. QED
      BY <1>1, <1>3, <1>5, <1>6, <2>1 DEF more, last
  <1>7. CASE outcome # <<>>
    <2>1. FoundLengths(more) = FoundLengths(outs) \cup {outcome[2] + 1}
      BY <1>2, <1>3, <1>7 DEF FoundLengths
    <2>2. last \notin Found(outs) /\ outcome[2] + 1 \in Int
      BY <1>1, <1>7 DEF Found, Outcomes
    <2>3. Cardinality(Found(outs) \cup {last}) = Cardinality(Found(outs)) + 1
      BY <1>4, <2>2, FS_AddElement
    <2>4. \A t \in Found(outs) \cup {last} : LengthsOf(more)[t] \in Int
      BY <1>2, <1>4, <2>2
    <2>5. SumOver(LengthsOf(more), Found(outs) \cup {last})
            = LengthsOf(more)[last] + SumOver(LengthsOf(more), Found(outs))
      BY <1>4, <2>2, <2>4, SumTakesIn
    <2>. QED
      BY <1>1, <1>2, <1>3, <1>5, <1>7, <2>1, <2>3, <2>5 DEF more, last
  <1>. QED
    BY <1>6, <1>7

(* The trial is over with an exact outcome, the counters with it.          *)
LEMMA TrialEnds ==
  ASSUME TrialInv, job.tool \in Trials, NEW outcome \in Outcomes, EndTrial(outcome),
         ExactFor(outcome, job.value[Len(outcomes) + 1], job.limit),
         TrialCounters(counters', Append(outcomes, outcome), job.limit)
  PROVE  TrialInv'
  <1>1. /\ job.limit \in Nat /\ at \in 0..job.limit /\ outcomes \in Seq(Outcomes)
        /\ DOMAIN seen = {"first"}
        /\ \A t \in DOMAIN outcomes : ExactFor(outcomes[t], job.value[t], job.limit)
    BY DEF TrialInv
  <1>2. job' = job /\ outcomes' = Append(outcomes, outcome)
    BY DEF EndTrial
  <1>3. /\ outcomes' \in Seq(Outcomes) /\ DOMAIN outcomes' = DOMAIN outcomes \cup {Len(outcomes) + 1}
        /\ outcomes'[Len(outcomes) + 1] = outcome /\ \A t \in DOMAIN outcomes : outcomes'[t] = outcomes[t]
    BY <1>1, <1>2, OneMoreOutcome
  <1>4. \A t \in DOMAIN outcomes' : ExactFor(outcomes'[t], job.value[t], job.limit)
    BY <1>1, <1>3
  <1>5. /\ at' \in 0..job.limit /\ DOMAIN seen' = {"first"}
        /\ pc' = "scan" => TableHolds(seen'["first"], job.value[Len(outcomes') + 1], at')
    <2>1. CASE at' = 0 /\ seen' = [table \in {"first"} |-> Empty]
      <3>1. \A value : TableHolds(Empty, value, 0)
        BY DEF TableHolds, Empty
      <3>. QED
        BY <1>1, <2>1, <3>1
    <2>2. CASE pc' = "done" /\ UNCHANGED <<at, seen>>
      BY <1>1, <2>2
    <2>. QED
      BY <2>1, <2>2 DEF EndTrial
  <1>6. TrialCounters(counters', outcomes', job.limit)
    BY <1>2
  <1>7. TrialCounters(counters, outcomes, job.limit)'
    BY <1>2, <1>6
       DEF TrialCounters, LengthsOf, Found, FoundLengths
  <1>8. /\ (job.limit \in Nat /\ at \in 0..job.limit)'
        /\ (\A t \in DOMAIN outcomes : ExactFor(outcomes[t], job.value[t], job.limit))'
        /\ (pc = "scan" => TableHolds(seen["first"], job.value[Len(outcomes) + 1], at))'
    <2>1. (job.limit \in Nat /\ at \in 0..job.limit)'
      BY <1>1, <1>2, <1>5
    <2>2. (\A t \in DOMAIN outcomes : ExactFor(outcomes[t], job.value[t], job.limit))'
      BY <1>2, <1>4 DEF ExactFor, AgreeingPairs
    <2>3. (pc = "scan" => TableHolds(seen["first"], job.value[Len(outcomes) + 1], at))'
      BY <1>2, <1>5 DEF TableHolds
    <2>. QED
      BY <2>1, <2>2, <2>3
  <1>. QED
    BY <1>3, <1>5, <1>7, <1>8 DEF TrialInv

LEMMA TrialStep ==
  ASSUME TrialInv, [TableNext]_vars
  PROVE  TrialInv'
  <1>. SUFFICES ASSUME (job.tool)' \in Trials PROVE TrialInv'
    BY DEF TrialInv, Trials
  <1>1. job' = job
    BY DEF TableNext, vars, Predecessor, EndPredecessor, PhaseMessage, EndPhase, Miss, Hit,
           Censored, EndTrial, Leave
  <1>2. /\ job.tool \in Trials /\ job.limit \in Nat /\ at \in 0..job.limit
        /\ outcomes \in Seq(Outcomes) /\ DOMAIN seen = {"first"}
        /\ pc = "scan" => TableHolds(seen["first"], job.value[Len(outcomes) + 1], at)
        /\ \A t \in DOMAIN outcomes : ExactFor(outcomes[t], job.value[t], job.limit)
        /\ TrialCounters(counters, outcomes, job.limit)
    BY <1>1 DEF TrialInv, Trials
  <1> DEFINE value == job.value[Len(outcomes) + 1]
  <1>3. CASE Miss
    <2>1. /\ pc = "scan" /\ at \in 0..(job.limit - 1) /\ value[at] \notin DOMAIN seen["first"]
          /\ at' = at + 1 /\ UNCHANGED <<job, pc, counters, outcomes>>
          /\ seen'["first"] = [v \in DOMAIN seen["first"] \cup {value[at]} |->
                                 IF v = value[at] THEN at ELSE seen["first"][v]]
          /\ DOMAIN seen' = {"first"}
      BY <1>2, <1>3 DEF Miss, Value
    <2>2. TableHolds(seen["first"], value, at)
      BY <1>2, <2>1
    <2>. HIDE DEF value
    <2>3. TableHolds(seen'["first"], value, at + 1)
      BY <1>2, <2>1, <2>2, MissIsHeld
    <2>4. TableHolds(seen["first"], job.value[Len(outcomes) + 1], at)'
      BY <2>1, <2>3 DEF TableHolds, value
    <2>5. /\ (job.limit \in Nat /\ at \in 0..job.limit)' /\ (outcomes \in Seq(Outcomes))'
          /\ (\A t \in DOMAIN outcomes : ExactFor(outcomes[t], job.value[t], job.limit))'
      BY <1>2, <2>1 DEF ExactFor, AgreeingPairs
    <2>6. TrialCounters(counters, outcomes, job.limit)'
      BY <1>2, <2>1 DEF TrialCounters, LengthsOf, Found, FoundLengths
    <2>. QED
      BY <2>1, <2>4, <2>5, <2>6 DEF TrialInv
  <1>4. CASE Hit
    <2> DEFINE outcome == <<seen["first"][value[at]], at>>
    <2>1. /\ pc = "scan" /\ at \in 0..(job.limit - 1) /\ value[at] \in DOMAIN seen["first"]
          /\ EndTrial(outcome)
          /\ counters' = [found   |-> counters.found + 1,
                          total   |-> counters.total + at + 1,
                          minimum |-> Min({counters.minimum, at + 1}),
                          maximum |-> Max({counters.maximum, at + 1})]
      BY <1>2, <1>4 DEF Hit, Value
    <2>2. /\ ExactFor(outcome, value, job.limit) /\ outcome \in Outcomes
          /\ outcome # <<>> /\ outcome[2] = at
      BY <1>2, <2>1, HitIsExact
    <2>. HIDE DEF outcome
    <2> DEFINE more == Append(outcomes, outcome)
    <2>3. /\ Cardinality(Found(more)) = Cardinality(Found(outcomes)) + 1
          /\ FoundLengths(more) = FoundLengths(outcomes) \cup {at + 1}
          /\ SumOver(LengthsOf(more), Found(more)) = at + 1 + SumOver(LengthsOf(outcomes), Found(outcomes))
      BY <1>2, <2>2, OneMoreOutcome
    <2>4. FoundLengths(outcomes) \subseteq Nat /\ Cardinality(Found(outcomes)) \in Nat
      BY <1>2, FoundAreLengths
    <2>5. SumOver(LengthsOf(outcomes), Found(outcomes)) \in Int
      BY <1>2, FoundAreLengths, SameSum
    <2>. HIDE DEF more
    <2>6. IsLeast(counters'.minimum, {job.limit + 1} \cup FoundLengths(more))
      <3>1. /\ IsLeast(counters.minimum, {job.limit + 1} \cup FoundLengths(outcomes))
            /\ Integral({job.limit + 1} \cup FoundLengths(outcomes))
        BY <1>2, <2>4 DEF TrialCounters, Integral
      <3>2. /\ at + 1 \in Int
            /\ {job.limit + 1} \cup FoundLengths(more)
                 = ({job.limit + 1} \cup FoundLengths(outcomes)) \cup {at + 1}
            /\ counters'.minimum = Min({counters.minimum, at + 1})
        BY <1>2, <2>1, <2>3
      <3>. QED
        BY <3>1, <3>2, LeastTakesIn
    <2>7. IsMost(counters'.maximum, {0} \cup FoundLengths(more))
      <3>1. /\ IsMost(counters.maximum, {0} \cup FoundLengths(outcomes))
            /\ Integral({0} \cup FoundLengths(outcomes))
        BY <1>2, <2>4 DEF TrialCounters, Integral
      <3>2. /\ at + 1 \in Int
            /\ {0} \cup FoundLengths(more) = ({0} \cup FoundLengths(outcomes)) \cup {at + 1}
            /\ counters'.maximum = Max({counters.maximum, at + 1})
        BY <1>2, <2>1, <2>3
      <3>. QED
        BY <3>1, <3>2, MostTakesIn
    <2>8. TrialCounters(counters', more, job.limit)
      BY <1>2, <2>1, <2>3, <2>4, <2>5, <2>6, <2>7 DEF TrialCounters
    <2>. QED
      BY <1>2, <2>1, <2>2, <2>8, TrialEnds DEF more
  <1>5. CASE Censored
    <2>1. pc = "scan" /\ at = job.limit /\ EndTrial(<<>>) /\ counters' = counters
      BY <1>5 DEF Censored
    <2>2. ExactFor(<<>>, value, job.limit)
      <3>1. \A pair \in AgreeingPairs(value, job.limit) : job.limit <= pair[2]
        BY <1>2, <2>1, NoneAgreeBefore
      <3>2. \A pair \in AgreeingPairs(value, job.limit) : pair[2] \in 0..(job.limit - 1)
        BY DEF AgreeingPairs
      <3>3. AgreeingPairs(value, job.limit) = {}
        BY <1>2, <3>1, <3>2
      <3>. QED
        BY <3>3 DEF ExactFor
    <2>3. <<>> \in Outcomes
      BY DEF Outcomes
    <2>4. TrialCounters(counters, Append(outcomes, <<>>), job.limit)
      BY <1>2, <2>3, OneMoreOutcome DEF TrialCounters
    <2>. QED
      BY <1>2, <2>1, <2>2, <2>3, <2>4, TrialEnds
  <1>6. CASE UNCHANGED vars
    <2>1. TrialCounters(counters, outcomes, job.limit)'
      BY <1>2, <1>6 DEF TrialCounters, LengthsOf, Found, FoundLengths, vars
    <2>. QED
      BY <1>2, <1>6, <2>1 DEF TrialInv, vars, ExactFor, AgreeingPairs, TableHolds
  <1>7. ~(job.tool \in {"predecessor", "phase"})
    BY <1>2 DEF Trials
  <1>. QED
    BY <1>3, <1>4, <1>5, <1>6, <1>7
       DEF TableNext, Predecessor, EndPredecessor, PhaseMessage, EndPhase, Tool

LEMMA SumsOverTrials ==
  ASSUME NEW outs \in Seq(Outcomes)
  PROVE  MapThenSumSet(LAMBDA t : outs[t][2] + 1, Found(outs)) = SumOver(LengthsOf(outs), Found(outs))
  <1> DEFINE S == Found(outs)
             Adds(h) == h = [s \in SUBSET S |->
                               IF s = {} THEN 0 ELSE (outs[Some(s)][2] + 1) + h[s \ {Some(s)}]]
             iter == CHOOSE h : Adds(h)
  <1>1. IsFiniteSet(S) /\ \A t \in S : LengthsOf(outs)[t] \in Int /\ LengthsOf(outs)[t] = outs[t][2] + 1
    BY FoundAreLengths DEF LengthsOf, Found
  <1>2. \A s \in (SUBSET S) \ {{}} : Some(s) \in S
    BY SomeIsMember
  <1>3. PICK g \in [SUBSET S -> Int] : Sums(g, LengthsOf(outs), S)
    BY <1>1, SumsExist
  <1>4. MapThenSumSet(LAMBDA t : outs[t][2] + 1, S) = iter[S]
    BY Zenon DEF MapThenSumSet, MapThenFoldSet, Some
  <1>5. Adds(g)
    <2>1. \A s \in SUBSET S :
            g[s] = IF s = {} THEN 0 ELSE (outs[Some(s)][2] + 1) + g[s \ {Some(s)}]
      <3>. HIDE DEF S
      <3>. QED
        BY <1>1, <1>2, <1>3 DEF Sums
    <2>. QED
      BY <1>3, <2>1
  <1>6. Adds(iter)
    BY <1>5, Zenon
  <1>. HIDE DEF iter
  <1>7. Sums(iter, LengthsOf(outs), S)
    <2>1. \A s \in SUBSET S :
            iter[s] = IF s = {} THEN 0 ELSE (outs[Some(s)][2] + 1) + iter[s \ {Some(s)}]
      BY <1>6
    <2>. HIDE DEF S
    <2>. QED
      BY <1>1, <1>2, <2>1 DEF Sums
  <1>. QED
    BY <1>1, <1>4, <1>7, SumIs

LEMMA TrialsExact ==
  ASSUME TrialInv
  PROVE  FirstHits
  <1>. SUFFICES ASSUME job.tool \in Trials PROVE FirstHits
    BY DEF FirstHits
  <1>1. /\ job.limit \in Nat /\ outcomes \in Seq(Outcomes)
        /\ \A t \in DOMAIN outcomes : ExactFor(outcomes[t], job.value[t], job.limit)
        /\ TrialCounters(counters, outcomes, job.limit)
    BY DEF TrialInv
  <1>2. MapThenSumSet(LAMBDA t : outcomes[t][2] + 1, Found(outcomes))
          = SumOver(LengthsOf(outcomes), Found(outcomes))
    BY <1>1, SumsOverTrials
  <1>3. FoundLengths(outcomes) \subseteq Nat
    BY <1>1, FoundAreLengths
  <1>4. FoundLengths(outcomes) = {outcomes[t][2] + 1 : t \in Found(outcomes)}
    BY DEF FoundLengths, LengthsOf, Found
  <1>5. \A x \in FoundLengths(outcomes) : x \in 1..job.limit
    <2>1. ASSUME NEW t \in Found(outcomes) PROVE outcomes[t][2] + 1 \in 1..job.limit
      <3>1. t \in DOMAIN outcomes /\ outcomes[t] \in AgreeingPairs(job.value[t], job.limit)
        BY <1>1 DEF Found, ExactFor
      <3>2. outcomes[t][2] \in 0..(job.limit - 1)
        BY <3>1 DEF AgreeingPairs
      <3>. QED
        BY <1>1, <3>2
    <2>. QED
      BY <1>4, <2>1
  <1>6. ASSUME Found(outcomes) # {}
        PROVE  /\ counters.minimum = Min(FoundLengths(outcomes))
               /\ counters.maximum = Max(FoundLengths(outcomes))
    <2>1. PICK x \in FoundLengths(outcomes) : TRUE
      BY <1>6 DEF FoundLengths
    <2>2. IsLeast(counters.minimum, FoundLengths(outcomes))
      BY <1>1, <1>5, <2>1 DEF TrialCounters, IsLeast
    <2>3. IsMost(counters.maximum, FoundLengths(outcomes))
      BY <1>1, <1>5, <2>1 DEF TrialCounters, IsMost
    <2>. QED
      BY <1>5, <2>2, <2>3, LeastIsMin, MostIsMax
  <1>7. ASSUME NEW t \in DOMAIN outcomes
        PROVE  LET Agree(m, n) == job.value[t][m] = job.value[t][n]
                   pairs == {p \in (0..(job.limit - 1)) \X (0..(job.limit - 1)) :
                               p[1] < p[2] /\ Agree(p[1], p[2])}
               IN  IF outcomes[t] = <<>> THEN pairs = {}
                   ELSE outcomes[t] \in pairs /\ \A pair \in pairs : outcomes[t][2] <= pair[2]
    BY <1>1 DEF ExactFor, AgreeingPairs
  <1>8. counters.found = Cardinality(Found(outcomes))
    BY <1>1 DEF TrialCounters
  <1>9. counters.total = MapThenSumSet(LAMBDA t : outcomes[t][2] + 1, Found(outcomes))
    BY <1>1, <1>2 DEF TrialCounters
  <1>10. Found(outcomes) # {} =>
           /\ counters.minimum = Min({outcomes[t][2] + 1 : t \in Found(outcomes)})
           /\ counters.maximum = Max({outcomes[t][2] + 1 : t \in Found(outcomes)})
    BY <1>4, <1>6
  <1>. QED
    BY <1>7, <1>8, <1>9, <1>10, Zenon DEF FirstHits, Found

-----------------------------------------------------------------------------
(* The counts of the five searches (CountsExact): of the predecessor       *)
(* enumeration, kept by the table from transition to transition, of the    *)
(* phases, kept by buckets, and of the trials, which stop at their first   *)
(* hit, are in every reachable state those of the items there have been,   *)
(* for every hash and any number of items.                                 *)
THEOREM CountsAreExact == TableSpec => []CountsExact
  <1> DEFINE Inv == PredecessorInv /\ PhaseInv /\ TrialInv
  <1>1. TableInit => Inv
    BY PredecessorInit, PhaseInitially, TrialInitially
  <1>2. Inv /\ [TableNext]_vars => Inv'
    BY PredecessorStep, PhaseStep, TrialStep
  <1>3. Inv => CountsExact
    BY PredecessorsExact, PhasesExact, TrialsExact DEF CountsExact
  <1>. QED
    BY <1>1, <1>2, <1>3, PTL DEF TableSpec

-----------------------------------------------------------------------------
(* What is kept is nearest to what has come: none of dist[0], ...,         *)
(* dist[k - 1] is before it.                                               *)
Nearest(best, dist, k) ==
  /\ best = <<>> => k = 0
  /\ best # <<>> => best[1].distance \in Seq(Nat)
  /\ \A n \in 0..(k - 1) : dist[n] \in Seq(Nat) /\ ~Before(dist[n], best[1].distance)

LEMMA NearestToNone == \A dist : Nearest(<<>>, dist, 0)
  BY DEF Nearest

LEMMA KeepsNearest ==
  ASSUME NEW best, NEW dist, NEW k \in Nat, Nearest(best, dist, k),
         dist[k] \in Seq(Nat), NEW left, NEW right
  PROVE  Nearest(Keep(best, dist[k], left, right), dist, k + 1)
  <1>. DEFINE d == dist[k]
              kept == Keep(best, d, left, right)
  <1>1. d \in Seq(Nat)
    OBVIOUS
  <1>2. \A n \in 0..((k + 1) - 1) : n = k \/ n \in 0..(k - 1)
    OBVIOUS
  <1>. HIDE DEF d
  <1>3. CASE best = <<>> \/ Before(d, best[1].distance)
    <2>1. kept # <<>> /\ kept[1].distance = d
      BY <1>3 DEF Keep
    <2>. HIDE DEF kept
    <2>2. \A n \in 0..((k + 1) - 1) : dist[n] \in Seq(Nat) /\ ~Before(dist[n], d)
      <3>1. ~Before(d, d)
        BY <1>1, VectorsAreOrdered
      <3>2. ASSUME NEW n \in 0..(k - 1) PROVE dist[n] \in Seq(Nat) /\ ~Before(dist[n], d)
        <4>1. dist[n] \in Seq(Nat) /\ ~Before(dist[n], best[1].distance)
          BY DEF Nearest
        <4>2. best # <<>> /\ Before(d, best[1].distance) /\ best[1].distance \in Seq(Nat)
          BY <1>3 DEF Nearest
        <4>. QED
          BY <1>1, <4>1, <4>2, VectorsAreOrdered
      <3>3. dist[k] = d
        BY DEF d
      <3>. QED
        BY <1>1, <1>2, <3>1, <3>2, <3>3
    <2>3. Nearest(kept, dist, k + 1)
      BY <1>1, <2>1, <2>2 DEF Nearest
    <2>. QED
      BY <2>3 DEF d, kept
  <1>4. CASE ~(best = <<>> \/ Before(d, best[1].distance))
    <2>1. kept = best /\ best # <<>>
      BY <1>4 DEF Keep
    <2>. HIDE DEF kept
    <2>2. \A n \in 0..((k + 1) - 1) :
            dist[n] \in Seq(Nat) /\ ~Before(dist[n], best[1].distance)
      <3>1. dist[k] = d
        BY DEF d
      <3>. QED
        BY <1>1, <1>2, <1>4, <3>1 DEF Nearest
    <2>3. Nearest(best, dist, k + 1)
      BY <2>1, <2>2 DEF Nearest
    <2>4. Nearest(kept, dist, k + 1)
      BY <2>1, <2>3
    <2>. QED
      BY <2>4 DEF d, kept
  <1>. QED
    BY <1>3, <1>4

-----------------------------------------------------------------------------
(* The hash of a job as functions of the job.                              *)
FoldedBy(jb, message) ==
  LET forward == Runs(jb.absorb, jb.start, message)
  IN  IF jb.enable_foldback THEN Runs(jb.absorb, forward, Returns(message)) ELSE forward

LEMMA FoldbackIs == \A message : FoldbackState(message) = FoldedBy(job, message)
  BY Zenon DEF FoldbackState, FoldbackFrom, Forward, Behind, FoldedBy, Runs, FoldLeft, MapThenFoldSet

LEMMA FoldedInto ==
  ASSUME NEW jb, NEW S, NEW B, IsStep(jb.absorb, S, B), jb.start \in S,
         NEW message \in Seq(B),
         \A b \in B, k \in 0..(Len(message) - 1) : ReturnSymbol(b, k) \in B
  PROVE  FoldedBy(jb, message) \in S
  <1>1. Runs(jb.absorb, jb.start, message) \in S
    BY RunsInto
  <1>2. Returns(message) \in Seq(B)
    <2>1. Len(message) \in Nat /\ DOMAIN message = 1..Len(message)
      OBVIOUS
    <2>2. \A k \in 1..Len(message) :
            /\ message[Len(message) + 1 - k] \in B
            /\ Len(message) - k \in 0..(Len(message) - 1)
      BY <2>1
    <2>3. \A k \in 1..Len(message) : ReturnSymbol(message[Len(message) + 1 - k], Len(message) - k) \in B
      BY <2>2
    <2>. QED
      BY <2>1, <2>3 DEF Returns
  <1>. DEFINE forward == Runs(jb.absorb, jb.start, message)
              returns == Returns(message)
  <1>. HIDE DEF forward, returns
  <1>3. Runs(jb.absorb, forward, returns) \in S
    BY <1>1, <1>2, RunsInto DEF forward, returns
  <1>. QED
    BY <1>1, <1>3 DEF FoldedBy, forward, returns

-----------------------------------------------------------------------------
(* PrefixPair: the suffixes behind the two prefixes.                       *)
LeftOf(jb, n) == FoldedBy(jb, jb.left_prefix \o jb.suffixes[n + 1])
RightOf(jb, n) == FoldedBy(jb, jb.right_prefix \o jb.suffixes[n + 1])
Between(jb) == [n \in Nat |-> CubeDistance(LeftOf(jb, n), RightOf(jb, n))]
SuffixesOf(jb) == 0..(Len(jb.suffixes) - 1)

LEMMA SidesAre ==
  /\ \A n : LeftFoldback(n) = LeftOf(job, n) /\ RightFoldback(n) = RightOf(job, n)
  /\ Domain = SuffixesOf(job)
  BY FoldbackIs, Zenon DEF LeftFoldback, RightFoldback, LeftOf, RightOf, Domain, SuffixesOf

LEMMA PrefixJob ==
  ASSUME NEW jb \in JobsOf(PrefixTools)
  PROVE  /\ Len(jb.suffixes) \in Nat
         /\ \A n \in SuffixesOf(jb) :
              /\ LeftOf(jb, n) \in DOMAIN jb.absorb /\ RightOf(jb, n) \in DOMAIN jb.absorb
              /\ Between(jb)[n] \in Seq(Nat)
         /\ DOMAIN jb.fingerprint = DOMAIN jb.absorb
  <1>. DEFINE S == DOMAIN jb.absorb
              B == DOMAIN jb.absorb[jb.start]
  <1>1. /\ jb.start \in S /\ IsStep(jb.absorb, S, B)
        /\ jb.left_prefix \in Seq(B) /\ jb.right_prefix \in Seq(B)
        /\ jb.suffixes \in Seq(Seq(B))
        /\ \A suffix \in ToSet(jb.suffixes) :
             \A b \in B, k \in 0..(Len(jb.left_prefix) + Len(suffix) - 1) : ReturnSymbol(b, k) \in B
        /\ \A v, w \in S : CubeDistance(v, w) \in Seq(Nat)
    BY PrefixHashesAssumption DEF IsStep
  <1>2. /\ Len(jb.left_prefix) = Len(jb.right_prefix)
        /\ DOMAIN jb.fingerprint = S
    BY PrefixJobsAssumption
  <1>. HIDE DEF S, B
  <1>3. Len(jb.suffixes) \in Nat
    BY <1>1
  <1>4. ASSUME NEW n \in SuffixesOf(jb)
        PROVE  LeftOf(jb, n) \in S /\ RightOf(jb, n) \in S /\ Between(jb)[n] \in Seq(Nat)
    <2>1. n \in Nat /\ n + 1 \in DOMAIN jb.suffixes
      BY <1>1, <1>3 DEF SuffixesOf
    <2>. DEFINE suffix == jb.suffixes[n + 1]
    <2>2. suffix \in ToSet(jb.suffixes)
      BY <2>1 DEF ToSet
    <2>3. suffix \in Seq(B)
      BY <1>1, <2>1
    <2>. HIDE DEF suffix
    <2>4. ASSUME NEW prefix \in {jb.left_prefix, jb.right_prefix}
          PROVE  FoldedBy(jb, prefix \o suffix) \in S
      <3>1. prefix \in Seq(B) /\ Len(prefix) = Len(jb.left_prefix)
        BY <1>1, <1>2
      <3>2. prefix \o suffix \in Seq(B) /\ Len(prefix \o suffix) = Len(prefix) + Len(suffix)
        BY <2>3, <3>1
      <3>. DEFINE message == prefix \o suffix
      <3>. HIDE DEF message
      <3>3. \A b \in B, k \in 0..(Len(message) - 1) : ReturnSymbol(b, k) \in B
        BY <1>1, <2>2, <3>1, <3>2 DEF message
      <3>4. message \in Seq(B)
        BY <3>2 DEF message
      <3>5. FoldedBy(jb, message) \in S
        BY <1>1, <3>3, <3>4, FoldedInto
      <3>. QED
        BY <3>5 DEF message
    <2>5. LeftOf(jb, n) \in S /\ RightOf(jb, n) \in S
      BY <2>4 DEF LeftOf, RightOf, suffix
    <2>. QED
      BY <1>1, <2>1, <2>5 DEF Between
  <1>. QED
    BY <1>2, <1>3, <1>4 DEF S

Merges(jb, k) == {p \in SuffixesOf(jb) \X (0..(k - 1)) : LeftOf(jb, p[1]) = RightOf(jb, p[2])}
MergedWith(jb, k) == {l \in SuffixesOf(jb) : LeftOf(jb, l) = RightOf(jb, k)}
EqualSuffixes(jb, k) == {n \in 0..(k - 1) : LeftOf(jb, n) = RightOf(jb, n)}

(* One right suffix more merges with so many left ones more.               *)
LEMMA OneMoreSuffix ==
  ASSUME NEW jb \in JobsOf(PrefixTools), NEW k \in SuffixesOf(jb)
  PROVE  /\ Cardinality(Merges(jb, k)) \in Nat /\ Cardinality(MergedWith(jb, k)) \in Nat
         /\ Cardinality(Merges(jb, k + 1)) = Cardinality(Merges(jb, k)) + Cardinality(MergedWith(jb, k))
         /\ Cardinality(EqualSuffixes(jb, k)) \in Nat
         /\ Cardinality(EqualSuffixes(jb, k + 1))
              = Cardinality(EqualSuffixes(jb, k)) + Count(k \in MergedWith(jb, k))
  <1>1. k \in Nat /\ Len(jb.suffixes) \in Nat
    BY PrefixJob DEF SuffixesOf
  <1>2. 0..((k + 1) - 1) = (0..(k - 1)) \cup {k} /\ k \notin 0..(k - 1)
    BY <1>1
  <1>3. IsFiniteSet(0..(k - 1)) /\ IsFiniteSet(SuffixesOf(jb))
    <2>1. k - 1 \in Int /\ Len(jb.suffixes) - 1 \in Int
      BY <1>1
    <2>. QED
      BY <2>1, FS_Interval DEF SuffixesOf
  <1>. DEFINE old == Merges(jb, k)
              new == {<<l, k>> : l \in MergedWith(jb, k)}
              pair == [l \in MergedWith(jb, k) |-> <<l, k>>]
  <1>4. IsFiniteSet(old) /\ IsFiniteSet(MergedWith(jb, k)) /\ IsFiniteSet(EqualSuffixes(jb, k))
    <2>1. IsFiniteSet(SuffixesOf(jb) \X (0..(k - 1)))
      BY <1>3, FS_Product
    <2>2. /\ old \subseteq SuffixesOf(jb) \X (0..(k - 1)) /\ MergedWith(jb, k) \subseteq SuffixesOf(jb)
          /\ EqualSuffixes(jb, k) \subseteq 0..(k - 1)
      BY DEF Merges, MergedWith, EqualSuffixes
    <2>. QED
      BY <1>3, <2>1, <2>2, FS_Subset
  <1>5. IsFiniteSet(new) /\ Cardinality(new) = Cardinality(MergedWith(jb, k))
    <2>1. pair \in Bijection(MergedWith(jb, k), new)
      BY DEF Bijection, Injection, Surjection, IsInjective
    <2>2. ExistsBijection(MergedWith(jb, k), new)
      BY <2>1, Zenon DEF ExistsBijection
    <2>. QED
      BY <1>4, <2>2, FS_Bijection
  <1>6. Merges(jb, k + 1) = old \cup new /\ old \cap new = {}
    <2>1. Merges(jb, k + 1) \subseteq old \cup new
      <3>. SUFFICES ASSUME NEW p \in Merges(jb, k + 1) PROVE p \in old \cup new
        OBVIOUS
      <3>1. /\ p[1] \in SuffixesOf(jb) /\ p[2] \in (0..(k - 1)) \cup {k} /\ p = <<p[1], p[2]>>
            /\ LeftOf(jb, p[1]) = RightOf(jb, p[2])
        BY <1>2 DEF Merges
      <3>2. CASE p[2] = k
        <4>1. p[1] \in MergedWith(jb, k)
          BY <3>1, <3>2 DEF MergedWith
        <4>. QED
          BY <3>1, <3>2, <4>1
      <3>3. CASE p[2] \in 0..(k - 1)
        BY <3>1, <3>3 DEF Merges
      <3>. QED
        BY <3>1, <3>2, <3>3
    <2>2. old \subseteq Merges(jb, k + 1)
      BY <1>2 DEF Merges
    <2>3. new \subseteq Merges(jb, k + 1)
      BY <1>2 DEF Merges, MergedWith
    <2>4. \A p \in old : p \notin new
      BY <1>2 DEF Merges
    <2>. QED
      BY <2>1, <2>2, <2>3, <2>4
  <1>7. Cardinality(Merges(jb, k + 1)) = Cardinality(old) + Cardinality(new)
    <2>. HIDE DEF old, new
    <2>. QED
      BY <1>4, <1>5, <1>6, TwoParts
  <1>8. Cardinality(EqualSuffixes(jb, k + 1))
          = Cardinality(EqualSuffixes(jb, k)) + Count(k \in MergedWith(jb, k))
    <2>1. CASE k \in MergedWith(jb, k)
      <3>1. EqualSuffixes(jb, k + 1) = EqualSuffixes(jb, k) \cup {k} /\ k \notin EqualSuffixes(jb, k)
        BY <1>2, <2>1 DEF EqualSuffixes, MergedWith
      <3>. QED
        BY <1>4, <2>1, <3>1, FS_AddElement DEF Count
    <2>2. CASE k \notin MergedWith(jb, k)
      <3>1. EqualSuffixes(jb, k + 1) = EqualSuffixes(jb, k)
        BY <1>2, <2>2 DEF EqualSuffixes, MergedWith
      <3>2. Cardinality(EqualSuffixes(jb, k)) \in Nat
        BY <1>4, FS_CardinalityType
      <3>. QED
        BY <2>2, <3>1, <3>2 DEF Count
    <2>. QED
      BY <2>1, <2>2
  <1>. QED
    BY <1>4, <1>5, <1>7, <1>8, FS_CardinalityType

CrossCounted(numbers, k) ==
  /\ numbers.exact_merges = Cardinality(Merges(job, k))
  /\ numbers.equal_suffix_merges = Cardinality(EqualSuffixes(job, k))
  /\ numbers.fingerprint_matches \in Nat /\ numbers.exact_merges <= numbers.fingerprint_matches

(* Nothing has merged up to a suffix; the search goes on, has tried all    *)
(* suffixes, or stands at one that merges.                                 *)
CommonTried ==
  /\ \A n \in 0..(at - 1) : LeftOf(job, n) # RightOf(job, n)
  /\ \/ /\ pc = "scan" \/ (pc = "done" /\ at = Len(job.suffixes))
        /\ counters.digest_equal = 0 /\ Nearest(outcomes, Between(job), at)
     \/ /\ pc = "done" /\ at \in SuffixesOf(job) /\ LeftOf(job, at) = RightOf(job, at)
        /\ counters.digest_equal = 1 /\ Nearest(outcomes, Between(job), at + 1)

PrefixInv ==
  /\ job \in JobsOf(PrefixTools) /\ at \in 0..Len(job.suffixes)
  /\ SharedForward /\ job.tool = "constrained" => CrossCounted(counters, at)
  /\ SharedForward /\ job.tool = "merge" => CommonTried

LEMMA PrefixInitially == PrefixInit => PrefixInv
  <1>. SUFFICES ASSUME PrefixInit PROVE PrefixInv
    OBVIOUS
  <1>1. /\ job \in JobsOf(PrefixTools) /\ pc = "scan" /\ at = 0 /\ outcomes = <<>>
        /\ counters = IF job.tool = "merge" THEN [found |-> 0, digest_equal |-> 0]
                      ELSE [fingerprint_matches |-> 0, exact_merges |-> 0, equal_suffix_merges |-> 0]
    BY DEF PrefixInit, Start
  <1>2. at \in 0..Len(job.suffixes)
    BY <1>1, PrefixJob
  <1>3. ASSUME job.tool = "constrained" PROVE CrossCounted(counters, at)
    <2>1. Merges(job, 0) = {} /\ EqualSuffixes(job, 0) = {}
      BY DEF Merges, EqualSuffixes
    <2>2. /\ counters.exact_merges = 0 /\ counters.equal_suffix_merges = 0
          /\ counters.fingerprint_matches = 0
      BY <1>1, <1>3
    <2>3. CrossCounted(counters, 0)
      BY <2>1, <2>2, FS_EmptySet DEF CrossCounted
    <2>. QED
      BY <1>1, <2>3
  <1>4. ASSUME job.tool = "merge" PROVE CommonTried
    BY <1>1, <1>4, NearestToNone DEF CommonTried
  <1>. QED
    BY <1>1, <1>2, <1>3, <1>4 DEF PrefixInv

LEMMA SharedStays == UNCHANGED job => (SharedForward' <=> SharedForward)
  <1>1. \A message : /\ Forward(message) = Runs(job.absorb, job.start, message)
                     /\ Forward(message)' = Runs(job'.absorb, job'.start, message)
    BY Zenon DEF Forward, Behind, Runs, FoldLeft, MapThenFoldSet
  <1>. QED
    BY <1>1, Zenon DEF SharedForward

LEMMA ConstrainedStep ==
  ASSUME PrefixInv, SharedForward, job.tool = "constrained", ConstrainedSuffix
  PROVE  CrossCounted(counters, at)' /\ at + 1 \in 0..Len(job.suffixes)
  <1>. DEFINE right == RightOf(job, at)
              bucket == LeftTable[job.fingerprint[right]]
              merged == MergesWith(at)
  <1>1. /\ job \in JobsOf(PrefixTools) /\ at \in SuffixesOf(job) /\ CrossCounted(counters, at)
        /\ UNCHANGED job /\ at' = at + 1
    BY SidesAre DEF PrefixInv, ConstrainedSuffix
  <1>2. /\ counters'.fingerprint_matches = counters.fingerprint_matches + Cardinality(bucket)
        /\ counters'.exact_merges = counters.exact_merges + Cardinality(merged)
        /\ counters'.equal_suffix_merges = counters.equal_suffix_merges + Count(at \in merged)
    BY SidesAre DEF ConstrainedSuffix
  <1>3. Len(job.suffixes) \in Nat /\ at \in Nat /\ at + 1 \in 0..Len(job.suffixes)
    BY <1>1, PrefixJob DEF SuffixesOf
  <1>4. bucket = {n \in SuffixesOf(job) : job.fingerprint[LeftOf(job, n)] = job.fingerprint[right]}
    <2>1. right \in DOMAIN job.fingerprint
      BY <1>1, PrefixJob
    <2>2. job.fingerprint[right] \in ToSet(job.fingerprint)
      BY <2>1 DEF ToSet
    <2>. HIDE DEF right
    <2>. QED
      BY <2>2, SidesAre DEF LeftTable
  <1>5. merged = MergedWith(job, at)
    <2>1. merged = {l \in bucket : LeftOf(job, l) = right}
      BY SidesAre DEF MergesWith
    <2>. HIDE DEF bucket, merged
    <2>. QED
      BY <1>4, <2>1 DEF MergedWith
  <1>6. Cardinality(bucket) \in Nat /\ Cardinality(merged) <= Cardinality(bucket)
    <2>. HIDE DEF bucket
    <2>1. IsFiniteSet(bucket)
      <3>1. Len(job.suffixes) - 1 \in Int
        BY <1>3
      <3>2. IsFiniteSet(SuffixesOf(job))
        BY <3>1, FS_Interval DEF SuffixesOf
      <3>3. bucket \subseteq SuffixesOf(job)
        BY <1>4
      <3>. QED
        BY <3>2, <3>3, FS_Subset
    <2>2. merged \subseteq bucket
      BY <1>4, <1>5 DEF MergedWith
    <2>. HIDE DEF merged
    <2>. QED
      BY <2>1, <2>2, FS_Subset, FS_CardinalityType
  <1>. HIDE DEF bucket, merged
  <1>7. /\ Cardinality(Merges(job, at)) \in Nat /\ Cardinality(merged) \in Nat
        /\ Cardinality(Merges(job, at + 1)) = Cardinality(Merges(job, at)) + Cardinality(merged)
        /\ Cardinality(EqualSuffixes(job, at + 1))
             = Cardinality(EqualSuffixes(job, at)) + Count(at \in merged)
    BY <1>1, <1>5, OneMoreSuffix
  <1>8. CrossCounted(counters', at + 1)
    BY <1>1, <1>2, <1>6, <1>7 DEF CrossCounted
  <1>. QED
    BY <1>1, <1>3, <1>8 DEF CrossCounted

LEMMA MergeStep ==
  ASSUME PrefixInv, SharedForward, job.tool = "merge", MergeSuffix
  PROVE  CommonTried' /\ at' \in 0..Len(job.suffixes)
  <1>1. /\ job \in JobsOf(PrefixTools) /\ at \in SuffixesOf(job) /\ CommonTried
        /\ UNCHANGED job /\ pc = "scan"
    BY SidesAre DEF PrefixInv, MergeSuffix, Tool
  <1>2. Len(job.suffixes) \in Nat /\ at \in Nat /\ at < Len(job.suffixes)
    BY <1>1, PrefixJob DEF SuffixesOf
  <1>3. /\ outcomes' = Keep(outcomes, Between(job)[at], at, at)
        /\ IF LeftOf(job, at) = RightOf(job, at)
           THEN /\ pc' = "done" /\ UNCHANGED at
                /\ counters' = [found |-> 1,
                     digest_equal |-> Count(job.digest[LeftOf(job, at)] = job.digest[RightOf(job, at)])]
           ELSE at' = at + 1 /\ UNCHANGED <<pc, counters>>
    BY <1>2, SidesAre DEF MergeSuffix, Between
  <1>4. Nearest(outcomes', Between(job), at + 1)
    <2>1. Nearest(outcomes, Between(job), at)
      BY <1>1, <1>2 DEF CommonTried
    <2>2. Between(job)[at] \in Seq(Nat)
      BY <1>1, PrefixJob
    <2>. QED
      BY <1>2, <1>3, <2>1, <2>2, KeepsNearest
  <1>5. CASE LeftOf(job, at) = RightOf(job, at)
    <2>1. pc' = "done" /\ at' = at /\ counters'.digest_equal = 1
      BY <1>3, <1>5 DEF Count
    <2>. QED
      BY <1>1, <1>2, <1>4, <1>5, <2>1 DEF CommonTried
  <1>6. CASE LeftOf(job, at) # RightOf(job, at)
    <2>1. at' = at + 1 /\ pc' = "scan" /\ counters' = counters
      BY <1>1, <1>3, <1>6
    <2>2. \A n \in 0..(at + 1 - 1) : LeftOf(job, n) # RightOf(job, n)
      BY <1>1, <1>2, <1>6 DEF CommonTried
    <2>3. counters.digest_equal = 0
      BY <1>1 DEF CommonTried
    <2>. QED
      BY <1>1, <1>2, <1>4, <2>1, <2>2, <2>3 DEF CommonTried
  <1>. QED
    BY <1>5, <1>6

LEMMA PrefixStep == PrefixInv /\ [PrefixNext]_vars => PrefixInv'
  <1>. SUFFICES ASSUME PrefixInv, [PrefixNext]_vars PROVE PrefixInv'
    OBVIOUS
  <1>1. job' = job
    BY DEF PrefixNext, RefuseDivergent, ConstrainedSuffix, EndConstrained, MergeSuffix, EndMerge,
           Leave, vars
  <1>2. SharedForward' <=> SharedForward
    BY <1>1, SharedStays
  <1>3. job \in JobsOf(PrefixTools) /\ at \in 0..Len(job.suffixes)
    BY DEF PrefixInv
  <1>4. CASE RefuseDivergent
    BY <1>1, <1>2, <1>3, <1>4 DEF RefuseDivergent, Leave, PrefixInv
  <1>5. CASE ConstrainedSuffix
    <2>1. SharedForward /\ job.tool = "constrained" /\ at' = at + 1
      BY <1>5 DEF ConstrainedSuffix, Tool
    <2>. QED
      BY <1>1, <1>2, <1>3, <1>5, <2>1, ConstrainedStep DEF PrefixInv
  <1>6. CASE EndConstrained
    <2>1. job.tool = "constrained" /\ UNCHANGED <<at, counters>>
      BY <1>6 DEF EndConstrained, Tool, Leave
    <2>. QED
      BY <1>1, <1>2, <1>3, <2>1 DEF PrefixInv, CrossCounted
  <1>7. CASE MergeSuffix
    <2>1. SharedForward /\ job.tool = "merge"
      BY <1>7 DEF MergeSuffix, Tool
    <2>. QED
      BY <1>1, <1>2, <1>3, <1>7, <2>1, MergeStep DEF PrefixInv
  <1>8. CASE EndMerge
    <2>1. /\ SharedForward /\ job.tool = "merge" /\ pc = "scan" /\ pc' = "done"
          /\ UNCHANGED <<at, counters, outcomes>> /\ at \notin SuffixesOf(job)
      BY <1>8, SidesAre DEF EndMerge, Tool, Leave
    <2>2. at = Len(job.suffixes)
      BY <1>3, <2>1, PrefixJob DEF SuffixesOf
    <2>3. CommonTried'
      BY <1>1, <2>1, <2>2 DEF PrefixInv, CommonTried
    <2>. QED
      BY <1>1, <1>2, <1>3, <2>1, <2>3 DEF PrefixInv
  <1>9. CASE UNCHANGED vars
    BY <1>1, <1>2, <1>3, <1>9 DEF vars, PrefixInv, CrossCounted, CommonTried
  <1>. QED
    BY <1>4, <1>5, <1>6, <1>7, <1>8, <1>9 DEF PrefixNext

LEMMA MergesCounted == PrefixInv => MergesExact
  <1>. SUFFICES ASSUME PrefixInv, SharedForward PROVE MergesExact
    BY DEF MergesExact
  <1>. DEFINE tried == {n \in Domain : n < at}
              L == Len(job.suffixes)
  <1>1. job \in JobsOf(PrefixTools) /\ at \in 0..L /\ L \in Nat
    BY PrefixJob DEF PrefixInv
  <1>2. tried = 0..(at - 1) /\ Domain = SuffixesOf(job)
    BY <1>1, SidesAre DEF SuffixesOf
  <1>. HIDE DEF tried
  <1>3. /\ {n \in tried : LeftFoldback(n) = RightFoldback(n)} = EqualSuffixes(job, at)
        /\ {p \in Domain \X tried : LeftFoldback(p[1]) = RightFoldback(p[2])} = Merges(job, at)
    BY <1>2, SidesAre DEF EqualSuffixes, Merges
  <1>4. ASSUME job.tool = "constrained"
        PROVE  /\ counters.exact_merges = Cardinality(Merges(job, at))
               /\ counters.equal_suffix_merges = Cardinality(EqualSuffixes(job, at))
               /\ counters.exact_merges <= counters.fingerprint_matches
    BY <1>4 DEF PrefixInv, CrossCounted
  <1>5. ASSUME job.tool = "merge"
        PROVE  /\ EqualSuffixes(job, at) = {}
               /\ pc = "done" => /\ PrefixExitCode = 1 <=> at \in Domain
                                 /\ PrefixExitCode = 1 <=>
                                      \E n \in Domain : LeftFoldback(n) = RightFoldback(n)
               /\ \A n \in tried : ~Before(CubeDistance(LeftFoldback(n), RightFoldback(n)),
                                           outcomes[1].distance)
    <2>1. CommonTried
      BY <1>5 DEF PrefixInv
    <2>2. EqualSuffixes(job, at) = {}
      BY <2>1 DEF CommonTried, EqualSuffixes
    <2>4. ASSUME pc = "done"
          PROVE  /\ PrefixExitCode = 1 <=> at \in Domain
                 /\ PrefixExitCode = 1 <=> \E n \in Domain : LeftFoldback(n) = RightFoldback(n)
      <3>1. PrefixExitCode = counters.digest_equal
        BY <1>5, <2>4 DEF PrefixExitCode
      <3>2. CASE at = L
        <4>1. at \notin SuffixesOf(job) /\ \A n \in SuffixesOf(job) : n \in 0..(at - 1)
          BY <1>1, <3>2 DEF SuffixesOf
        <4>2. counters.digest_equal = 0 /\ \A n \in SuffixesOf(job) : LeftOf(job, n) # RightOf(job, n)
          BY <2>1, <2>4, <3>2, <4>1 DEF CommonTried
        <4>. QED
          BY <1>2, <3>1, <4>1, <4>2, SidesAre
      <3>3. CASE at # L
        <4>1. at \in SuffixesOf(job)
          BY <1>1, <3>3 DEF SuffixesOf
        <4>2. counters.digest_equal = 1 /\ LeftOf(job, at) = RightOf(job, at)
          BY <2>1, <2>4, <3>3 DEF CommonTried
        <4>. QED
          BY <1>2, <3>1, <4>1, <4>2, SidesAre
      <3>. QED
        BY <3>2, <3>3
    <2>5. ASSUME NEW n \in tried
          PROVE  ~Before(CubeDistance(LeftFoldback(n), RightFoldback(n)), outcomes[1].distance)
      <3>1. n \in Nat /\ n \in 0..(at - 1) /\ n \in 0..((at + 1) - 1)
        BY <1>1, <1>2
      <3>2. ~Before(Between(job)[n], outcomes[1].distance)
        BY <2>1, <3>1 DEF CommonTried, Nearest
      <3>. QED
        BY <3>1, <3>2, SidesAre DEF Between
    <2>. QED
      BY <2>2, <2>4, <2>5
  <1>. QED
    BY <1>3, <1>4, <1>5, Zenon DEF MergesExact, tried

(* The cross search counts every merge and nothing else, and the search    *)
(* with a common suffix stops at the first, keeps the nearest pair and     *)
(* tells of the merge in its exit code (MergesExact), for every hash,      *)
(* every fingerprint, any prefixes and any number of suffixes.             *)
THEOREM MergesAreExact == PrefixSpec => []MergesExact
  BY PrefixInitially, PrefixStep, MergesCounted, PTL DEF PrefixSpec

-----------------------------------------------------------------------------
(* Lsh: records as functions of the job.                                   *)
Records(jb) == 0..(jb.limit - 1)
Skipped(jb, l, r) == jb.tool = "digest_lsh" /\ jb.left[l].forward = jb.right[r].forward
Far(jb, l, r) ==
  LET both == jb.distance[jb.left[l].value][jb.right[r].value]
  IN  IF jb.tool = "digest_lsh" THEN <<both[1], 0>> ELSE both
Pairs(jb) == {p \in Records(jb) \X Records(jb) :
                jb.left[p[1]].value = jb.right[p[2]].value /\ ~Skipped(jb, p[1], p[2])}
ScoredOf(jb, compared) == {<<c[2], c[3]>> : c \in {d \in compared : ~Skipped(jb, d[2], d[3])}}
SkippedOf(jb, compared) == {c \in compared : Skipped(jb, c[2], c[3])}

LEMMA OfTheJob ==
  /\ \A l, r : Distance(l, r) = Far(job, l, r) /\ ForwardEqual(l, r) = Skipped(job, l, r)
  /\ EqualValues = Pairs(job)
  BY DEF Distance, Far, ForwardEqual, Skipped, EqualValues, Pairs, Records

IsFar(d) == d \in Nat \X Nat /\ Nearer(d, Unset)

LEMMA LshJob ==
  ASSUME NEW jb \in JobsOf(LshTools)
  PROVE  /\ jb.limit \in Nat \ {0} /\ Len(jb.project) \in Nat \ {0} /\ jb.forward_equal \in BOOLEAN
         /\ jb.tool \in LshTools
         /\ \A l, r \in Records(jb) :
              /\ IsFar(Far(jb, l, r))
              /\ Far(jb, l, r)[1] = 0 <=> jb.left[l].value = jb.right[r].value
  <1>1. /\ jb.limit \in Nat \ {0} /\ Len(jb.project) \in Nat \ {0} /\ jb.forward_equal \in BOOLEAN
        /\ \A n \in Records(jb) :
             jb.left[n].value \in DOMAIN jb.distance /\ jb.right[n].value \in DOMAIN jb.distance
        /\ \A v, w \in DOMAIN jb.distance :
             /\ jb.distance[v][w] \in (0..MostBits) \X Nat
             /\ jb.distance[v][w][1] = 0 <=> v = w
    BY LshJobsAssumption DEF Records
  <1>2. jb.tool \in LshTools
    BY JobsAssumption DEF JobsOf
  <1>3. ASSUME NEW l \in Records(jb), NEW r \in Records(jb)
        PROVE  /\ IsFar(Far(jb, l, r))
               /\ Far(jb, l, r)[1] = 0 <=> jb.left[l].value = jb.right[r].value
    <2>. DEFINE both == jb.distance[jb.left[l].value][jb.right[r].value]
    <2>1. both \in (0..MostBits) \X Nat /\ (both[1] = 0 <=> jb.left[l].value = jb.right[r].value)
      BY <1>1
    <2>2. Far(jb, l, r) = IF jb.tool = "digest_lsh" THEN <<both[1], 0>> ELSE both
      BY DEF Far
    <2>. HIDE DEF both
    <2>3. MostBits \in Nat
      BY DEF MostBits
    <2>. QED
      BY <2>1, <2>2, <2>3 DEF IsFar, Nearer, Unset
  <1>. QED
    BY <1>1, <1>2, <1>3

LEMMA NearerIsOrder ==
  /\ \A a, b, c \in Nat \X Nat : Nearer(a, b) /\ Nearer(b, c) => Nearer(a, c)
  /\ \A a \in Nat \X Nat : ~Nearer(a, a)
  BY DEF Nearer

(* Of several there is one that none is nearer than.                       *)
LEMMA OneIsNearest ==
  ASSUME NEW S, S # {}, NEW far, \A x \in S : far[x] \in Nat \X Nat
  PROVE  \E x \in S : \A y \in S : ~Nearer(far[y], far[x])
  <1>. DEFINE A == {n \in Nat : \E x \in S : far[x][1] = n}
  <1>1. A # {} /\ A \subseteq Nat
    BY DEF A
  <1>2. PICK a \in A : \A n \in A : a <= n
    <2>. HIDE DEF A
    <2>. QED
      BY <1>1, LeastNat
  <1>. DEFINE B == {n \in Nat : \E x \in S : far[x][1] = a /\ far[x][2] = n}
  <1>3. B # {} /\ B \subseteq Nat
    <2>1. PICK x \in S : far[x][1] = a
      BY <1>2
    <2>2. far[x][2] \in B
      BY <2>1
    <2>. QED
      BY <2>2
  <1>4. PICK b \in B : \A n \in B : b <= n
    <2>. HIDE DEF B
    <2>. QED
      BY <1>3, LeastNat
  <1>5. PICK x \in S : far[x][1] = a /\ far[x][2] = b
    BY <1>4
  <1>6. ASSUME NEW y \in S PROVE ~Nearer(far[y], far[x])
    <2>1. far[y] \in Nat \X Nat /\ far[x] \in Nat \X Nat
      OBVIOUS
    <2>2. a <= far[y][1]
      BY <1>2, <2>1
    <2>3. far[y][1] = a => b <= far[y][2]
      BY <1>4, <2>1
    <2>. QED
      BY <1>5, <2>1, <2>2, <2>3 DEF Nearer
  <1>. QED
    BY <1>6

(* What is reported of the pairs scored so far.                            *)
BestKept(jb, best, scored) ==
  /\ best = <<>> <=> scored = {}
  /\ best # <<>> =>
       /\ <<best[1].left, best[1].right>> \in scored
       /\ best[1].distance = Far(jb, best[1].left, best[1].right)
       /\ best[1].exact <=> best[1].distance[1] = 0
       /\ \A p \in scored : ~Nearer(Far(jb, p[1], p[2]), best[1].distance)

BoundOf(best) == IF best = <<>> THEN Unset ELSE best[1].distance

NearestOf(jb, closer, r) ==
  {k \in closer : \A m \in closer : ~Nearer(Far(jb, m, r), Far(jb, k, r))}

TakesNearest(jb, best, new, closer, r) ==
  /\ closer = {} => new = best
  /\ closer # {} =>
       LET l == Min(NearestOf(jb, closer, r))
       IN  new = << [distance |-> Far(jb, l, r), left |-> l, right |-> r,
                     exact |-> IF jb.tool = "digest_lsh" THEN Far(jb, l, r)[1] = 0
                               ELSE jb.left[l].value = jb.right[r].value] >>

(* A record more, with those of its bucket that count: of the closest the  *)
(* first, if it is closer than what is kept.                               *)
LEMMA BestTakesIn ==
  ASSUME NEW jb \in JobsOf(LshTools), NEW best, NEW scored,
         scored \subseteq Records(jb) \X Records(jb), BestKept(jb, best, scored),
         NEW r \in Records(jb), NEW open, open \subseteq Records(jb), NEW closer,
         closer = {l \in open : Nearer(Far(jb, l, r), BoundOf(best))},
         NEW new, TakesNearest(jb, best, new, closer, r)
  PROVE  BestKept(jb, new, scored \cup {<<l, r>> : l \in open})
  <1>. DEFINE more == scored \cup {<<l, r>> : l \in open}
              bound == BoundOf(best)
  <1>1. \A l, k \in Records(jb) : IsFar(Far(jb, l, k))
    BY LshJob
  <1>2. /\ bound \in Nat \X Nat
        /\ \A p \in scored : ~Nearer(Far(jb, p[1], p[2]), bound)
    <2>1. Unset \in Nat \X Nat
      BY DEF Unset, MostBits
    <2>2. CASE best = <<>>
      BY <2>1, <2>2 DEF BoundOf, BestKept
    <2>3. CASE best # <<>>
      <3>1. <<best[1].left, best[1].right>> \in Records(jb) \X Records(jb)
        BY <2>3 DEF BestKept
      <3>2. bound = Far(jb, best[1].left, best[1].right)
        BY <2>3 DEF BestKept, BoundOf
      <3>3. best[1].left \in Records(jb) /\ best[1].right \in Records(jb)
        BY <3>1
      <3>4. bound \in Nat \X Nat
        BY <1>1, <3>2, <3>3 DEF IsFar
      <3>5. bound = best[1].distance
        BY <2>3 DEF BoundOf
      <3>. HIDE DEF bound
      <3>. QED
        BY <2>3, <3>4, <3>5 DEF BestKept
    <2>. QED
      BY <2>2, <2>3
  <1>. HIDE DEF bound
  <1>3. closer = {l \in open : Nearer(Far(jb, l, r), bound)}
    BY DEF bound
  <1>4. CASE closer = {}
    <2>1. new = best /\ \A l \in open : ~Nearer(Far(jb, l, r), bound)
      BY <1>3, <1>4 DEF TakesNearest
    <2>2. CASE best = <<>>
      <3>1. open = {} /\ scored = {}
        BY <1>1, <2>1, <2>2 DEF bound, BoundOf, IsFar, BestKept
      <3>. QED
        BY <2>1, <2>2, <3>1 DEF BestKept
    <2>3. CASE best # <<>>
      <3>1. \A p \in more : ~Nearer(Far(jb, p[1], p[2]), bound)
        BY <1>2, <2>1
      <3>2. bound = best[1].distance
        BY <2>3 DEF bound, BoundOf
      <3>3. more # {} /\ scored \subseteq more
        BY <2>3 DEF BestKept
      <3>. HIDE DEF more
      <3>4. BestKept(jb, new, more)
        BY <2>1, <2>3, <3>1, <3>2, <3>3 DEF BestKept
      <3>. QED
        BY <3>4 DEF more
    <2>. QED
      BY <2>2, <2>3
  <1>5. CASE closer # {}
    <2>. DEFINE nearest == NearestOf(jb, closer, r)
                l == Min(nearest)
                d == Far(jb, l, r)
    <2>1. nearest # {} /\ nearest \subseteq Nat
      <3>. DEFINE far == [x \in closer |-> Far(jb, x, r)]
      <3>1. closer \subseteq Records(jb) /\ Records(jb) \subseteq Nat
        <4>1. jb.limit \in Nat
          BY LshJob
        <4>2. Records(jb) \subseteq Nat
          BY <4>1 DEF Records
        <4>. QED
          BY <1>3, <4>2
      <3>2. \A x \in closer : far[x] = Far(jb, x, r) /\ far[x] \in Nat \X Nat
        BY <1>1, <3>1 DEF IsFar
      <3>. HIDE DEF far
      <3>3. \E x \in closer : \A y \in closer : ~Nearer(far[y], far[x])
        BY <1>5, <3>2, OneIsNearest
      <3>. QED
        BY <3>1, <3>2, <3>3 DEF NearestOf
    <2>2. l \in nearest
      <3>. HIDE DEF nearest
      <3>1. PICK m \in nearest : \A n \in nearest : m <= n
        BY <2>1, LeastNat
      <3>2. \A x \in nearest : x \in Int
        BY <2>1
      <3>3. Min(nearest) = m
        BY <3>1, <3>2, LeastIsMin DEF IsLeast
      <3>. QED
        BY <3>1, <3>3
    <2>3. /\ new # <<>> /\ new[1].distance = d /\ new[1].left = l /\ new[1].right = r
          /\ new[1].exact <=> d[1] = 0
      <3>1. l \in Records(jb)
        BY <1>3, <2>2 DEF NearestOf
      <3>2. new = << [distance |-> d, left |-> l, right |-> r,
                      exact |-> IF jb.tool = "digest_lsh" THEN d[1] = 0
                                ELSE jb.left[l].value = jb.right[r].value] >>
        BY <1>5, Zenon DEF TakesNearest
      <3>3. d[1] = 0 <=> jb.left[l].value = jb.right[r].value
        BY <3>1, LshJob
      <3>. HIDE DEF d, l
      <3>. QED
        BY <3>2, <3>3
    <2>4. l \in closer /\ \A m \in closer : ~Nearer(Far(jb, m, r), d)
      BY <2>2 DEF NearestOf
    <2>. HIDE DEF l, nearest
    <2>5. l \in open /\ l \in Records(jb) /\ d \in Nat \X Nat /\ Nearer(d, bound)
      BY <1>1, <1>3, <2>4 DEF IsFar
    <2>. HIDE DEF d
    <2>6. ASSUME NEW p \in scored PROVE ~Nearer(Far(jb, p[1], p[2]), d)
      <3>1. ~Nearer(Far(jb, p[1], p[2]), bound) /\ Far(jb, p[1], p[2]) \in Nat \X Nat
        BY <1>1, <1>2 DEF IsFar
      <3>. QED
        BY <1>2, <2>5, <3>1, NearerIsOrder
    <2>7. ASSUME NEW k \in open PROVE ~Nearer(Far(jb, k, r), d)
      <3>1. Far(jb, k, r) \in Nat \X Nat
        BY <1>1 DEF IsFar
      <3>2. CASE k \in closer
        BY <2>4, <3>2
      <3>3. CASE k \notin closer
        <4>1. ~Nearer(Far(jb, k, r), bound)
          BY <1>3, <3>3
        <4>. QED
          BY <1>2, <2>5, <3>1, <4>1, NearerIsOrder
      <3>. QED
        BY <3>2, <3>3
    <2>8. \A p \in more : ~Nearer(Far(jb, p[1], p[2]), d)
      BY <2>6, <2>7
    <2>9. <<l, r>> \in more
      BY <2>5
    <2>. HIDE DEF more
    <2>10. d = Far(jb, l, r)
      BY DEF d
    <2>11. BestKept(jb, new, more)
      BY <2>3, <2>8, <2>9, <2>10 DEF BestKept
    <2>. QED
      BY <2>11 DEF more
  <1>. QED
    BY <1>4, <1>5

(* The pass, the record and the pairs compared.                            *)
ComparedSoFar(jb, compared, pass, k) ==
  /\ IsFiniteSet(compared)
  /\ compared \subseteq (1..pass) \X Records(jb) \X Records(jb)
  /\ \A c \in compared : c[1] < pass \/ c[3] < k
  /\ jb.wide => \A l, r \in Records(jb) :
       jb.left[l].value = jb.right[r].value /\ (pass > 1 \/ r < k) => <<1, l, r>> \in compared

LshCounters(jb, numbers, compared) ==
  /\ numbers.candidate_pairs = Cardinality(compared)
  /\ numbers.forward_equal_skipped = Cardinality(SkippedOf(jb, compared))

LshInv ==
  /\ job \in JobsOf(LshTools)
  /\ DOMAIN counters = {"pass", "candidate_pairs", "forward_equal_skipped"}
  /\ DOMAIN seen = {"compared"}
  /\ counters.pass \in 1..Len(job.project) /\ at \in 0..job.limit
  /\ ComparedSoFar(job, seen.compared, counters.pass, at)
  /\ LshCounters(job, counters, seen.compared)
  /\ BestKept(job, outcomes, ScoredOf(job, seen.compared))
  /\ counters.pass > 1 /\ job.wide => Pairs(job) = {}
  /\ pc # "scan" =>
       \/ job.forward_equal # (job.tool = "foldback_lsh")
       \/ at = job.limit /\ (pc = "error" => outcomes = <<>>)

LEMMA LshInitially == LshInit => LshInv
  <1>. SUFFICES ASSUME LshInit PROVE LshInv
    OBVIOUS
  <1>1. /\ job \in JobsOf(LshTools) /\ pc = "scan" /\ at = 0 /\ outcomes = <<>>
        /\ seen = [compared |-> {}]
        /\ counters = [pass |-> 1, candidate_pairs |-> 0, forward_equal_skipped |-> 0]
    BY DEF LshInit, Start
  <1>2. 1 \in 1..Len(job.project) /\ at \in 0..job.limit
    BY <1>1, LshJob
  <1>3. ComparedSoFar(job, {}, 1, 0)
    BY <1>1, FS_EmptySet, LshJob DEF ComparedSoFar, Records
  <1>4. SkippedOf(job, {}) = {} /\ ScoredOf(job, {}) = {}
    BY DEF SkippedOf, ScoredOf
  <1>5. LshCounters(job, counters, {}) /\ BestKept(job, outcomes, {})
    BY <1>1, <1>4, FS_EmptySet DEF LshCounters, BestKept
  <1>6. /\ DOMAIN counters = {"pass", "candidate_pairs", "forward_equal_skipped"}
        /\ DOMAIN seen = {"compared"} /\ seen.compared = {} /\ counters.pass = 1
    BY <1>1
  <1>7. /\ ComparedSoFar(job, seen.compared, counters.pass, at)
        /\ LshCounters(job, counters, seen.compared)
        /\ BestKept(job, outcomes, ScoredOf(job, seen.compared))
    BY <1>1, <1>3, <1>4, <1>5, <1>6
  <1>8. counters.pass \in 1..Len(job.project) /\ ~(counters.pass > 1)
    BY <1>2, <1>6
  <1>. QED
    BY <1>1, <1>2, <1>6, <1>7, <1>8 DEF LshInv

(* What a bucket adds to the pairs compared.                               *)
Triples(bucket, pass, r) == {<<pass, l, r>> : l \in bucket}

LEMMA TriplesCount ==
  ASSUME NEW bucket, IsFiniteSet(bucket), NEW pass, NEW r
  PROVE  IsFiniteSet(Triples(bucket, pass, r)) /\ Cardinality(Triples(bucket, pass, r)) = Cardinality(bucket)
  <1>. DEFINE triple == [l \in bucket |-> <<pass, l, r>>]
  <1>1. triple \in Bijection(bucket, Triples(bucket, pass, r))
    BY DEF Bijection, Injection, Surjection, IsInjective, Triples
  <1>. QED
    BY <1>1, FS_Bijection, Zenon DEF ExistsBijection

LEMMA RecordsAreFinite ==
  ASSUME NEW jb \in JobsOf(LshTools)
  PROVE  IsFiniteSet(Records(jb))
  <1>1. jb.limit - 1 \in Int
    BY LshJob
  <1>. QED
    BY <1>1, FS_Interval DEF Records

LEMMA CountsTakeIn ==
  ASSUME NEW jb \in JobsOf(LshTools), NEW compared, NEW pass \in Nat, NEW r \in Records(jb),
         ComparedSoFar(jb, compared, pass, r), NEW bucket, bucket \subseteq Records(jb),
         NEW numbers, LshCounters(jb, numbers, compared), NEW others,
         others.candidate_pairs = numbers.candidate_pairs + Cardinality(bucket),
         others.forward_equal_skipped
           = numbers.forward_equal_skipped + Cardinality({l \in bucket : Skipped(jb, l, r)})
  PROVE  LshCounters(jb, others, compared \cup Triples(bucket, pass, r))
  <1>. DEFINE passed == {l \in bucket : Skipped(jb, l, r)}
              new == Triples(bucket, pass, r)
  <1>1. IsFiniteSet(bucket) /\ IsFiniteSet(passed)
    <2>1. IsFiniteSet(Records(jb))
      BY RecordsAreFinite
    <2>. QED
      BY <2>1, FS_Subset
  <1>2. compared \cap new = {} /\ r \in Nat
    <2>1. r \in Nat
      BY LshJob DEF Records
    <2>2. ASSUME NEW c \in compared PROVE c \notin new
      <3>1. c[1] < pass \/ c[3] < r
        BY DEF ComparedSoFar
      <3>. QED
        BY <2>1, <3>1 DEF Triples
    <2>. QED
      BY <2>1, <2>2
  <1>3. SkippedOf(jb, compared \cup new) = SkippedOf(jb, compared) \cup Triples(passed, pass, r)
    BY DEF SkippedOf, Triples
  <1>4. SkippedOf(jb, compared) \subseteq compared /\ Triples(passed, pass, r) \subseteq new
    BY DEF SkippedOf, Triples
  <1>5. IsFiniteSet(compared) /\ IsFiniteSet(SkippedOf(jb, compared))
    BY <1>4, FS_Subset DEF ComparedSoFar
  <1>6. /\ IsFiniteSet(new) /\ Cardinality(new) = Cardinality(bucket)
        /\ IsFiniteSet(Triples(passed, pass, r))
        /\ Cardinality(Triples(passed, pass, r)) = Cardinality(passed)
    BY <1>1, TriplesCount
  <1>. HIDE DEF new, passed
  <1>7. Cardinality(compared \cup new) = Cardinality(compared) + Cardinality(bucket)
    <2>1. compared \cap new = {}
      BY <1>2
    <2>2. Cardinality(compared \cup new) = Cardinality(compared) + Cardinality(new)
      BY <1>5, <1>6, <2>1, TwoParts
    <2>. QED
      BY <1>6, <2>2
  <1>8. SkippedOf(jb, compared) \cap Triples(passed, pass, r) = {}
    BY <1>2, <1>4
  <1>9. Cardinality(SkippedOf(jb, compared \cup new))
          = Cardinality(SkippedOf(jb, compared)) + Cardinality(passed)
    BY <1>3, <1>5, <1>6, <1>8, TwoParts
  <1>10. LshCounters(jb, others, compared \cup new)
    BY <1>7, <1>9 DEF LshCounters, passed
  <1>. QED
    BY <1>10 DEF new

(* A bucket compared: what is compared from then on.                       *)
CatchesEqual(jb, bucket, r) ==
  jb.wide => \A l \in Records(jb) : jb.left[l].value = jb.right[r].value => l \in bucket

LEMMA ComparedTakesIn ==
  ASSUME NEW jb \in JobsOf(LshTools), NEW compared, NEW pass \in Nat \ {0}, NEW r \in Records(jb),
         ComparedSoFar(jb, compared, pass, r), NEW bucket, bucket \subseteq Records(jb),
         CatchesEqual(jb, bucket, r)
  PROVE  /\ ComparedSoFar(jb, compared \cup Triples(bucket, pass, r), pass, r + 1)
         /\ ScoredOf(jb, compared) \subseteq Records(jb) \X Records(jb)
         /\ ScoredOf(jb, compared \cup Triples(bucket, pass, r))
              = ScoredOf(jb, compared) \cup {<<l, r>> : l \in {k \in bucket : ~Skipped(jb, k, r)}}
  <1>. DEFINE new == Triples(bucket, pass, r)
              open == {k \in bucket : ~Skipped(jb, k, r)}
  <1>1. jb.limit \in Nat /\ r \in Nat /\ Records(jb) \subseteq Nat
    BY LshJob DEF Records
  <1>2. /\ IsFiniteSet(compared) /\ compared \subseteq (1..pass) \X Records(jb) \X Records(jb)
        /\ \A c \in compared : c[1] < pass \/ c[3] < r
        /\ jb.wide => \A l, k \in Records(jb) :
             jb.left[l].value = jb.right[k].value /\ (pass > 1 \/ k < r) => <<1, l, k>> \in compared
    BY DEF ComparedSoFar
  <1>3. IsFiniteSet(compared \cup new)
    <2>1. IsFiniteSet(bucket)
      BY RecordsAreFinite, FS_Subset
    <2>2. IsFiniteSet(new)
      BY <2>1, TriplesCount
    <2>. QED
      BY <1>2, <2>2, FS_Union
  <1>4. compared \cup new \subseteq (1..pass) \X Records(jb) \X Records(jb)
    <2>1. pass \in 1..pass
      OBVIOUS
    <2>. QED
      BY <1>2, <2>1 DEF Triples
  <1>5. ASSUME NEW c \in compared \cup new PROVE c[1] < pass \/ c[3] < r + 1
    <2>1. CASE c \in compared
      <3>1. c[3] \in Nat /\ (c[1] < pass \/ c[3] < r)
        BY <1>1, <1>2, <2>1
      <3>. QED
        BY <1>1, <3>1
    <2>2. CASE c \in new
      BY <1>1, <2>2 DEF Triples
    <2>. QED
      BY <2>1, <2>2
  <1>6. ASSUME jb.wide, NEW l \in Records(jb), NEW k \in Records(jb),
               jb.left[l].value = jb.right[k].value, pass > 1 \/ k < r + 1
        PROVE  <<1, l, k>> \in compared \cup new
    <2>1. CASE pass > 1 \/ k < r
      BY <1>2, <1>6, <2>1
    <2>2. CASE ~(pass > 1 \/ k < r)
      <3>1. pass = 1 /\ k = r
        BY <1>1, <1>6, <2>2
      <3>2. l \in bucket
        BY <1>6, <3>1 DEF CatchesEqual
      <3>. QED
        BY <3>1, <3>2 DEF Triples
    <2>. QED
      BY <2>1, <2>2
  <1>7. ComparedSoFar(jb, compared \cup new, pass, r + 1)
    BY <1>3, <1>4, <1>5, <1>6 DEF ComparedSoFar
  <1>8. ScoredOf(jb, compared) \subseteq Records(jb) \X Records(jb)
    BY <1>2 DEF ScoredOf
  <1>9. ScoredOf(jb, compared \cup new) = ScoredOf(jb, compared) \cup {<<l, r>> : l \in open}
    <2>1. ScoredOf(jb, compared \cup new) \subseteq ScoredOf(jb, compared) \cup {<<l, r>> : l \in open}
      BY DEF ScoredOf, Triples
    <2>2. ScoredOf(jb, compared) \subseteq ScoredOf(jb, compared \cup new)
      BY DEF ScoredOf
    <2>3. ASSUME NEW l \in open PROVE <<l, r>> \in ScoredOf(jb, compared \cup new)
      <3>1. <<pass, l, r>> \in compared \cup new /\ ~Skipped(jb, l, r)
        BY DEF Triples
      <3>2. <<pass, l, r>>[2] = l /\ <<pass, l, r>>[3] = r
        OBVIOUS
      <3>. QED
        BY <3>1, <3>2 DEF ScoredOf
    <2>. QED
      BY <2>1, <2>2, <2>3
  <1>. QED
    BY <1>7, <1>8, <1>9

LEMMA CompareStep ==
  ASSUME LshInv, CompareRight
  PROVE  LshInv'
  <1>. DEFINE pass == counters.pass
              bucket == BucketOf(ProjectionKey("right", at))
              closer == Closer(bucket, at)
              open == {k \in bucket : ~Skipped(job, k, at)}
              scored == ScoredOf(job, seen.compared)
              compared == seen.compared \cup Triples(bucket, pass, at)
  <1>1. /\ job \in JobsOf(LshTools) /\ pass \in 1..Len(job.project) /\ at \in 0..job.limit
        /\ DOMAIN counters = {"pass", "candidate_pairs", "forward_equal_skipped"}
        /\ DOMAIN seen = {"compared"}
        /\ ComparedSoFar(job, seen.compared, pass, at) /\ LshCounters(job, counters, seen.compared)
        /\ BestKept(job, outcomes, scored)
        /\ pass > 1 /\ job.wide => Pairs(job) = {}
    BY DEF LshInv
  <1>2. job.limit \in Nat /\ Len(job.project) \in Nat /\ job.tool \in LshTools
    BY <1>1, LshJob
  <1>3. /\ pc = "scan" /\ pc' = "scan" /\ job' = job /\ at' = at + 1 /\ at < job.limit
    BY DEF CompareRight
  <1>4. /\ counters' = [counters EXCEPT
             !.candidate_pairs = @ + Cardinality(bucket),
             !.forward_equal_skipped = @ + Cardinality({l \in bucket : ForwardEqual(l, at)})]
        /\ seen' = [seen EXCEPT !.compared = compared]
        /\ outcomes' =
             IF closer = {} THEN outcomes
             ELSE LET nearest == {l \in closer : \A k \in closer : ~Nearer(Distance(k, at), Distance(l, at))}
                      l == Min(nearest)
                  IN  << [distance |-> Distance(l, at), left |-> l, right |-> at,
                          exact |-> IF job.tool = "digest_lsh" THEN Distance(l, at)[1] = 0
                                    ELSE job.left[l].value = job.right[at].value] >>
    <2>1. CompareWith(bucket, closer)
      BY Zenon DEF CompareRight
    <2>. HIDE DEF bucket, closer
    <2>. QED
      BY <2>1, Zenon DEF CompareWith, Triples
  <1>5. at \in Records(job) /\ at \in Nat /\ pass \in Nat \ {0} /\ at + 1 \in 0..job.limit
    BY <1>1, <1>2, <1>3 DEF Records
  <1>6. /\ bucket \subseteq Records(job)
        /\ CatchesEqual(job, bucket, at)
    BY DEF BucketOf, ProjectionKey, Records, CatchesEqual
  <1>. HIDE DEF bucket, pass, compared
  <1>7. counters'.pass = pass /\ seen'.compared = compared /\ DOMAIN seen' = {"compared"}
        /\ DOMAIN counters' = {"pass", "candidate_pairs", "forward_equal_skipped"}
    BY <1>1, <1>4 DEF pass
  <1>8. LshCounters(job, counters', compared)
    <2>1. {l \in bucket : ForwardEqual(l, at)} = {l \in bucket : Skipped(job, l, at)}
      BY OfTheJob
    <2>2. /\ counters'.candidate_pairs = counters.candidate_pairs + Cardinality(bucket)
          /\ counters'.forward_equal_skipped
               = counters.forward_equal_skipped + Cardinality({l \in bucket : Skipped(job, l, at)})
      BY <1>1, <1>4, <2>1
    <2>. QED
      BY <1>1, <1>5, <1>6, <2>2, CountsTakeIn DEF compared
  <1>9. /\ ComparedSoFar(job, compared, pass, at + 1)
        /\ scored \subseteq Records(job) \X Records(job)
        /\ ScoredOf(job, compared) = scored \cup {<<l, at>> : l \in open}
    <2>1. /\ ComparedSoFar(job, seen.compared \cup Triples(bucket, pass, at), pass, at + 1)
          /\ ScoredOf(job, seen.compared) \subseteq Records(job) \X Records(job)
          /\ ScoredOf(job, seen.compared \cup Triples(bucket, pass, at))
               = ScoredOf(job, seen.compared) \cup {<<l, at>> : l \in {k \in bucket : ~Skipped(job, k, at)}}
      <3>. HIDE DEF scored, open
      <3>1. /\ job \in JobsOf(LshTools) /\ pass \in Nat \ {0} /\ at \in Records(job)
            /\ ComparedSoFar(job, seen.compared, pass, at) /\ bucket \subseteq Records(job)
            /\ CatchesEqual(job, bucket, at)
        BY <1>1, <1>5, <1>6
      <3>. HIDE DEF closer
      <3>. QED
        BY <3>1, ComparedTakesIn
    <2>. QED
      BY <2>1 DEF compared
  <1>. HIDE DEF scored
  <1>10. BestKept(job, outcomes', ScoredOf(job, compared))
    <2>1. closer = {l \in open : Nearer(Far(job, l, at), BoundOf(outcomes))}
      BY OfTheJob DEF Closer, BestDistance, BoundOf
    <2>2. open \subseteq Records(job)
      BY <1>6
    <2>. HIDE DEF open, closer
    <2>3. {k \in closer : \A m \in closer : ~Nearer(Distance(m, at), Distance(k, at))}
            = NearestOf(job, closer, at)
      BY OfTheJob DEF NearestOf
    <2>4. TakesNearest(job, outcomes, outcomes', closer, at)
      <3>1. CASE closer = {}
        BY <1>4, <3>1 DEF TakesNearest
      <3>2. CASE closer # {}
        <4>. DEFINE l == Min(NearestOf(job, closer, at))
        <4>1. outcomes' = << [distance |-> Distance(l, at), left |-> l, right |-> at,
                              exact |-> IF job.tool = "digest_lsh" THEN Distance(l, at)[1] = 0
                                        ELSE job.left[l].value = job.right[at].value] >>
          BY <1>4, <2>3, <3>2, Zenon
        <4>2. Distance(l, at) = Far(job, l, at)
          BY OfTheJob
        <4>. HIDE DEF l
        <4>3. outcomes' = << [distance |-> Far(job, l, at), left |-> l, right |-> at,
                              exact |-> IF job.tool = "digest_lsh" THEN Far(job, l, at)[1] = 0
                                        ELSE job.left[l].value = job.right[at].value] >>
          BY <4>1, <4>2
        <4>. QED
          BY <3>2, <4>3, Zenon DEF TakesNearest, l
      <3>. QED
        BY <3>1, <3>2
    <2>5. BestKept(job, outcomes', scored \cup {<<l, at>> : l \in open})
      <3>1. /\ job \in JobsOf(LshTools) /\ BestKept(job, outcomes, scored)
            /\ scored \subseteq Records(job) \X Records(job) /\ at \in Records(job)
        BY <1>1, <1>5, <1>9
      <3>. QED
        BY <3>1, <2>1, <2>2, <2>4, BestTakesIn
    <2>. QED
      BY <1>9, <2>5 DEF open
  <1>. QED
    BY <1>1, <1>3, <1>5, <1>7, <1>8, <1>9, <1>10 DEF LshInv

(* A pair of equal values among those scored: the pair kept is exact.      *)
LEMMA EqualIsReported ==
  ASSUME NEW jb \in JobsOf(LshTools), NEW best, NEW scored,
         scored \subseteq Records(jb) \X Records(jb), BestKept(jb, best, scored),
         NEW p \in scored, jb.left[p[1]].value = jb.right[p[2]].value
  PROVE  best # <<>> /\ best[1].exact
  <1>1. best # <<>>
    BY DEF BestKept
  <1>2. /\ <<best[1].left, best[1].right>> \in scored
        /\ best[1].distance = Far(jb, best[1].left, best[1].right)
        /\ best[1].exact <=> best[1].distance[1] = 0
        /\ ~Nearer(Far(jb, p[1], p[2]), best[1].distance)
    BY <1>1 DEF BestKept
  <1>3. /\ best[1].left \in Records(jb) /\ best[1].right \in Records(jb)
        /\ p[1] \in Records(jb) /\ p[2] \in Records(jb)
    BY <1>2
  <1>4. Far(jb, p[1], p[2])[1] = 0 /\ IsFar(Far(jb, p[1], p[2])) /\ IsFar(best[1].distance)
    BY <1>2, <1>3, LshJob
  <1>. QED
    BY <1>1, <1>2, <1>4 DEF IsFar, Nearer

(* At the end of a pass no pair of equal values is left out.               *)
LEMMA EqualAreScored ==
  ASSUME NEW jb \in JobsOf(LshTools), jb.wide, NEW compared, NEW pass,
         ComparedSoFar(jb, compared, pass, jb.limit), NEW best,
         BestKept(jb, best, ScoredOf(jb, compared)), Pairs(jb) # {}
  PROVE  best # <<>> /\ best[1].exact
  <1>1. PICK p \in Pairs(jb) : TRUE
    OBVIOUS
  <1>2. /\ p \in Records(jb) \X Records(jb)
        /\ jb.left[p[1]].value = jb.right[p[2]].value /\ ~Skipped(jb, p[1], p[2])
    BY <1>1 DEF Pairs
  <1>3. p = <<p[1], p[2]>> /\ p[1] \in Records(jb) /\ p[2] \in Records(jb)
    BY <1>2
  <1>4. p[2] < jb.limit
    BY <1>3, LshJob DEF Records
  <1>5. <<1, p[1], p[2]>> \in compared
    BY <1>2, <1>3, <1>4 DEF ComparedSoFar
  <1>6. p \in ScoredOf(jb, compared)
    <2>. DEFINE c == <<1, p[1], p[2]>>
    <2>1. c \in compared /\ c[2] = p[1] /\ c[3] = p[2]
      BY <1>5
    <2>2. <<c[2], c[3]>> \in ScoredOf(jb, compared)
      BY <1>2, <2>1 DEF ScoredOf
    <2>. QED
      BY <1>3, <2>1, <2>2
  <1>7. ScoredOf(jb, compared) \subseteq Records(jb) \X Records(jb)
    BY DEF ScoredOf, ComparedSoFar
  <1>. QED
    BY <1>2, <1>6, <1>7, EqualIsReported

LEMMA NextPassStep ==
  ASSUME LshInv, NextPass
  PROVE  LshInv'
  <1>. DEFINE pass == counters.pass
  <1>1. /\ job \in JobsOf(LshTools) /\ pass \in 1..Len(job.project)
        /\ DOMAIN counters = {"pass", "candidate_pairs", "forward_equal_skipped"}
        /\ DOMAIN seen = {"compared"}
        /\ ComparedSoFar(job, seen.compared, pass, at) /\ LshCounters(job, counters, seen.compared)
        /\ BestKept(job, outcomes, ScoredOf(job, seen.compared))
    BY DEF LshInv
  <1>2. /\ pc = "scan" /\ pc' = "scan" /\ job' = job /\ seen' = seen /\ outcomes' = outcomes
        /\ at = job.limit /\ at' = 0 /\ ~ExactPair /\ pass < Len(job.project)
        /\ counters' = [counters EXCEPT !.pass = @ + 1]
    BY DEF NextPass
  <1>3. job.limit \in Nat /\ Len(job.project) \in Nat
    BY <1>1, LshJob
  <1>4. /\ DOMAIN counters' = {"pass", "candidate_pairs", "forward_equal_skipped"}
        /\ counters'.pass = pass + 1 /\ counters'.candidate_pairs = counters.candidate_pairs
        /\ counters'.forward_equal_skipped = counters.forward_equal_skipped
    BY <1>1, <1>2
  <1>5. pass + 1 \in 1..Len(job.project) /\ at' \in 0..job.limit
    BY <1>1, <1>2, <1>3
  <1>6. LshCounters(job, counters', seen.compared)
    BY <1>1, <1>4 DEF LshCounters
  <1>7. job.wide => Pairs(job) = {}
    <2>1. ASSUME job.wide, Pairs(job) # {} PROVE FALSE
      <3>1. outcomes # <<>> /\ outcomes[1].exact
        BY <1>1, <1>2, <2>1, EqualAreScored
      <3>. QED
        BY <1>2, <3>1 DEF ExactPair
    <2>. QED
      BY <2>1
  <1>8. ComparedSoFar(job, seen.compared, pass + 1, 0)
    <2>. DEFINE compared == seen.compared
    <2>1. /\ IsFiniteSet(compared) /\ compared \subseteq (1..pass) \X Records(job) \X Records(job)
          /\ job.wide => \A l, r \in Records(job) :
               job.left[l].value = job.right[r].value /\ r < job.limit => <<1, l, r>> \in compared
      BY <1>1, <1>2 DEF ComparedSoFar
    <2>2. compared \subseteq (1..(pass + 1)) \X Records(job) \X Records(job)
      <3>1. 1..pass \subseteq 1..(pass + 1)
        BY <1>1
      <3>. QED
        BY <2>1, <3>1
    <2>3. \A c \in compared : c[1] < pass + 1
      BY <1>1, <2>1
    <2>4. \A r \in Records(job) : r < job.limit
      BY <1>3 DEF Records
    <2>. HIDE DEF compared, pass
    <2>5. ComparedSoFar(job, compared, pass + 1, 0)
      BY <2>1, <2>2, <2>3, <2>4 DEF ComparedSoFar
    <2>. QED
      BY <2>5 DEF compared
  <1>. QED
    BY <1>1, <1>2, <1>4, <1>5, <1>6, <1>7, <1>8 DEF LshInv

LEMMA LshStep ==
  ASSUME LshInv, [LshNext]_vars
  PROVE  LshInv'
  <1>1. CASE RefusePrefixes
    <2>1. /\ UNCHANGED <<job, at, seen, counters, outcomes>>
          /\ job.forward_equal = (job.tool = "digest_lsh")
      BY <1>1 DEF RefusePrefixes, Leave
    <2>2. job.forward_equal # (job.tool = "foldback_lsh")
      <3>1. job \in JobsOf(LshTools)
        BY DEF LshInv
      <3>2. job.tool \in {"digest_lsh", "foldback_lsh"}
        BY <3>1, LshJob DEF LshTools
      <3>. QED
        BY <2>1, <3>2
    <2>. QED
      BY <2>1, <2>2 DEF LshInv
  <1>2. CASE CompareRight
    BY <1>2, CompareStep
  <1>3. CASE NextPass
    BY <1>3, NextPassStep
  <1>4. CASE EndLsh
    <2>1. UNCHANGED <<job, at, seen, counters, outcomes>> /\ at = job.limit
      BY <1>4 DEF EndLsh, Leave
    <2>2. pc' = "error" => outcomes = <<>>
      BY <1>4 DEF EndLsh, Leave
    <2>. QED
      BY <2>1, <2>2 DEF LshInv
  <1>5. CASE UNCHANGED vars
    BY <1>5 DEF vars, LshInv
  <1>. QED
    BY <1>1, <1>2, <1>3, <1>4, <1>5 DEF LshNext

LEMMA LshIsExact ==
  ASSUME LshInv
  PROVE  LshExact
  <1>1. /\ job \in JobsOf(LshTools) /\ LshCounters(job, counters, seen.compared)
        /\ ComparedSoFar(job, seen.compared, counters.pass, at)
        /\ BestKept(job, outcomes, ScoredOf(job, seen.compared))
        /\ counters.pass > 1 /\ job.wide => Pairs(job) = {}
        /\ counters.pass \in 1..Len(job.project)
    BY DEF LshInv
  <1>2. NearestKept
    <2>. DEFINE scored == {<<c[2], c[3]>> : c \in {d \in seen.compared : ~ForwardEqual(d[2], d[3])}}
    <2>1. scored = ScoredOf(job, seen.compared)
      BY OfTheJob DEF ScoredOf
    <2>2. {c \in seen.compared : ForwardEqual(c[2], c[3])} = SkippedOf(job, seen.compared)
      BY OfTheJob DEF SkippedOf
    <2>3. /\ counters.candidate_pairs = Cardinality(seen.compared)
          /\ counters.forward_equal_skipped
               = Cardinality({c \in seen.compared : ForwardEqual(c[2], c[3])})
      BY <1>1, <2>2 DEF LshCounters
    <2>. HIDE DEF scored
    <2>4. /\ outcomes = <<>> <=> scored = {}
          /\ outcomes # <<>> =>
               /\ <<outcomes[1].left, outcomes[1].right>> \in scored
               /\ \A pair \in scored : ~Nearer(Distance(pair[1], pair[2]), outcomes[1].distance)
      BY <1>1, <2>1, OfTheJob DEF BestKept
    <2>. QED
      BY <2>3, <2>4, Zenon DEF NearestKept, scored
  <1>3. NoneEqualMissed
    <2>. SUFFICES ASSUME job.wide, EqualValues # {}, pc # "scan",
                         job.forward_equal = (job.tool = "foldback_lsh")
                  PROVE  LshExitCode = 1 /\ counters.pass = 1
      BY DEF NoneEqualMissed
    <2>1. Pairs(job) # {}
      BY OfTheJob
    <2>2. at = job.limit /\ (pc = "error" => outcomes = <<>>)
      BY DEF LshInv
    <2>3. outcomes # <<>> /\ outcomes[1].exact
      BY <1>1, <2>1, <2>2, EqualAreScored
    <2>4. counters.pass = 1
      <3>1. counters.pass \in Nat \ {0}
        BY <1>1, LshJob
      <3>. QED
        BY <1>1, <2>1, <3>1
    <2>. QED
      BY <2>2, <2>3, <2>4 DEF LshExitCode, ExactPair
  <1>. QED
    BY <1>2, <1>3 DEF LshExact

(* The projection searches keep the nearest of all pairs compared, count   *)
(* them exactly, and never miss a pair of equal values: when the digest or *)
(* the state is as long as the positions read, the first pass finds it.    *)
THEOREM NearestIsExact == LshSpec => []LshExact
  <1>1. LshInit => LshInv
    BY LshInitially
  <1>2. LshInv /\ [LshNext]_vars => LshInv'
    BY LshStep
  <1>3. LshInv => LshExact
    BY LshIsExact
  <1>. QED
    BY <1>1, <1>2, <1>3, PTL DEF LshSpec

-----------------------------------------------------------------------------
(* The divergent beam.                                                     *)

(* Distances are numbers.  TLC has no set of all messages to evaluate this *)
(* over, so it is a hypothesis of the theorem.                             *)
DistancesAreNumbers ==
  \A jb \in JobsOf({"divergent"}), l, r \in Seq(0..255) :
    DigestBitsOf(jb.hash, l, r) \in Nat /\ ForwardBitsOf(jb.hash, l, r) \in Nat

(* The order of the pairs.                                                 *)
ScoredPairs == [left : Seq(Nat), right : Seq(Nat), digest_bits : Nat, forward_bits : Nat]

LEMMA BeforeOfTwo ==
  ASSUME NEW a \in Nat, NEW b \in Nat, NEW c \in Nat, NEW d \in Nat
  PROVE  Before(<<a, b>>, <<c, d>>) <=> a < c \/ (a = c /\ b < d)
  <1>. DEFINE s == <<a, b>>
              t == <<c, d>>
  <1>1. /\ s \in Seq(Nat) /\ t \in Seq(Nat) /\ Len(s) = 2 /\ Len(t) = 2
        /\ s[1] = a /\ s[2] = b /\ t[1] = c /\ t[2] = d
    OBVIOUS
  <1>. HIDE DEF s, t
  <1>2. ASSUME NEW n \in Nat, Splits(s, t, n) PROVE a < c \/ (a = c /\ b < d)
    <2>1. n = 0 \/ n = 1
      BY <1>1, <1>2 DEF Splits
    <2>2. CASE n = 0
      BY <1>1, <1>2, <2>2 DEF Splits
    <2>3. CASE n = 1
      BY <1>1, <1>2, <2>3 DEF Splits, AgreeUpTo
    <2>. QED
      BY <2>1, <2>2, <2>3
  <1>3. ASSUME a < c PROVE Splits(s, t, 0)
    BY <1>1, <1>3 DEF Splits, AgreeUpTo
  <1>4. ASSUME a = c, b < d PROVE Splits(s, t, 1)
    BY <1>1, <1>4 DEF Splits, AgreeUpTo
  <1>5. Before(s, t) <=> a < c \/ (a = c /\ b < d)
    <2>1. 0 \in Nat /\ 1 \in Nat
      OBVIOUS
    <2>. QED
      BY <1>1, <1>2, <1>3, <1>4, <2>1, BeforeSplits
  <1>. QED
    BY <1>5 DEF s, t

LEMMA PairLessIs ==
  ASSUME NEW a \in ScoredPairs, NEW b \in ScoredPairs
  PROVE  PairLess(a, b) <=>
           \/ a.digest_bits < b.digest_bits
           \/ a.digest_bits = b.digest_bits /\ b.forward_bits < a.forward_bits
           \/ /\ a.digest_bits = b.digest_bits /\ a.forward_bits = b.forward_bits
              /\ Before(a.left, b.left) \/ (a.left = b.left /\ Before(a.right, b.right))
  <1>1. /\ a.digest_bits \in Nat /\ a.forward_bits \in Nat
        /\ b.digest_bits \in Nat /\ b.forward_bits \in Nat
    BY DEF ScoredPairs
  <1>2. Before(<<a.digest_bits, b.forward_bits>>, <<b.digest_bits, a.forward_bits>>)
          <=> a.digest_bits < b.digest_bits
                \/ (a.digest_bits = b.digest_bits /\ b.forward_bits < a.forward_bits)
    BY <1>1, BeforeOfTwo
  <1>. QED
    BY <1>2 DEF PairLess

PairOrder(S) == {p \in S \X S : PairLess(p[1], p[2])}

LEMMA PairsAreOrdered ==
  /\ \A a \in ScoredPairs : ~PairLess(a, a)
  /\ \A a, b, c \in ScoredPairs : PairLess(a, b) /\ PairLess(b, c) => PairLess(a, c)
  /\ \A a, b \in ScoredPairs : a # b => PairLess(a, b) \/ PairLess(b, a)
  /\ \A S \in SUBSET ScoredPairs : StrictlyOrders(PairOrder(S), S)
  <1>1. \A a \in ScoredPairs : /\ a.left \in Seq(Nat) /\ a.right \in Seq(Nat)
                               /\ a.digest_bits \in Nat /\ a.forward_bits \in Nat
    BY DEF ScoredPairs
  <1>2. \A a \in ScoredPairs : ~PairLess(a, a)
    BY <1>1, PairLessIs, VectorsAreOrdered
  <1>3. ASSUME NEW a \in ScoredPairs, NEW b \in ScoredPairs, NEW c \in ScoredPairs,
               PairLess(a, b), PairLess(b, c)
        PROVE  PairLess(a, c)
    <2>1. /\ Before(a.left, b.left) /\ Before(b.left, c.left) => Before(a.left, c.left)
          /\ Before(a.right, b.right) /\ Before(b.right, c.right) => Before(a.right, c.right)
      BY <1>1, VectorsAreOrdered
    <2>2. /\ \/ a.digest_bits < b.digest_bits
             \/ a.digest_bits = b.digest_bits /\ b.forward_bits < a.forward_bits
             \/ /\ a.digest_bits = b.digest_bits /\ a.forward_bits = b.forward_bits
                /\ Before(a.left, b.left) \/ (a.left = b.left /\ Before(a.right, b.right))
          /\ \/ b.digest_bits < c.digest_bits
             \/ b.digest_bits = c.digest_bits /\ c.forward_bits < b.forward_bits
             \/ /\ b.digest_bits = c.digest_bits /\ b.forward_bits = c.forward_bits
                /\ Before(b.left, c.left) \/ (b.left = c.left /\ Before(b.right, c.right))
      BY <1>3, PairLessIs
    <2>3. \/ a.digest_bits < c.digest_bits
          \/ a.digest_bits = c.digest_bits /\ c.forward_bits < a.forward_bits
          \/ /\ a.digest_bits = c.digest_bits /\ a.forward_bits = c.forward_bits
             /\ Before(a.left, c.left) \/ (a.left = c.left /\ Before(a.right, c.right))
      <3>1. /\ a.digest_bits \in Nat /\ b.digest_bits \in Nat /\ c.digest_bits \in Nat
            /\ a.forward_bits \in Nat /\ b.forward_bits \in Nat /\ c.forward_bits \in Nat
        BY <1>1
      <3>. QED
        BY <2>1, <2>2, <3>1
    <2>. QED
      BY <2>3, PairLessIs
  <1>4. ASSUME NEW a \in ScoredPairs, NEW b \in ScoredPairs, a # b
        PROVE  PairLess(a, b) \/ PairLess(b, a)
    <2>1. \/ a.left # b.left \/ a.right # b.right
          \/ a.digest_bits # b.digest_bits \/ a.forward_bits # b.forward_bits
      BY <1>4 DEF ScoredPairs
    <2>2. /\ a.left # b.left => Before(a.left, b.left) \/ Before(b.left, a.left)
          /\ a.right # b.right => Before(a.right, b.right) \/ Before(b.right, a.right)
      BY <1>1, VectorsAreOrdered
    <2>. QED
      BY <1>1, <2>1, <2>2, PairLessIs
  <1>5. ASSUME NEW S \in SUBSET ScoredPairs PROVE StrictlyOrders(PairOrder(S), S)
    <2>1. \A a, b \in S : <<a, b>> \in PairOrder(S) <=> PairLess(a, b)
      BY DEF PairOrder
    <2>2. \A a \in S : a \in ScoredPairs
      OBVIOUS
    <2>. QED
      BY <1>2, <1>3, <1>4, <2>1, <2>2 DEF StrictlyOrders
  <1>. QED
    BY <1>2, <1>3, <1>4, <1>5

LEMMA FirstArePairs ==
  ASSUME NEW S \in SUBSET ScoredPairs, IsFiniteSet(S), S # {}, NEW width \in Nat \ {0}
  PROVE  /\ FirstOf(S, PairLess, width) \in Seq(S)
         /\ Len(FirstOf(S, PairLess, width)) >= 1
         /\ \A c \in S : ~PairLess(c, FirstOf(S, PairLess, width)[1])
  <1>. DEFINE size == Cardinality(S)
              R == PairOrder(S)
              Place(x) == Cardinality({y \in S : PairLess(y, x)})
              Nth(n) == CHOOSE x \in S : Place(x) = n - 1
              list == [n \in 1..size |-> Nth(n)]
              first == FirstOf(S, PairLess, width)
  <1>1. StrictlyOrders(R, S)
    BY PairsAreOrdered
  <1>2. first = SubSeq(list, 1, Min({width, size}))
    BY Zenon DEF FirstOf, InOrder
  <1>. HIDE DEF first
  <1>3. \A x \in S : Place(x) = Rank(R, S, x)
    <2>1. \A x \in S : {y \in S : PairLess(y, x)} = Below(R, S, x)
      BY DEF Below, PairOrder
    <2>. QED
      BY <2>1, Zenon DEF Rank
  <1>. HIDE DEF Place
  <1>4. \A n \in 1..size : Nth(n) \in S /\ Place(Nth(n)) = n - 1
    <2>1. \A n \in 1..size : \E x \in S : Place(x) = n - 1
      <3>. HIDE DEF R
      <3>. QED
        BY <1>1, <1>3, EveryRankIsTaken DEF size
    <2>. QED
      BY <2>1
  <1>. HIDE DEF Nth, R
  <1>5. RankedBy(list, R, S)
    BY <1>3, <1>4 DEF RankedBy
  <1>. HIDE DEF list
  <1>6. FirstRanked(first, R, S, width)
    BY <1>1, <1>2, <1>5, FirstByRank
  <1>7. first \in Seq(S) /\ Len(first) >= 1 /\ \A x \in S : <<x, first[1]>> \notin R
    BY <1>6 DEF FirstRanked
  <1>8. ASSUME NEW c \in S PROVE ~PairLess(c, first[1])
    <2>1. first[1] \in S
      BY <1>7
    <2>. QED
      BY <1>7, <2>1 DEF R, PairOrder
  <1>. QED
    BY <1>7, <1>8 DEF first

-----------------------------------------------------------------------------
(* A palette has as many symbols as branches.                              *)
LEMMA SlicesDiffer ==
  ASSUME NEW branch \in 2..32, NEW m \in 0..(branch - 1), NEW n \in 0..(branch - 1), m < n
  PROVE  /\ (m * 256) \div branch \in 0..255 /\ (n * 256) \div branch \in 0..255
         /\ (m * 256) \div branch < (n * 256) \div branch
  <1>. DEFINE q == (m * 256) \div branch
              r == (m * 256) % branch
              t == (n * 256) \div branch
              u == (n * 256) % branch
  <1>1. /\ q \in Int /\ r \in 0..(branch - 1) /\ m * 256 = branch * q + r
        /\ t \in Int /\ u \in 0..(branch - 1) /\ n * 256 = branch * t + u
    OBVIOUS
  <1>. HIDE DEF q, r, t, u
  <1>2. branch * q > -branch /\ branch * t > -branch
    BY <1>1
  <1>3. branch * q <= 256 * (branch - 1) /\ branch * t <= 256 * (branch - 1)
    BY <1>1
  <1>4. q >= 0 /\ t >= 0
    BY <1>1, <1>2
  <1>5. q <= 255 /\ t <= 255
    BY <1>1, <1>3
  <1>6. branch * t > branch * q
    BY <1>1
  <1>7. q < t
    BY <1>1, <1>6
  <1>. QED
    BY <1>1, <1>4, <1>5, <1>7 DEF q, t

LEMMA PaletteIsFull ==
  ASSUME job.branch \in 2..32, NEW depth \in Nat, NEW salt \in Nat
  PROVE  /\ Palette(depth, salt) \subseteq 0..255 /\ IsFiniteSet(Palette(depth, salt))
         /\ Cardinality(Palette(depth, salt)) = job.branch
  <1>. DEFINE branch == job.branch
              places == 0..(branch - 1)
              shift == depth * 37 + salt
              Slice(n) == (n * 256) \div branch
              Shifted(n) == (Slice(n) + shift) % 256
              symbol == [n \in places |-> Shifted(n)]
  <1>1. branch \in 2..32 /\ depth * 37 \in Nat /\ shift \in Nat /\ shift = depth * 37 + salt
    OBVIOUS
  <1>. HIDE DEF branch, shift
  <1>2. ASSUME NEW n \in places PROVE Slice(n) \in 0..255
    <2>1. \E m \in places : m # n
      <3>1. 0 \in places /\ 1 \in places
        BY <1>1
      <3>. QED
        BY <3>1
    <2>2. PICK m \in places : m # n
      BY <2>1
    <2>3. m < n \/ n < m
      BY <1>1, <2>2
    <2>. QED
      BY <1>1, <2>3, SlicesDiffer
  <1>3. ASSUME NEW m \in places, NEW n \in places, m # n PROVE Slice(m) # Slice(n)
    <2>1. m < n \/ n < m
      BY <1>1, <1>3
    <2>2. Slice(m) < Slice(n) \/ Slice(n) < Slice(m)
      BY <1>1, <2>1, SlicesDiffer
    <2>. QED
      BY <1>2, <2>2
  <1>4. Palette(depth, salt) = {Shifted(n) : n \in places}
    <2>1. ASSUME NEW n \in places
          PROVE  Shifted(n) = (((n * 256) \div branch) + depth * 37 + salt) % 256
      <3>1. Slice(n) \in Int
        BY <1>2
      <3>. HIDE DEF Slice
      <3>2. Slice(n) + shift = Slice(n) + depth * 37 + salt
        BY <1>1, <3>1
      <3>. QED
        BY <3>2 DEF Slice
    <2>2. Palette(depth, salt)
            = {(((n * 256) \div branch) + depth * 37 + salt) % 256 : n \in places}
      BY Zenon DEF Palette, branch
    <2>. HIDE DEF Shifted, places
    <2>. QED
      BY <2>1, <2>2
  <1>. HIDE DEF Slice
  <1>5. ASSUME NEW n \in places PROVE Shifted(n) \in 0..255
    <2>1. Slice(n) + shift \in Int
      BY <1>1, <1>2
    <2>. QED
      BY <2>1
  <1>6. ASSUME NEW m \in places, NEW n \in places, m # n PROVE Shifted(m) # Shifted(n)
    <2>. DEFINE a == Slice(m)
                b == Slice(n)
    <2>1. a \in 0..255 /\ b \in 0..255 /\ a # b
      BY <1>2, <1>3, <1>6
    <2>. HIDE DEF a, b
    <2>2. (a + shift) % 256 # (b + shift) % 256
      BY <1>1, <2>1
    <2>. QED
      BY <2>2 DEF a, b
  <1>. HIDE DEF Shifted
  <1>7. IsFiniteSet(places) /\ Cardinality(places) = branch
    <2>1. 0 \in Int /\ branch - 1 \in Int /\ branch - 1 - 0 + 1 = branch /\ 0 <= branch - 1
      BY <1>1
    <2>2. IsFiniteSet(places) /\ Cardinality(places) = branch - 1 - 0 + 1
      BY <2>1, FS_Interval
    <2>. QED
      BY <2>1, <2>2
  <1>. HIDE DEF places
  <1>8. IsFiniteSet(Palette(depth, salt)) /\ Cardinality(Palette(depth, salt)) = branch
    <2>. DEFINE S == {Shifted(n) : n \in places}
    <2>1. symbol \in Bijection(places, S)
      BY <1>6 DEF Bijection, Injection, Surjection, IsInjective
    <2>. HIDE DEF S, symbol
    <2>2. ExistsBijection(places, S)
      BY <2>1 DEF ExistsBijection
    <2>3. IsFiniteSet(S) /\ Cardinality(S) = Cardinality(places)
      BY <1>7, <2>2, FS_Bijection
    <2>. QED
      BY <1>4, <1>7, <2>3 DEF S
  <1>. QED
    BY <1>4, <1>5, <1>8 DEF branch

-----------------------------------------------------------------------------
(* The beam.                                                               *)
ScoreOf(jb, left, right) ==
  [left |-> left, right |-> right,
   digest_bits |-> DigestBitsOf(jb.hash, left, right),
   forward_bits |-> ForwardBitsOf(jb.hash, left, right)]

(* A pair of a depth: as many symbols more, its score, and kept apart.     *)
IsPairOf(jb, depth, p) ==
  /\ p.left \in Seq(0..255) /\ Len(p.left) = Len(jb.left) + depth
  /\ p.right \in Seq(0..255) /\ Len(p.right) = Len(jb.left) + depth
  /\ p = ScoreOf(jb, p.left, p.right)
  /\ ForwardOf(jb.hash, p.left) # ForwardOf(jb.hash, p.right)

ScoredSoFar(jb, scored, depth) ==
  /\ IsFiniteSet(scored)
  /\ \A s \in scored : s = <<s[1], s[2]>> /\ s[1] \in 0..depth /\ IsPairOf(jb, s[1], s[2])

BeamOf(beam, scored, depth) ==
  /\ beam \in Seq({s[2] : s \in scored}) /\ Len(beam) >= 1
  /\ \A n \in 1..Len(beam) : <<depth, beam[n]>> \in scored
  /\ \A s \in scored : s[1] = depth => ~PairLess(s[2], beam[1])

LeastOf(best, scored) == best \in scored /\ \A s \in scored : ~PairLess(s[2], best[2])

DivergentInv ==
  /\ job \in JobsOf({"divergent"}) /\ at \in 0..job.depth
  /\ seen.beam = <<>> => at = 0 /\ pc # "done"
  /\ seen.beam # <<>> =>
       /\ ScoredSoFar(job, seen.scored, at)
       /\ BeamOf(seen.beam, seen.scored, at)
       /\ LeastOf(outcomes, seen.scored)
       /\ counters.cumulative_evaluated = Cardinality(seen.scored)
       /\ pc = "error" => ExpandedApart(at + 1) = {}

LEMMA DivergentJob ==
  ASSUME NEW jb \in JobsOf({"divergent"})
  PROVE  /\ jb.depth \in 1..32 /\ jb.beam_width \in 1..4096 /\ jb.branch \in 2..32
         /\ jb.left \in Seq(0..255) /\ jb.right \in Seq(0..255)
         /\ Len(jb.left) = Len(jb.right) /\ jb.tool = "divergent"
  BY DivergentJobsAssumption, JobsAssumption DEF JobsOf

LEMMA BeamsHaveRoom ==
  ASSUME NEW jb \in JobsOf({"divergent"})
  PROVE  jb.beam_width \in Nat \ {0}
  <1>. DEFINE width == jb.beam_width
  <1>1. width \in 1..4096
    BY DivergentJob
  <1>. HIDE DEF width
  <1>2. width \in Nat \ {0}
    BY <1>1
  <1>. QED
    BY <1>2 DEF width

LEMMA PairsAreScored ==
  ASSUME DistancesAreNumbers, NEW jb \in JobsOf({"divergent"}), NEW depth, NEW p,
         IsPairOf(jb, depth, p)
  PROVE  p \in ScoredPairs
  <1>1. p.left \in Seq(0..255) /\ p.right \in Seq(0..255) /\ p = ScoreOf(jb, p.left, p.right)
    BY DEF IsPairOf
  <1>. DEFINE l == p.left
              r == p.right
  <1>2. l \in Seq(Nat) /\ r \in Seq(Nat)
    <2>1. 0..255 \subseteq Nat
      OBVIOUS
    <2>. QED
      BY <1>1, <2>1, SeqMonotonic
  <1>3. DigestBitsOf(jb.hash, l, r) \in Nat /\ ForwardBitsOf(jb.hash, l, r) \in Nat
    BY <1>1 DEF DistancesAreNumbers
  <1>4. p = [left |-> l, right |-> r, digest_bits |-> DigestBitsOf(jb.hash, l, r),
             forward_bits |-> ForwardBitsOf(jb.hash, l, r)]
    BY <1>1 DEF ScoreOf
  <1>. HIDE DEF l, r
  <1>. QED
    BY <1>2, <1>3, <1>4 DEF ScoredPairs

LEMMA CountOfMessages ==
  ASSUME NEW jb \in JobsOf({"divergent"}), NEW scored, NEW depth \in Nat,
         ScoredSoFar(jb, scored, depth)
  PROVE  Cardinality({<<s[2].left, s[2].right>> : s \in scored}) = Cardinality(scored)
  <1>. DEFINE Messages(s) == <<s[2].left, s[2].right>>
              S == {Messages(s) : s \in scored}
              f == [s \in scored |-> Messages(s)]
  <1>1. ASSUME NEW s \in scored, NEW t \in scored, Messages(s) = Messages(t) PROVE s = t
    <2>1. s[2].left = t[2].left /\ s[2].right = t[2].right
      BY <1>1
    <2>2. /\ s = <<s[1], s[2]>> /\ s[1] \in Nat /\ IsPairOf(jb, s[1], s[2])
          /\ t = <<t[1], t[2]>> /\ t[1] \in Nat /\ IsPairOf(jb, t[1], t[2])
      BY DEF ScoredSoFar
    <2>3. s[2] = ScoreOf(jb, s[2].left, s[2].right) /\ t[2] = ScoreOf(jb, t[2].left, t[2].right)
      BY <2>2 DEF IsPairOf
    <2>4. s[2] = t[2]
      BY <2>1, <2>3
    <2>5. Len(jb.left) + s[1] = Len(jb.left) + t[1] /\ Len(jb.left) \in Nat
      BY <2>1, <2>2, DivergentJob, LenProperties DEF IsPairOf
    <2>6. s[1] = t[1]
      BY <2>2, <2>5
    <2>. QED
      BY <2>2, <2>4, <2>6
  <1>. HIDE DEF Messages
  <1>2. f \in Bijection(scored, S)
    BY <1>1 DEF Bijection, Injection, Surjection, IsInjective
  <1>. HIDE DEF f, S
  <1>3. ExistsBijection(scored, S)
    BY <1>2 DEF ExistsBijection
  <1>4. Cardinality(S) = Cardinality(scored)
    BY <1>3, FS_Bijection DEF ScoredSoFar
  <1>. QED
    BY <1>4 DEF S, Messages

(* What a depth is made of.                                                *)
LEMMA ExpandedPairs ==
  ASSUME job \in JobsOf({"divergent"}), at \in Nat, ScoredSoFar(job, seen.scored, at),
         BeamOf(seen.beam, seen.scored, at)
  PROVE  /\ IsFiniteSet(ExpandedApart(at + 1))
         /\ \A p \in ExpandedApart(at + 1) : IsPairOf(job, at + 1, p)
  <1>. DEFINE places == DOMAIN seen.beam
              lefts == Palette(at + 1, 19)
              rights == Palette(at + 1, 167)
              New(n, l, r) == Evaluated(Append(seen.beam[n].left, l), Append(seen.beam[n].right, r))
  <1>1. /\ lefts \subseteq 0..255 /\ IsFiniteSet(lefts)
        /\ rights \subseteq 0..255 /\ IsFiniteSet(rights)
    <2>1. at + 1 \in Nat /\ 19 \in Nat /\ 167 \in Nat /\ job.branch \in 2..32
      BY DivergentJob
    <2>. QED
      BY <2>1, PaletteIsFull
  <1>2. Len(seen.beam) \in Nat /\ places = 1..Len(seen.beam)
    BY LenProperties DEF BeamOf
  <1>3. ASSUME NEW p \in ExpandedApart(at + 1)
        PROVE  /\ \E n \in places, l \in lefts, r \in rights : p = New(n, l, r)
               /\ ForwardOf(job.hash, p.left) # ForwardOf(job.hash, p.right)
    BY DEF ExpandedApart
  <1>4. IsFiniteSet(ExpandedApart(at + 1))
    <2>. DEFINE keys == places \X (lefts \X rights)
                f == [k \in keys |-> New(k[1], k[2][1], k[2][2])]
                all == {f[k] : k \in keys}
    <2>1. IsFiniteSet(places)
      BY <1>2, FS_Interval
    <2>. HIDE DEF places, lefts, rights, New
    <2>2. IsFiniteSet(lefts \X rights)
      BY <1>1, FS_Product
    <2>3. IsFiniteSet(keys)
      BY <2>1, <2>2, FS_Product
    <2>4. f \in Surjection(keys, all)
      BY DEF Surjection
    <2>5. ASSUME NEW n \in places, NEW l \in lefts, NEW r \in rights PROVE New(n, l, r) \in all
      <3>1. <<n, <<l, r>>>> \in keys /\ f[<<n, <<l, r>>>>] = New(n, l, r)
        OBVIOUS
      <3>. QED
        BY <3>1
    <2>6. ExpandedApart(at + 1) \subseteq all
      <3>. HIDE DEF all
      <3>. QED
        BY <1>3, <2>5
    <2>. HIDE DEF keys, f, all
    <2>7. IsFiniteSet(all)
      BY <2>3, <2>4, FS_Surjection DEF ExistsSurjection
    <2>. QED
      BY <2>6, <2>7, FS_Subset
  <1>5. ASSUME NEW n \in places, NEW l \in lefts, NEW r \in rights,
               ForwardOf(job.hash, New(n, l, r).left) # ForwardOf(job.hash, New(n, l, r).right)
        PROVE  IsPairOf(job, at + 1, New(n, l, r))
    <2>. DEFINE a == seen.beam[n].left
                b == seen.beam[n].right
                p == New(n, l, r)
    <2>1. IsPairOf(job, at, seen.beam[n])
      <3>1. <<at, seen.beam[n]>> \in seen.scored
        BY DEF BeamOf
      <3>2. <<at, seen.beam[n]>>[1] = at /\ <<at, seen.beam[n]>>[2] = seen.beam[n]
        OBVIOUS
      <3>. QED
        BY <3>1, <3>2 DEF ScoredSoFar
    <2>2. /\ a \in Seq(0..255) /\ Len(a) = Len(job.left) + at
          /\ b \in Seq(0..255) /\ Len(b) = Len(job.left) + at
      BY <2>1 DEF IsPairOf
    <2>3. l \in 0..255 /\ r \in 0..255 /\ Len(job.left) \in Nat
      BY <1>1, DivergentJob, LenProperties
    <2>4. p = ScoreOf(job, Append(a, l), Append(b, r))
      BY DEF ScoreOf, Evaluated
    <2>5. p.left = Append(a, l) /\ p.right = Append(b, r)
      BY DEF Evaluated
    <2>. HIDE DEF a, b, New
    <2>6. /\ Append(a, l) \in Seq(0..255) /\ Len(Append(a, l)) = Len(job.left) + (at + 1)
          /\ Append(b, r) \in Seq(0..255) /\ Len(Append(b, r)) = Len(job.left) + (at + 1)
      <3>1. /\ Append(a, l) \in Seq(0..255) /\ Len(Append(a, l)) = Len(a) + 1
            /\ Append(b, r) \in Seq(0..255) /\ Len(Append(b, r)) = Len(b) + 1
        BY <2>2, <2>3, AppendProperties
      <3>2. \A size \in Nat : (size + at) + 1 = size + (at + 1)
        OBVIOUS
      <3>. QED
        BY <2>2, <2>3, <3>1, <3>2
    <2>. HIDE DEF p
    <2>7. IsPairOf(job, at + 1, p)
      BY <1>5, <2>4, <2>5, <2>6 DEF IsPairOf, p
    <2>. QED
      BY <2>7 DEF p
  <1>. HIDE DEF New, places, lefts, rights
  <1>6. \A p \in ExpandedApart(at + 1) : IsPairOf(job, at + 1, p)
    BY <1>3, <1>5
  <1>. QED
    BY <1>4, <1>6

(* One depth: what is scored, kept and reported from then on.              *)
(* A beam led by the best of the pairs a depth evaluated, and those pairs *)
(* joined with what was scored before.                                    *)
LedBy(jb, depth, expanded, beam) ==
  /\ IsFiniteSet(expanded) /\ expanded # {}
  /\ \A p \in expanded : IsPairOf(jb, depth, p)
  /\ beam \in Seq(expanded) /\ Len(beam) >= 1
  /\ \A p \in expanded : ~PairLess(p, beam[1])

Joined(scored, depth, expanded) == scored \cup {<<depth, p>> : p \in expanded}

LEMMA DepthTakesIn ==
  ASSUME DistancesAreNumbers, NEW jb \in JobsOf({"divergent"}), NEW depth \in Nat,
         NEW scored, ScoredSoFar(jb, scored, depth), NEW best, LeastOf(best, scored),
         NEW expanded, NEW beam, LedBy(jb, depth + 1, expanded, beam)
  PROVE  /\ ScoredSoFar(jb, Joined(scored, depth + 1, expanded), depth + 1)
         /\ BeamOf(beam, Joined(scored, depth + 1, expanded), depth + 1)
         /\ LeastOf(IF PairLess(beam[1], best[2]) THEN <<depth + 1, beam[1]>> ELSE best,
                    Joined(scored, depth + 1, expanded))
         /\ Cardinality(Joined(scored, depth + 1, expanded))
              = Cardinality(scored) + Cardinality(expanded)
  <1>. DEFINE more == Joined(scored, depth + 1, expanded)
  <1>. USE DEF LedBy
  <1>. DEFINE new == {<<depth + 1, p>> : p \in expanded}
  <1>1. IsFiniteSet(new) /\ Cardinality(new) = Cardinality(expanded)
    <2>. DEFINE f == [p \in expanded |-> <<depth + 1, p>>]
    <2>1. f \in Bijection(expanded, new)
      BY DEF Bijection, Injection, Surjection, IsInjective
    <2>. HIDE DEF f, new
    <2>2. ExistsBijection(expanded, new)
      BY <2>1 DEF ExistsBijection
    <2>. QED
      BY <2>2, FS_Bijection
  <1>2. scored \cap new = {}
    <2>1. ASSUME NEW s \in scored PROVE s \notin new
      <3>1. s[1] \in 0..depth
        BY DEF ScoredSoFar
      <3>. QED
        BY <3>1
    <2>. QED
      BY <2>1
  <1>3. \A s \in new : /\ s = <<s[1], s[2]>> /\ s[1] = depth + 1 /\ s[2] \in expanded
                       /\ IsPairOf(jb, s[1], s[2])
    OBVIOUS
  <1>4. \A p \in expanded : <<depth + 1, p>> \in new
    OBVIOUS
  <1>5. more = scored \cup new
    BY DEF Joined
  <1>. HIDE DEF new, more
  <1>6. Cardinality(more) = Cardinality(scored) + Cardinality(expanded) /\ IsFiniteSet(more)
    <2>1. IsFiniteSet(scored)
      BY DEF ScoredSoFar
    <2>2. Cardinality(scored \cup new) = Cardinality(scored) + Cardinality(new)
      BY <1>1, <1>2, <2>1, TwoParts
    <2>3. IsFiniteSet(scored \cup new)
      BY <1>1, <2>1, FS_Union
    <2>. QED
      BY <1>1, <1>5, <2>2, <2>3
  <1>7. ScoredSoFar(jb, more, depth + 1)
    <2>1. ASSUME NEW s \in more
          PROVE  s = <<s[1], s[2]>> /\ s[1] \in 0..(depth + 1) /\ IsPairOf(jb, s[1], s[2])
      <3>1. CASE s \in scored
        BY <3>1 DEF ScoredSoFar
      <3>2. CASE s \in new
        <4>1. depth + 1 \in 0..(depth + 1)
          OBVIOUS
        <4>. QED
          BY <1>3, <3>2, <4>1
      <3>. QED
        BY <1>5, <3>1, <3>2
    <2>. QED
      BY <1>6, <2>1 DEF ScoredSoFar
  <1>8. /\ \A p \in expanded : p \in ScoredPairs
        /\ \A s \in scored : s[2] \in ScoredPairs
    BY PairsAreScored DEF ScoredSoFar
  <1>9. /\ beam \in Seq(expanded) /\ Len(beam) >= 1
        /\ \A p \in expanded : ~PairLess(p, beam[1])
    OBVIOUS
  <1>10. beam[1] \in expanded /\ Len(beam) \in Nat
    BY <1>9, ElementOfSeq, LenProperties
  <1>11. BeamOf(beam, more, depth + 1)
    <2>1. beam \in Seq({s[2] : s \in more})
      <3>1. expanded \subseteq {s[2] : s \in more}
        <4>1. ASSUME NEW p \in expanded PROVE \E s \in more : p = s[2]
          <5>1. <<depth + 1, p>> \in more /\ <<depth + 1, p>>[2] = p
            BY <1>4, <1>5
          <5>. QED
            BY <5>1
        <4>. QED
          BY <4>1
      <3>. QED
        BY <1>9, <3>1, SeqMonotonic
    <2>2. \A n \in 1..Len(beam) : <<depth + 1, beam[n]>> \in more
      <3>1. \A n \in 1..Len(beam) : beam[n] \in expanded
        BY <1>9, ElementOfSeq
      <3>. QED
        BY <1>4, <1>5, <3>1
    <2>3. ASSUME NEW s \in more, s[1] = depth + 1 PROVE ~PairLess(s[2], beam[1])
      <3>1. s \notin scored
        <4>1. \A t \in scored : t[1] \in 0..depth
          BY DEF ScoredSoFar
        <4>. QED
          BY <2>3, <4>1
      <3>2. s[2] \in expanded
        BY <1>3, <1>5, <3>1
      <3>. QED
        BY <1>9, <3>2
    <2>. QED
      BY <1>9, <2>1, <2>2, <2>3 DEF BeamOf
  <1>12. LeastOf(IF PairLess(beam[1], best[2]) THEN <<depth + 1, beam[1]>> ELSE best, more)
    <2>1. best \in scored /\ \A s \in scored : ~PairLess(s[2], best[2])
      BY DEF LeastOf
    <2>2. best[2] \in ScoredPairs /\ beam[1] \in ScoredPairs
      BY <1>8, <1>10, <2>1
    <2>3. \A s \in more : s[2] \in ScoredPairs /\ (s \in scored \/ s[2] \in expanded)
      BY <1>3, <1>5, <1>8
    <2>4. CASE PairLess(beam[1], best[2])
      <3>1. <<depth + 1, beam[1]>> \in more /\ <<depth + 1, beam[1]>>[2] = beam[1]
        BY <1>4, <1>5, <1>10
      <3>2. ASSUME NEW s \in more PROVE ~PairLess(s[2], beam[1])
        <4>1. CASE s[2] \in expanded
          BY <1>9, <4>1
        <4>2. CASE s \in scored
          BY <2>1, <2>2, <2>3, <2>4, <4>2, PairsAreOrdered
        <4>. QED
          BY <2>3, <4>1, <4>2
      <3>. QED
        BY <2>4, <3>1, <3>2 DEF LeastOf
    <2>5. CASE ~PairLess(beam[1], best[2])
      <3>1. ASSUME NEW s \in more PROVE ~PairLess(s[2], best[2])
        <4>1. CASE s \in scored
          BY <2>1, <4>1
        <4>2. CASE s[2] \in expanded
          <5>1. beam[1] = best[2] \/ PairLess(best[2], beam[1])
            BY <2>2, <2>5, PairsAreOrdered
          <5>2. ~PairLess(s[2], beam[1]) /\ s[2] \in ScoredPairs
            BY <1>8, <1>9, <4>2
          <5>. QED
            BY <2>2, <5>1, <5>2, PairsAreOrdered
        <4>. QED
          BY <2>3, <4>1, <4>2
      <3>. QED
        BY <1>5, <2>1, <2>5, <3>1 DEF LeastOf
    <2>. QED
      BY <2>4, <2>5
  <1>. QED
    BY <1>6, <1>7, <1>11, <1>12 DEF more

LEMMA DepthStep ==
  ASSUME DistancesAreNumbers, DivergentInv, Depth
  PROVE  DivergentInv'
  <1>. DEFINE expanded == ExpandedApart(at + 1)
              more == seen.scored \cup {<<at + 1, pair>> : pair \in expanded}
  <1>1. /\ job \in JobsOf({"divergent"}) /\ at \in 0..job.depth
        /\ ScoredSoFar(job, seen.scored, at) /\ BeamOf(seen.beam, seen.scored, at)
        /\ LeastOf(outcomes, seen.scored)
        /\ counters.cumulative_evaluated = Cardinality(seen.scored)
        /\ pc = "scan" /\ at < job.depth
    BY DEF DivergentInv, Depth, Expanding, Tool
  <1>2. /\ job' = job /\ at' = at + 1 /\ pc' = pc /\ expanded # {}
        /\ seen' = [beam |-> FirstOf(expanded, PairLess, job.beam_width), scored |-> more]
        /\ counters' = [cumulative_evaluated |-> counters.cumulative_evaluated + Cardinality(expanded)]
        /\ outcomes' = IF PairLess(seen'.beam[1], outcomes[2]) THEN <<at + 1, seen'.beam[1]>> ELSE outcomes
    <2>1. job' = job /\ pc' = pc /\ at' = at + 1
      BY DEF Depth
    <2>2. outcomes' = IF PairLess(seen'.beam[1], outcomes[2]) THEN <<at', seen'.beam[1]>> ELSE outcomes
      BY DEF Depth
    <2>3. PICK e \in {ExpandedApart(at')} :
            /\ e # {}
            /\ seen' = [beam |-> FirstOf(e, PairLess, job.beam_width),
                        scored |-> seen.scored \cup {<<at', pair>> : pair \in e}]
            /\ counters' = [cumulative_evaluated |-> counters.cumulative_evaluated + Cardinality(e)]
      BY Zenon DEF Depth
    <2>4. e = expanded
      BY <2>1
    <2>. HIDE DEF expanded
    <2>. QED
      BY <2>1, <2>2, <2>3, <2>4
  <1>3. at \in Nat /\ job.depth \in Nat /\ at + 1 \in 0..job.depth
    <2>1. job.depth \in 1..32
      BY <1>1, DivergentJob
    <2>. QED
      BY <1>1, <2>1
  <1>4. IsFiniteSet(expanded) /\ \A p \in expanded : IsPairOf(job, at + 1, p)
    BY <1>1, <1>3, ExpandedPairs
  <1>. HIDE DEF expanded
  <1>5. /\ ScoredSoFar(job, more, at + 1)
        /\ BeamOf(seen'.beam, more, at + 1)
        /\ LeastOf(outcomes', more)
        /\ Cardinality(more) = Cardinality(seen.scored) + Cardinality(expanded)
    <2>1. seen'.beam = FirstOf(expanded, PairLess, job.beam_width)
      BY <1>2
    <2>. DEFINE beam == seen'.beam
    <2>2. LedBy(job, at + 1, expanded, beam)
      <3>1. expanded \in SUBSET ScoredPairs
        BY <1>1, <1>4, PairsAreScored
      <3>2. job.beam_width \in Nat \ {0}
        BY <1>1, BeamsHaveRoom
      <3>. QED
        BY <1>2, <1>4, <2>1, <3>1, <3>2, FirstArePairs, Zenon DEF LedBy
    <2>. HIDE DEF beam
    <2>3. outcomes' = IF PairLess(beam[1], outcomes[2]) THEN <<at + 1, beam[1]>> ELSE outcomes
      BY <1>2 DEF beam
    <2>. HIDE DEF more
    <2>4. more = Joined(seen.scored, at + 1, expanded)
      BY DEF more, Joined
    <2>5. /\ ScoredSoFar(job, more, at + 1)
          /\ BeamOf(beam, more, at + 1)
          /\ LeastOf(IF PairLess(beam[1], outcomes[2]) THEN <<at + 1, beam[1]>> ELSE outcomes, more)
          /\ Cardinality(more) = Cardinality(seen.scored) + Cardinality(expanded)
      <3>1. job \in JobsOf({"divergent"}) /\ at \in Nat /\ ScoredSoFar(job, seen.scored, at)
            /\ LeastOf(outcomes, seen.scored)
        BY <1>1, <1>3
      <3>. QED
        BY <2>2, <2>4, <3>1, DepthTakesIn
    <2>. QED
      BY <2>3, <2>5 DEF beam
  <1>6. seen'.scored = more /\ seen'.beam # <<>> /\ pc' = "scan"
    <2>1. seen'.beam # <<>>
      BY <1>5, EmptySeq DEF BeamOf
    <2>. QED
      BY <1>1, <1>2, <2>1
  <1>7. counters'.cumulative_evaluated = Cardinality(more)
    BY <1>1, <1>2, <1>5
  <1>. HIDE DEF more
  <1>. QED
    BY <1>1, <1>2, <1>3, <1>5, <1>6, <1>7 DEF DivergentInv

LEMMA SeedStarts ==
  ASSUME DistancesAreNumbers, DivergentInv, Seed
  PROVE  DivergentInv'
  <1>. DEFINE pair == Evaluated(job.left, job.right)
              scored == {<<0, pair>>}
              beam == <<pair>>
  <1>1. job \in JobsOf({"divergent"}) /\ at = 0 /\ at \in 0..job.depth /\ pc = "scan"
    BY DEF DivergentInv, Seed, Tool
  <1>2. /\ job' = job /\ at' = at /\ pc' = pc
        /\ ForwardOf(job.hash, job.left) # ForwardOf(job.hash, job.right)
        /\ seen' = [beam |-> beam, scored |-> scored] /\ outcomes' = <<0, pair>>
        /\ counters' = [cumulative_evaluated |-> 1]
    BY DEF Seed
  <1>3. IsPairOf(job, 0, pair)
    <2>1. /\ job.left \in Seq(0..255) /\ Len(job.left) = Len(job.left) + 0
          /\ job.right \in Seq(0..255) /\ Len(job.right) = Len(job.left) + 0
      BY <1>1, DivergentJob, LenProperties
    <2>2. pair = ScoreOf(job, job.left, job.right) /\ pair.left = job.left /\ pair.right = job.right
      BY DEF ScoreOf, Evaluated
    <2>. HIDE DEF pair
    <2>. QED
      BY <1>2, <2>1, <2>2 DEF IsPairOf
  <1>4. pair \in ScoredPairs
    BY <1>1, <1>3, PairsAreScored
  <1>. HIDE DEF pair
  <1>5. IsFiniteSet(scored) /\ Cardinality(scored) = 1
    BY FS_Singleton
  <1>6. ScoredSoFar(job, scored, 0)
    <2>1. \A s \in scored : s[1] = 0 /\ s[2] = pair /\ s = <<s[1], s[2]>>
      OBVIOUS
    <2>. HIDE DEF scored
    <2>. QED
      BY <1>3, <1>5, <2>1 DEF ScoredSoFar
  <1>7. BeamOf(beam, scored, 0)
    <2>1. beam \in Seq({s[2] : s \in scored}) /\ Len(beam) = 1 /\ beam[1] = pair
      OBVIOUS
    <2>2. ~PairLess(pair, pair)
      BY <1>4, PairsAreOrdered
    <2>3. \A s \in scored : s[2] = pair
      OBVIOUS
    <2>4. \A n \in 1..1 : n = 1
      OBVIOUS
    <2>5. <<0, pair>> \in scored
      OBVIOUS
    <2>. HIDE DEF beam, scored
    <2>. QED
      BY <2>1, <2>2, <2>3, <2>4, <2>5 DEF BeamOf
  <1>8. LeastOf(<<0, pair>>, scored)
    BY <1>4, PairsAreOrdered DEF LeastOf
  <1>9. seen'.scored = scored /\ seen'.beam = beam /\ beam # <<>> /\ pc' = "scan"
    BY <1>1, <1>2
  <1>. HIDE DEF scored, beam
  <1>. QED
    BY <1>1, <1>2, <1>5, <1>6, <1>7, <1>8, <1>9 DEF DivergentInv

LEMMA DivergentStep ==
  ASSUME DistancesAreNumbers, DivergentInv, [DivergentNext]_vars
  PROVE  DivergentInv'
  <1>1. CASE RefuseSeed
    BY <1>1 DEF RefuseSeed, Leave, DivergentInv
  <1>2. CASE Seed
    BY <1>2, SeedStarts
  <1>3. CASE Depth
    BY <1>3, DepthStep
  <1>4. CASE EmptyBeam
    <2>1. UNCHANGED <<job, at, seen, counters, outcomes>> /\ pc' = "error"
      BY <1>4 DEF EmptyBeam, Leave
    <2>2. seen.beam # <<>> /\ ExpandedApart(at + 1) = {}
      BY <1>4 DEF EmptyBeam, Expanding
    <2>3. ExpandedApart(at + 1)' = ExpandedApart(at + 1)
      BY <2>1 DEF ExpandedApart, Evaluated, Palette
    <2>. QED
      BY <2>1, <2>2, <2>3 DEF DivergentInv
  <1>5. CASE EndDivergent
    <2>1. UNCHANGED <<job, at, seen, counters, outcomes>> /\ pc' = "done" /\ seen.beam # <<>>
      BY <1>5 DEF EndDivergent, Leave
    <2>. QED
      BY <2>1 DEF DivergentInv
  <1>6. CASE UNCHANGED vars
    <2>1. UNCHANGED <<job, pc, at, seen, counters, outcomes>>
      BY <1>6 DEF vars
    <2>2. ExpandedApart(at + 1)' = ExpandedApart(at + 1)
      BY <2>1 DEF ExpandedApart, Evaluated, Palette
    <2>. QED
      BY <2>1, <2>2 DEF DivergentInv
  <1>. QED
    BY <1>1, <1>2, <1>3, <1>4, <1>5, <1>6 DEF DivergentNext

LEMMA DivergentIsExact ==
  ASSUME DistancesAreNumbers, DivergentInv
  PROVE  StaysDivergent
  <1>. SUFFICES ASSUME seen.beam # <<>>
                PROVE  /\ \A s \in seen.scored : Apart(s[2])
                       /\ counters.cumulative_evaluated
                            = Cardinality({<<s[2].left, s[2].right>> : s \in seen.scored})
                       /\ Cardinality(Palette(at, 19)) = job.branch
                       /\ Cardinality(Palette(at, 167)) = job.branch
                       /\ outcomes \in seen.scored
                       /\ \A s \in seen.scored : ~PairLess(s[2], outcomes[2])
                       /\ pc = "done" =>
                            (DivergentExitCode = 1 <=> \E s \in seen.scored : s[2].digest_bits = 0)
                       /\ pc = "error" =>
                            \A n \in DOMAIN seen.beam,
                               l \in Palette(at + 1, 19), r \in Palette(at + 1, 167) :
                              ForwardOf(job.hash, Append(seen.beam[n].left, l))
                                = ForwardOf(job.hash, Append(seen.beam[n].right, r))
    BY Zenon DEF StaysDivergent
  <1>1. /\ job \in JobsOf({"divergent"}) /\ at \in Nat
        /\ ScoredSoFar(job, seen.scored, at) /\ LeastOf(outcomes, seen.scored)
        /\ counters.cumulative_evaluated = Cardinality(seen.scored)
        /\ pc = "error" => ExpandedApart(at + 1) = {}
    BY DEF DivergentInv
  <1>2. \A s \in seen.scored : Apart(s[2])
    BY <1>1 DEF ScoredSoFar, IsPairOf, Apart
  <1>3. counters.cumulative_evaluated
          = Cardinality({<<s[2].left, s[2].right>> : s \in seen.scored})
    BY <1>1, CountOfMessages
  <1>4. Cardinality(Palette(at, 19)) = job.branch /\ Cardinality(Palette(at, 167)) = job.branch
    <2>1. job.branch \in 2..32 /\ 19 \in Nat /\ 167 \in Nat
      BY <1>1, DivergentJob
    <2>. QED
      BY <1>1, <2>1, PaletteIsFull
  <1>5. outcomes \in seen.scored /\ \A s \in seen.scored : ~PairLess(s[2], outcomes[2])
    BY <1>1 DEF LeastOf
  <1>6. ASSUME pc = "done"
        PROVE  DivergentExitCode = 1 <=> \E s \in seen.scored : s[2].digest_bits = 0
    <2>1. DivergentExitCode = 1 <=> outcomes[2].digest_bits = 0
      BY <1>6 DEF DivergentExitCode
    <2>2. ASSUME NEW s \in seen.scored, s[2].digest_bits = 0 PROVE outcomes[2].digest_bits = 0
      <3>1. s[2] \in ScoredPairs /\ outcomes[2] \in ScoredPairs
        BY <1>1, <1>5, PairsAreScored DEF ScoredSoFar
      <3>2. ~(s[2].digest_bits < outcomes[2].digest_bits)
        BY <1>5, <3>1, PairLessIs
      <3>3. outcomes[2].digest_bits \in Nat
        BY <3>1 DEF ScoredPairs
      <3>. QED
        BY <2>2, <3>2, <3>3
    <2>. QED
      BY <1>5, <2>1, <2>2
  <1>7. ASSUME pc = "error", NEW n \in DOMAIN seen.beam,
               NEW l \in Palette(at + 1, 19), NEW r \in Palette(at + 1, 167)
        PROVE  ForwardOf(job.hash, Append(seen.beam[n].left, l))
                 = ForwardOf(job.hash, Append(seen.beam[n].right, r))
    <2>. DEFINE p == Evaluated(Append(seen.beam[n].left, l), Append(seen.beam[n].right, r))
    <2>1. /\ p.left = Append(seen.beam[n].left, l)
          /\ p.right = Append(seen.beam[n].right, r)
      BY DEF Evaluated
    <2>2. p \notin ExpandedApart(at + 1)
      BY <1>1, <1>7
    <2>3. ForwardOf(job.hash, p.left) = ForwardOf(job.hash, p.right)
      BY <2>2 DEF ExpandedApart
    <2>. QED
      BY <2>1, <2>3
  <1>. QED
    BY <1>2, <1>3, <1>4, <1>5, <1>6, <1>7

(* The pairs of the beam never come to share a forward state, each is      *)
(* scored once, nothing scored is better than what is reported, and the    *)
(* exit code tells of equal digests, dropped pairs included: for any hash, *)
(* any seed, every depth, width and branching the options allow.           *)
THEOREM PairsStayApart ==
  ASSUME DistancesAreNumbers
  PROVE  DivergentSpec => []StaysDivergent
  <1>1. DivergentInit => DivergentInv
    <2>. SUFFICES ASSUME DivergentInit PROVE DivergentInv
      OBVIOUS
    <2>1. job \in JobsOf({"divergent"}) /\ at = 0 /\ seen.beam = <<>> /\ pc = "scan"
      BY DEF DivergentInit, Start
    <2>2. job.depth \in 1..32
      BY <2>1, DivergentJob
    <2>3. 0 \in 0..job.depth
      BY <2>2
    <2>. QED
      BY <2>1, <2>3 DEF DivergentInv
  <1>2. DivergentInv /\ [DivergentNext]_vars => DivergentInv'
    BY DivergentStep
  <1>3. DivergentInv => StaysDivergent
    BY DivergentIsExact
  <1>. QED
    BY <1>1, <1>2, <1>3, PTL DEF DivergentSpec

-----------------------------------------------------------------------------
(* The foldback of a message, symbol by symbol, and of two messages that   *)
(* differ in one byte: place is the symbol they differ in.                 *)
StatesOf(jb) == DOMAIN jb.absorb
SymbolsOf(jb) == DOMAIN jb.absorb[jb.start]
IsHash(jb) == jb.start \in StatesOf(jb) /\ IsStep(jb.absorb, StatesOf(jb), SymbolsOf(jb))

IsMessage(jb, message) ==
  message \in Seq(SymbolsOf(jb)) /\ Returns(message) \in Seq(SymbolsOf(jb))

ForwardBy(jb, message) == Runs(jb.absorb, jb.start, message)
BackTo(jb, message, k) == Runs(jb.absorb, ForwardBy(jb, message), SubSeq(Returns(message), 1, k))

SameReturns(left, right, place) ==
  \A k \in 1..Len(left) : k # place => Returns(left)[k] = Returns(right)[k]

OneApart(jb, left, right, place) ==
  /\ IsMessage(jb, left) /\ IsMessage(jb, right) /\ Len(left) = Len(right)
  /\ place \in 1..Len(left) /\ ForwardBy(jb, left) = ForwardBy(jb, right)
  /\ SameReturns(left, right, place)

LEMMA BackGoesOn ==
  ASSUME NEW jb, IsHash(jb), NEW m, IsMessage(jb, m)
  PROVE  /\ ForwardBy(jb, m) \in StatesOf(jb)
         /\ BackTo(jb, m, 0) = ForwardBy(jb, m)
         /\ \A k \in 0..Len(m) : BackTo(jb, m, k) \in StatesOf(jb)
         /\ \A k \in 1..Len(m) : BackTo(jb, m, k) = jb.absorb[BackTo(jb, m, k - 1)][Returns(m)[k]]
         /\ BackTo(jb, m, Len(m)) = Runs(jb.absorb, ForwardBy(jb, m), Returns(m))
  <1>. DEFINE S == StatesOf(jb)
              B == SymbolsOf(jb)
              back == Returns(m)
              forward == ForwardBy(jb, m)
  <1>1. IsStep(jb.absorb, S, B) /\ jb.start \in S /\ m \in Seq(B) /\ back \in Seq(B)
    BY DEF IsHash, IsMessage
  <1>2. Len(back) = Len(m) /\ Len(m) \in Nat
    <2>1. Len(m) \in Nat /\ DOMAIN m = 1..Len(m)
      BY <1>1, LenProperties
    <2>2. DOMAIN back = 1..Len(m)
      BY <2>1 DEF Returns
    <2>. HIDE DEF back
    <2>. QED
      BY <1>1, <2>1, <2>2, LenProperties
  <1>. HIDE DEF S, B
  <1>3. forward \in S
    BY <1>1, RunsInto DEF ForwardBy
  <1>. HIDE DEF back, forward
  <1>4. Runs(jb.absorb, forward, <<>>) = forward
    BY <1>1, <1>3, RunsNone DEF IsStep
  <1>5. SubSeq(back, 1, 0) = <<>> /\ SubSeq(back, 1, Len(m)) = back
    BY <1>1, <1>2, SubSeqFull
  <1>6. ASSUME NEW k \in 1..Len(m)
        PROVE  Runs(jb.absorb, forward, SubSeq(back, 1, k))
                 = jb.absorb[Runs(jb.absorb, forward, SubSeq(back, 1, k - 1))][back[k]]
    BY <1>1, <1>2, <1>3, RunsGoOn
  <1>7. ASSUME NEW k \in 0..Len(m) PROVE Runs(jb.absorb, forward, SubSeq(back, 1, k)) \in S
    <2>1. SubSeq(back, 1, k) \in Seq(B)
      <3>1. \A i \in 1..k : back[i] \in B
        BY <1>1, <1>2, ElementOfSeq
      <3>. QED
        BY <1>2, <3>1, SubSeqProperties
    <2>. QED
      BY <1>1, <1>3, <2>1, RunsInto
  <1>8. \A k : BackTo(jb, m, k) = Runs(jb.absorb, forward, SubSeq(back, 1, k))
    BY DEF BackTo, back, forward
  <1>. QED
    BY <1>3, <1>4, <1>5, <1>6, <1>7, <1>8 DEF back, forward, S

(* Up to that symbol they are one.                                         *)
LEMMA AlikeUntil ==
  ASSUME NEW jb, IsHash(jb), NEW l, NEW r, NEW place, OneApart(jb, l, r, place)
  PROVE  \A k \in 0..(place - 1) : BackTo(jb, l, k) = BackTo(jb, r, k)
  <1>. DEFINE good == {k \in Nat : BackTo(jb, l, k) = BackTo(jb, r, k)}
  <1>1. /\ IsMessage(jb, l) /\ IsMessage(jb, r) /\ Len(l) = Len(r) /\ place \in 1..Len(l)
        /\ ForwardBy(jb, l) = ForwardBy(jb, r)
        /\ Len(l) \in Nat
        /\ \A k \in 1..Len(l) : k # place => Returns(l)[k] = Returns(r)[k]
    BY LenProperties DEF OneApart, SameReturns, IsMessage
  <1>2. 0 \in good
    BY <1>1, BackGoesOn
  <1>3. ASSUME NEW k \in 1..(place - 1), k - 1 \in good PROVE k \in good
    <2>1. k \in Nat /\ k \in 1..Len(l) /\ k # place /\ Returns(l)[k] = Returns(r)[k]
      BY <1>1
    <2>2. /\ BackTo(jb, l, k) = jb.absorb[BackTo(jb, l, k - 1)][Returns(l)[k]]
          /\ BackTo(jb, r, k) = jb.absorb[BackTo(jb, r, k - 1)][Returns(r)[k]]
      BY <1>1, <2>1, BackGoesOn
    <2>. QED
      BY <1>3, <2>1, <2>2
  <1>4. place - 1 \in Nat
    BY <1>1
  <1>. HIDE DEF good
  <1>5. 0..(place - 1) \subseteq good
    BY <1>2, <1>3, <1>4, InductionUpTo
  <1>. QED
    BY <1>5 DEF good

(* Once they are one again they stay one.                                  *)
LEMMA AlikeBehind ==
  ASSUME NEW jb, IsHash(jb), NEW l, NEW r, NEW place, OneApart(jb, l, r, place),
         NEW from \in place..Len(l), BackTo(jb, l, from) = BackTo(jb, r, from)
  PROVE  \A k \in from..Len(l) : BackTo(jb, l, k) = BackTo(jb, r, k)
  <1>. DEFINE good == {k \in Nat : BackTo(jb, l, from + k) = BackTo(jb, r, from + k)}
              n == Len(l) - from
  <1>1. /\ IsMessage(jb, l) /\ IsMessage(jb, r) /\ Len(l) = Len(r) /\ place \in 1..Len(l)
        /\ Len(l) \in Nat
        /\ \A k \in 1..Len(l) : k # place => Returns(l)[k] = Returns(r)[k]
    BY LenProperties DEF OneApart, SameReturns, IsMessage
  <1>2. 0 \in good /\ n \in Nat
    <2>1. from + 0 = from /\ n \in Nat
      BY <1>1
    <2>. QED
      BY <2>1
  <1>3. ASSUME NEW k \in 1..n, k - 1 \in good PROVE k \in good
    <2>. DEFINE at_ == from + k
    <2>1. k \in Nat /\ at_ \in 1..Len(l) /\ at_ # place /\ at_ - 1 = from + (k - 1)
      BY <1>1
    <2>. HIDE DEF at_
    <2>2. Returns(l)[at_] = Returns(r)[at_]
      BY <1>1, <2>1
    <2>3. /\ BackTo(jb, l, at_) = jb.absorb[BackTo(jb, l, at_ - 1)][Returns(l)[at_]]
          /\ BackTo(jb, r, at_) = jb.absorb[BackTo(jb, r, at_ - 1)][Returns(r)[at_]]
      BY <1>1, <2>1, BackGoesOn
    <2>4. BackTo(jb, l, at_ - 1) = BackTo(jb, r, at_ - 1)
      BY <1>3, <2>1
    <2>5. BackTo(jb, l, at_) = BackTo(jb, r, at_)
      BY <2>2, <2>3, <2>4
    <2>. QED
      BY <2>1, <2>5 DEF at_
  <1>4. 0..n \subseteq good
    <2>. HIDE DEF good, n
    <2>. QED
      BY <1>2, <1>3, InductionUpTo
  <1>. SUFFICES ASSUME NEW k \in from..Len(l) PROVE BackTo(jb, l, k) = BackTo(jb, r, k)
    OBVIOUS
  <1>5. k - from \in 0..n /\ from + (k - from) = k
    BY <1>1
  <1>6. k - from \in good
    BY <1>4, <1>5
  <1>. QED
    BY <1>5, <1>6

LEMMA FoldedByBack ==
  ASSUME NEW jb, IsHash(jb), NEW m, IsMessage(jb, m)
  PROVE  FoldedBy(jb, m) = IF jb.enable_foldback THEN BackTo(jb, m, Len(m)) ELSE ForwardBy(jb, m)
  BY BackGoesOn DEF FoldedBy, ForwardBy

(* What meets at that symbol is one behind the foldback.                   *)
LEMMA MetStaysMet ==
  ASSUME NEW jb, IsHash(jb), NEW l, NEW r, NEW place, OneApart(jb, l, r, place),
         BackTo(jb, l, place) = BackTo(jb, r, place)
  PROVE  FoldedBy(jb, l) = FoldedBy(jb, r)
  <1>1. /\ IsMessage(jb, l) /\ IsMessage(jb, r) /\ Len(l) = Len(r) /\ place \in 1..Len(l)
        /\ ForwardBy(jb, l) = ForwardBy(jb, r) /\ Len(l) \in Nat
    BY LenProperties DEF OneApart, IsMessage
  <1>2. place \in place..Len(l) /\ Len(l) \in place..Len(l)
    BY <1>1
  <1>3. BackTo(jb, l, Len(l)) = BackTo(jb, r, Len(l))
    BY <1>2, AlikeBehind
  <1>. QED
    BY <1>1, <1>3, FoldedByBack

-----------------------------------------------------------------------------
(* The pairs of a job.                                                     *)
Returnable(jb, suffix) ==
  /\ suffix \in Seq(SymbolsOf(jb))
  /\ \A b \in SymbolsOf(jb), k \in 0..(Len(suffix) + 2) : ReturnSymbol(b, k) \in SymbolsOf(jb)

IsPair(jb, pair) ==
  /\ pair.left \in Seq(SymbolsOf(jb)) /\ pair.right \in Seq(SymbolsOf(jb))
  /\ Len(pair.left) = 3 /\ Len(pair.right) = 3 /\ pair.differing_index \in 1..2
  /\ \A n \in 1..3 : (pair.left[n] # pair.right[n]) <=> n = pair.differing_index + 1
  /\ ForwardBy(jb, pair.left) = ForwardBy(jb, pair.right)

LEMMA ThreeSymbols ==
  ASSUME NEW jb, IsHash(jb), NEW m \in Seq(SymbolsOf(jb)), Len(m) = 3
  PROVE  ForwardBy(jb, m) = jb.absorb[jb.absorb[jb.absorb[jb.start][m[1]]][m[2]]][m[3]]
  <1>. DEFINE S == StatesOf(jb)
              B == SymbolsOf(jb)
              R(k) == Runs(jb.absorb, jb.start, SubSeq(m, 1, k))
  <1>1. IsStep(jb.absorb, S, B) /\ jb.start \in S /\ m \in Seq(B)
    BY DEF IsHash
  <1>. HIDE DEF S, B
  <1>2. SubSeq(m, 1, 0) = <<>> /\ SubSeq(m, 1, 3) = m
    BY <1>1, SubSeqFull
  <1>3. R(0) = jb.start
    <2>1. Runs(jb.absorb, jb.start, <<>>) = jb.start
      BY <1>1, RunsNone DEF IsStep
    <2>. QED
      BY <1>2, <2>1
  <1>4. \A k \in 1..3 : R(k) = jb.absorb[R(k - 1)][m[k]]
    <2>. DEFINE absorb == jb.absorb
                start == jb.start
    <2>. HIDE DEF absorb, start
    <2>. SUFFICES ASSUME NEW k \in 1..3
                  PROVE  Runs(absorb, start, SubSeq(m, 1, k)) = absorb[Runs(absorb, start, SubSeq(m, 1, k - 1))][m[k]]
      BY DEF absorb, start
    <2>1. k \in 1..Len(m)
      OBVIOUS
    <2>2. IsStep(absorb, S, B) /\ start \in S
      BY <1>1 DEF absorb, start
    <2>. QED
      BY <1>1, <2>1, <2>2, RunsGoOn
  <1>5. R(3) = ForwardBy(jb, m)
    BY <1>2 DEF ForwardBy
  <1>. HIDE DEF R
  <1>6. R(1) = jb.absorb[R(0)][m[1]] /\ R(2) = jb.absorb[R(1)][m[2]] /\ R(3) = jb.absorb[R(2)][m[3]]
    <2>1. 1 \in 1..3 /\ 2 \in 1..3 /\ 3 \in 1..3 /\ 1 - 1 = 0 /\ 2 - 1 = 1 /\ 3 - 1 = 2
      OBVIOUS
    <2>. QED
      BY <1>4, <2>1
  <1>. QED
    BY <1>3, <1>5, <1>6

LEMMA PairJob ==
  ASSUME NEW jb \in JobsOf(PairTools)
  PROVE  /\ IsHash(jb) /\ Len(jb.pairs) \in Nat /\ Len(jb.suffixes) \in Nat
         /\ (jb.tool # "aware" => Len(jb.suffixes) # 0)
         /\ jb.enable_foldback \in BOOLEAN
         /\ \A p \in 1..Len(jb.pairs) : IsPair(jb, jb.pairs[p])
         /\ \A n \in 1..Len(jb.suffixes) : Returnable(jb, jb.suffixes[n])
         /\ Returnable(jb, <<>>)
  <1>. DEFINE S == DOMAIN jb.absorb
              B == DOMAIN jb.absorb[jb.start]
              Third(m) == jb.absorb[jb.absorb[jb.absorb[jb.start][m[1]]][m[2]]][m[3]]
              R == [left : Seq(B), right : Seq(B), differing_index : 1..2]
  <1>1. /\ jb.start \in S /\ IsStep(jb.absorb, S, B)
        /\ jb.pairs \in Seq(R) /\ jb.suffixes \in Seq(Seq(B))
        /\ \A pair \in ToSet(jb.pairs) : Third(pair.left) = Third(pair.right)
        /\ \A suffix \in ToSet(jb.suffixes), b \in B :
             \A k \in 0..(Len(suffix) + 2) : ReturnSymbol(b, k) \in B
    BY PairHashesAssumption DEF IsStep, PairsOfHash
  <1>2. /\ jb.enable_foldback \in BOOLEAN /\ (jb.tool # "aware" => jb.suffixes # <<>>)
        /\ \A pair \in ToSet(jb.pairs) :
             /\ Len(pair.left) = 3 /\ Len(pair.right) = 3 /\ pair.differing_index \in 1..2
             /\ \A n \in 1..3 : (pair.left[n] # pair.right[n]) <=> n = pair.differing_index + 1
    BY PairJobsAssumption DEF OneByteApart
  <1>3. StatesOf(jb) = S /\ SymbolsOf(jb) = B
    BY DEF StatesOf, SymbolsOf
  <1>4. IsHash(jb)
    BY <1>1, <1>3 DEF IsHash
  <1>. HIDE DEF S, B
  <1>5. Len(jb.pairs) \in Nat /\ Len(jb.suffixes) \in Nat /\ (jb.tool # "aware" => Len(jb.suffixes) # 0)
    BY <1>1, <1>2, LenProperties, EmptySeq
  <1>6. ASSUME NEW p \in 1..Len(jb.pairs) PROVE IsPair(jb, jb.pairs[p])
    <2>. DEFINE pair == jb.pairs[p]
    <2>1. pair \in ToSet(jb.pairs) /\ pair \in R
      BY <1>1, <1>5, LenProperties, ElementOfSeq DEF ToSet
    <2>. HIDE DEF pair
    <2>2. pair.left \in Seq(SymbolsOf(jb)) /\ pair.right \in Seq(SymbolsOf(jb))
      BY <1>3, <2>1
    <2>3. ForwardBy(jb, pair.left) = ForwardBy(jb, pair.right)
      <3>1. Len(pair.left) = 3 /\ Len(pair.right) = 3
        BY <1>2, <2>1
      <3>2. ForwardBy(jb, pair.left) = Third(pair.left) /\ ForwardBy(jb, pair.right) = Third(pair.right)
        BY <1>4, <2>2, <3>1, ThreeSymbols
      <3>3. Third(pair.left) = Third(pair.right)
        BY <1>1, <2>1
      <3>. QED
        BY <3>2, <3>3
    <2>4. IsPair(jb, pair)
      BY <1>2, <2>1, <2>2, <2>3 DEF IsPair
    <2>. QED
      BY <2>4 DEF pair
  <1>7. ASSUME NEW n \in 1..Len(jb.suffixes) PROVE Returnable(jb, jb.suffixes[n])
    <2>. DEFINE suffix == jb.suffixes[n]
    <2>1. suffix \in ToSet(jb.suffixes) /\ suffix \in Seq(B)
      BY <1>1, <1>5, LenProperties, ElementOfSeq DEF ToSet
    <2>. HIDE DEF suffix
    <2>2. Returnable(jb, suffix)
      BY <1>1, <1>3, <2>1 DEF Returnable
    <2>. QED
      BY <2>2 DEF suffix
  <1>8. Returnable(jb, <<>>)
    <2>1. \A b \in B, k \in 0..2 : ReturnSymbol(b, k) \in B
      BY <1>3, PairHashesAssumption DEF SymbolsOf
    <2>2. <<>> \in Seq(B) /\ Len(<<>>) = 0
      BY EmptySeq
    <2>. QED
      BY <1>3, <2>1, <2>2 DEF Returnable
  <1>. QED
    BY <1>2, <1>4, <1>5, <1>6, <1>7, <1>8

(* The place in the foldback at which the messages of a pair differ.       *)
PlaceOf(pair, suffix) == Len(suffix) + 3 - pair.differing_index

LEMMA ThreeInFront ==
  ASSUME NEW B, NEW three \in Seq(B), Len(three) = 3, NEW rest \in Seq(B)
  PROVE  /\ three \o rest \in Seq(B) /\ Len(three \o rest) = Len(rest) + 3
         /\ \A n \in 1..3 : (three \o rest)[n] = three[n]
         /\ \A n \in 4..(Len(rest) + 3) : (three \o rest)[n] = rest[n - 3]
  <1>. DEFINE all == three \o rest
  <1>1. /\ all \in Seq(B) /\ Len(all) = Len(three) + Len(rest)
        /\ \A i \in 1..(Len(three) + Len(rest)) :
             all[i] = IF i <= Len(three) THEN three[i] ELSE rest[i - Len(three)]
    BY ConcatProperties
  <1>2. Len(rest) \in Nat
    BY LenProperties
  <1>. HIDE DEF all
  <1>3. /\ all \in Seq(B) /\ Len(all) = Len(rest) + 3
        /\ \A n \in 1..3 : all[n] = three[n]
        /\ \A n \in 4..(Len(rest) + 3) : all[n] = rest[n - 3]
    BY <1>1, <1>2
  <1>. QED
    BY <1>3 DEF all

LEMMA PairBehind ==
  ASSUME NEW jb, IsHash(jb), NEW pair, IsPair(jb, pair), NEW suffix, Returnable(jb, suffix)
  PROVE  /\ OneApart(jb, pair.left \o suffix, pair.right \o suffix, PlaceOf(pair, suffix))
         /\ Len(pair.left \o suffix) = Len(suffix) + 3 /\ Len(suffix) \in Nat
         /\ \A n \in 1..3 :
              /\ Returns(pair.left \o suffix)[Len(suffix) + 4 - n] = ReturnSymbol(pair.left[n], n - 1)
              /\ Returns(pair.right \o suffix)[Len(suffix) + 4 - n] = ReturnSymbol(pair.right[n], n - 1)
         /\ ForwardBy(jb, pair.left \o suffix) = Runs(jb.absorb, ForwardBy(jb, pair.left), suffix)
  <1>. DEFINE B == SymbolsOf(jb)
              s == Len(suffix)
              l == pair.left \o suffix
              r == pair.right \o suffix
              d == pair.differing_index
  <1>1. /\ pair.left \in Seq(B) /\ pair.right \in Seq(B) /\ Len(pair.left) = 3 /\ Len(pair.right) = 3
        /\ suffix \in Seq(B) /\ s \in Nat /\ d \in 1..2
        /\ \A n \in 1..3 : (pair.left[n] # pair.right[n]) <=> n = d + 1
        /\ \A b \in B, k \in 0..(s + 2) : ReturnSymbol(b, k) \in B
        /\ jb.start \in StatesOf(jb) /\ IsStep(jb.absorb, StatesOf(jb), B)
    BY LenProperties DEF IsPair, Returnable, IsHash
  <1>. HIDE DEF B
  <1>2. /\ l \in Seq(B) /\ Len(l) = s + 3 /\ \A n \in 1..3 : l[n] = pair.left[n]
        /\ \A n \in 4..(s + 3) : l[n] = suffix[n - 3]
    BY <1>1, ThreeInFront
  <1>3. /\ r \in Seq(B) /\ Len(r) = s + 3 /\ \A n \in 1..3 : r[n] = pair.right[n]
        /\ \A n \in 4..(s + 3) : r[n] = suffix[n - 3]
    BY <1>1, ThreeInFront
  <1>4. ForwardBy(jb, l) = Runs(jb.absorb, ForwardBy(jb, pair.left), suffix)
    BY <1>1, RunsJoin DEF ForwardBy
  <1>5. ForwardBy(jb, r) = Runs(jb.absorb, ForwardBy(jb, pair.right), suffix)
    BY <1>1, RunsJoin DEF ForwardBy
  <1>6. ForwardBy(jb, l) = ForwardBy(jb, r)
    BY <1>4, <1>5 DEF IsPair
  <1>. HIDE DEF l, r, s, d
  <1>7. \A k \in 1..(s + 3) :
          /\ Returns(l)[k] = ReturnSymbol(l[s + 4 - k], s + 3 - k)
          /\ Returns(r)[k] = ReturnSymbol(r[s + 4 - k], s + 3 - k)
    <2>1. DOMAIN l = 1..(s + 3) /\ DOMAIN r = 1..(s + 3)
      BY <1>1, <1>2, <1>3, LenProperties
    <2>3. /\ Returns(l) = [k \in 1..(s + 3) |-> ReturnSymbol(l[(s + 3) + 1 - k], (s + 3) - k)]
          /\ Returns(r) = [k \in 1..(s + 3) |-> ReturnSymbol(r[(s + 3) + 1 - k], (s + 3) - k)]
      BY <1>2, <1>3, <2>1, Zenon DEF Returns
    <2>. SUFFICES ASSUME NEW k \in 1..(s + 3)
                  PROVE  /\ Returns(l)[k] = ReturnSymbol(l[s + 4 - k], s + 3 - k)
                         /\ Returns(r)[k] = ReturnSymbol(r[s + 4 - k], s + 3 - k)
      OBVIOUS
    <2>4. /\ Returns(l)[k] = ReturnSymbol(l[(s + 3) + 1 - k], (s + 3) - k)
          /\ Returns(r)[k] = ReturnSymbol(r[(s + 3) + 1 - k], (s + 3) - k)
      BY <2>3
    <2>5. (s + 3) + 1 - k = s + 4 - k /\ (s + 3) - k = s + 3 - k
      BY <1>1
    <2>. QED
      BY <2>4, <2>5
  <1>8. Returns(l) \in Seq(B) /\ Returns(r) \in Seq(B)
    <2>1. \A k \in 1..(s + 3) : s + 4 - k \in 1..(s + 3) /\ s + 3 - k \in 0..(s + 2)
      BY <1>1
    <2>2. \A k \in 1..(s + 3) : l[s + 4 - k] \in B /\ r[s + 4 - k] \in B
      BY <1>2, <1>3, <2>1, ElementOfSeq
    <2>3. \A k \in 1..(s + 3) : Returns(l)[k] \in B /\ Returns(r)[k] \in B
      BY <1>1, <1>7, <2>1, <2>2
    <2>4. Returns(l) = [k \in 1..(s + 3) |-> Returns(l)[k]] /\ Returns(r) = [k \in 1..(s + 3) |-> Returns(r)[k]]
      <3>1. DOMAIN l = 1..(s + 3) /\ DOMAIN r = 1..(s + 3)
        BY <1>1, <1>2, <1>3, LenProperties
      <3>. QED
        BY <3>1 DEF Returns
    <2>5. s + 3 \in Nat
      BY <1>1
    <2>. QED
      BY <2>3, <2>4, <2>5, IsASeq
  <1>9. SameReturns(l, r, s + 3 - d)
    <2>. SUFFICES ASSUME NEW k \in 1..(s + 3), k # s + 3 - d PROVE Returns(l)[k] = Returns(r)[k]
      BY <1>2 DEF SameReturns
    <2>1. s + 4 - k \in 1..(s + 3) /\ s + 4 - k # d + 1
      BY <1>1
    <2>2. CASE s + 4 - k \in 1..3
      <3>1. l[s + 4 - k] = r[s + 4 - k]
        BY <1>1, <1>2, <1>3, <2>1, <2>2
      <3>. QED
        BY <1>7, <3>1
    <2>3. CASE s + 4 - k \in 4..(s + 3)
      <3>1. l[s + 4 - k] = r[s + 4 - k]
        BY <1>2, <1>3, <2>3
      <3>. QED
        BY <1>7, <3>1
    <2>. QED
      BY <1>1, <2>1, <2>2, <2>3
  <1>10. s + 3 - d \in 1..(s + 3)
    BY <1>1
  <1>11. PlaceOf(pair, suffix) = s + 3 - d
    BY DEF PlaceOf, s, d
  <1>12. OneApart(jb, l, r, s + 3 - d)
    BY <1>2, <1>3, <1>6, <1>8, <1>9, <1>10 DEF OneApart, IsMessage, B
  <1>13. \A n \in 1..3 :
           /\ Returns(l)[s + 4 - n] = ReturnSymbol(pair.left[n], n - 1)
           /\ Returns(r)[s + 4 - n] = ReturnSymbol(pair.right[n], n - 1)
    <2>. SUFFICES ASSUME NEW n \in 1..3
                  PROVE  /\ Returns(l)[s + 4 - n] = ReturnSymbol(pair.left[n], n - 1)
                         /\ Returns(r)[s + 4 - n] = ReturnSymbol(pair.right[n], n - 1)
      OBVIOUS
    <2>. DEFINE k == s + 4 - n
    <2>1. k \in 1..(s + 3) /\ s + 4 - k = n /\ s + 3 - k = n - 1
      BY <1>1
    <2>. HIDE DEF k
    <2>2. Returns(l)[k] = ReturnSymbol(l[n], n - 1) /\ Returns(r)[k] = ReturnSymbol(r[n], n - 1)
      BY <1>7, <2>1
    <2>3. l[n] = pair.left[n] /\ r[n] = pair.right[n]
      BY <1>2, <1>3
    <2>. QED
      BY <2>2, <2>3 DEF k
  <1>. QED
    BY <1>1, <1>2, <1>4, <1>11, <1>12, <1>13 DEF l, r, s, d

-----------------------------------------------------------------------------
(* Numbers of pairs and of suffixes.                                       *)
(* The suffixes of a pair follow one another.                              *)
LEMMA NextPlace ==
  ASSUME NEW n \in Nat, NEW d \in Nat \ {0}
  PROVE  (n + 1) \div d = (n \div d) + Count((n + 1) % d = 0)
  <1>. DEFINE q == n \div d
              r == n % d
  <1>1. q \in Nat /\ r \in 0..(d - 1) /\ n = d * q + r
    BY Divides
  <1>. HIDE DEF q, r
  <1>2. CASE r = d - 1
    <2>1. n + 1 = d * (q + 1) + 0
      BY <1>1, <1>2
    <2>2. (d * (q + 1) + 0) \div d = q + 1 /\ (d * (q + 1) + 0) % d = 0
      <3>1. q + 1 \in Nat /\ 0 \in 0..(d - 1)
        BY <1>1
      <3>. QED
        BY <3>1, QuotientIs
    <2>. QED
      BY <2>1, <2>2 DEF Count, q
  <1>3. CASE r # d - 1
    <2>1. n + 1 = d * q + (r + 1) /\ r + 1 \in 0..(d - 1) /\ r + 1 # 0
      BY <1>1, <1>3
    <2>2. (d * q + (r + 1)) \div d = q /\ (d * q + (r + 1)) % d = r + 1
      BY <1>1, <2>1, QuotientIs
    <2>. QED
      BY <1>1, <2>1, <2>2 DEF Count, q
  <1>. QED
    BY <1>2, <1>3

LEMMA LastPlace ==
  ASSUME NEW p \in Nat, NEW d \in Nat \ {0}, NEW n \in 0..(p * d - 1), n % d = 0
  PROVE  /\ n + d - 1 \in 0..(p * d - 1)
         /\ (n + d - 1) \div d = n \div d /\ ((n + d - 1) + 1) % d = 0
  <1>. DEFINE q == n \div d
  <1>1. q \in 0..(p - 1) /\ n \in Nat
    BY PlaceInTable
  <1>2. n = d * q
    BY <1>1, Divides
  <1>. HIDE DEF q
  <1>3. n + d - 1 = d * q + (d - 1) /\ d - 1 \in 0..(d - 1)
    BY <1>2
  <1>4. (d * q + (d - 1)) \div d = q
    BY <1>1, <1>3, QuotientIs
  <1>5. (n + d - 1) + 1 = d * (q + 1) + 0
    BY <1>1, <1>2
  <1>6. (d * (q + 1) + 0) % d = 0
    <2>1. q + 1 \in Nat /\ 0 \in 0..(d - 1)
      BY <1>1
    <2>. QED
      BY <2>1, QuotientIs
  <1>7. n + d - 1 \in 0..(p * d - 1)
    <2>1. PICK c \in Nat : p = q + 1 + c
      <3>1. p - q - 1 \in Nat /\ p = q + 1 + (p - q - 1)
        BY <1>1
      <3>. QED
        BY <3>1
    <2>2. p * d = d * q + d + c * d /\ c * d >= 0
      BY <1>1, <2>1
    <2>. QED
      BY <1>1, <1>2, <2>2
  <1>. QED
    BY <1>3, <1>4, <1>5, <1>6, <1>7 DEF q

(* A set of numbers as far as k, and the least of some distances.          *)
UpTo(S, k) == {n \in 0..(k - 1) : n \in S}

LEMMA OneMoreIn ==
  ASSUME NEW S, NEW k \in Nat
  PROVE  /\ UpTo(S, 0) = {} /\ Cardinality(UpTo(S, 0)) = 0
         /\ IsFiniteSet(UpTo(S, k)) /\ Cardinality(UpTo(S, k)) \in Nat
         /\ Cardinality(UpTo(S, k + 1)) = Cardinality(UpTo(S, k)) + Count(k \in S)
         /\ k \notin S => UpTo(S, k + 1) = UpTo(S, k)
  <1>1. UpTo(S, 0) = {} /\ Cardinality({}) = 0
    BY FS_EmptySet DEF UpTo
  <1>2. IsFiniteSet(UpTo(S, k)) /\ Cardinality(UpTo(S, k)) \in Nat
    <2>1. k - 1 \in Int
      OBVIOUS
    <2>2. IsFiniteSet(0..(k - 1))
      BY <2>1, FS_Interval
    <2>3. UpTo(S, k) \subseteq 0..(k - 1)
      BY DEF UpTo
    <2>. QED
      BY <2>2, <2>3, FS_Subset, FS_CardinalityType
  <1>3. 0..((k + 1) - 1) = (0..(k - 1)) \cup {k} /\ k \notin 0..(k - 1)
    OBVIOUS
  <1>4. CASE k \in S
    <2>1. UpTo(S, k + 1) = UpTo(S, k) \cup {k} /\ k \notin UpTo(S, k)
      BY <1>3, <1>4 DEF UpTo
    <2>2. Cardinality(UpTo(S, k) \cup {k}) = Cardinality(UpTo(S, k)) + 1
      BY <1>2, <2>1, FS_AddElement
    <2>. QED
      BY <1>1, <1>2, <1>4, <2>1, <2>2 DEF Count
  <1>5. CASE k \notin S
    <2>1. UpTo(S, k + 1) = UpTo(S, k)
      BY <1>3, <1>5 DEF UpTo
    <2>2. Count(k \in S) = 0
      BY <1>5 DEF Count
    <2>3. Cardinality(UpTo(S, k + 1)) = Cardinality(UpTo(S, k)) + Count(k \in S)
      BY <1>2, <2>1, <2>2
    <2>. QED
      BY <1>1, <1>2, <1>5, <2>1, <2>3
  <1>. QED
    BY <1>4, <1>5

LEMMA BeforeOfOne ==
  ASSUME NEW a \in Nat, NEW b \in Nat
  PROVE  Before(<<a>>, <<b>>) <=> a < b
  <1>. DEFINE s == <<a>>
              t == <<b>>
  <1>1. /\ s \in Seq(Nat) /\ t \in Seq(Nat) /\ Len(s) = 1 /\ Len(t) = 1 /\ s[1] = a /\ t[1] = b
    OBVIOUS
  <1>. HIDE DEF s, t
  <1>2. ASSUME NEW n \in Nat, Splits(s, t, n) PROVE a < b
    <2>1. n = 0
      BY <1>1, <1>2 DEF Splits
    <2>. QED
      BY <1>1, <1>2, <2>1 DEF Splits
  <1>3. ASSUME a < b PROVE Splits(s, t, 0)
    BY <1>1, <1>3 DEF Splits, AgreeUpTo
  <1>4. Before(s, t) <=> \E n \in Nat : Splits(s, t, n)
    BY <1>1, BeforeSplits
  <1>. QED
    BY <1>2, <1>3, <1>4 DEF s, t

IsLeastOf(best, distances) ==
  /\ best = <<>> <=> distances = {}
  /\ best # <<>> => \E d \in distances : best[1].distance = <<d>> /\ \A e \in distances : d <= e

LEMMA KeepsLeast ==
  ASSUME NEW D \in SUBSET Nat, NEW d \in Nat, NEW best, IsLeastOf(best, D), NEW l, NEW r
  PROVE  IsLeastOf(Keep(best, <<d>>, l, r), D \cup {d})
  <1>. DEFINE new == [distance |-> <<d>>, left |-> l, right |-> r]
              kept == Keep(best, <<d>>, l, r)
  <1>1. new.distance = <<d>> /\ <<new>> # <<>> /\ <<new>>[1] = new
    OBVIOUS
  <1>. HIDE DEF new
  <1>2. kept = IF best = <<>> \/ Before(<<d>>, best[1].distance) THEN <<new>> ELSE best
    BY DEF Keep, new
  <1>. HIDE DEF kept
  <1>3. CASE best = <<>>
    <2>1. D = {} /\ kept = <<new>>
      BY <1>2, <1>3 DEF IsLeastOf
    <2>. QED
      BY <1>1, <2>1 DEF IsLeastOf, kept
  <1>4. CASE best # <<>>
    <2>1. PICK c \in D : best[1].distance = <<c>> /\ \A e \in D : c <= e
      BY <1>4 DEF IsLeastOf
    <2>2. Before(<<d>>, best[1].distance) <=> d < c
      BY <2>1, BeforeOfOne
    <2>3. CASE d < c
      <3>1. kept = <<new>> /\ \A e \in D \cup {d} : d <= e
        BY <1>2, <2>1, <2>2, <2>3
      <3>. QED
        BY <1>1, <3>1 DEF IsLeastOf, kept
    <2>4. CASE ~(d < c)
      <3>1. kept = best /\ \A e \in D \cup {d} : c <= e
        BY <1>2, <1>4, <2>1, <2>2, <2>4
      <3>. QED
        BY <1>4, <2>1, <3>1 DEF IsLeastOf, kept
    <2>. QED
      BY <2>3, <2>4
  <1>. QED
    BY <1>3, <1>4

-----------------------------------------------------------------------------
(* The cases of a job: a pair with a suffix behind it.                     *)
PairIn(jb, n) == jb.pairs[(n \div Len(jb.suffixes)) + 1]
SuffixIn(jb, n) == jb.suffixes[(n % Len(jb.suffixes)) + 1]
LeftIn(jb, n) == PairIn(jb, n).left \o SuffixIn(jb, n)
RightIn(jb, n) == PairIn(jb, n).right \o SuffixIn(jb, n)
PlaceIn(jb, n) == PlaceOf(PairIn(jb, n), SuffixIn(jb, n))
CasesOf(jb) == 0..(Len(jb.pairs) * Len(jb.suffixes) - 1)

LEMMA CaseIs ==
  ASSUME NEW jb \in JobsOf(PairTools), NEW n \in CasesOf(jb)
  PROVE  /\ n \in Nat /\ IsHash(jb) /\ IsPair(jb, PairIn(jb, n)) /\ Returnable(jb, SuffixIn(jb, n))
         /\ OneApart(jb, LeftIn(jb, n), RightIn(jb, n), PlaceIn(jb, n))
  <1>. DEFINE p == Len(jb.pairs)
              d == Len(jb.suffixes)
              pair == PairIn(jb, n)
              suffix == SuffixIn(jb, n)
  <1>1. p \in Nat /\ d \in Nat /\ IsHash(jb)
    BY PairJob
  <1>2. n \in Nat /\ n \div d \in 0..(p - 1) /\ n % d \in 0..(d - 1)
    <2>1. n \in 0..(p * d - 1)
      BY DEF CasesOf
    <2>. HIDE DEF p, d
    <2>. QED
      BY <1>1, <2>1, PlaceInTable
  <1>3. IsPair(jb, pair)
    <2>1. (n \div d) + 1 \in 1..p
      <3>. DEFINE q == n \div d
      <3>1. q \in 0..(p - 1) /\ p \in Nat
        BY <1>1, <1>2
      <3>. HIDE DEF p, q
      <3>2. q + 1 \in 1..p
        BY <3>1
      <3>. QED
        BY <3>2 DEF q
    <2>. QED
      BY <2>1, PairJob DEF PairIn
  <1>4. Returnable(jb, suffix)
    <2>1. (n % d) + 1 \in 1..d
      <3>. DEFINE q == n % d
      <3>1. q \in 0..(d - 1) /\ d \in Nat
        BY <1>1, <1>2
      <3>. HIDE DEF d, q
      <3>2. q + 1 \in 1..d
        BY <3>1
      <3>. QED
        BY <3>2 DEF q
    <2>. QED
      BY <2>1, PairJob DEF SuffixIn
  <1>. HIDE DEF pair, suffix
  <1>5. OneApart(jb, pair.left \o suffix, pair.right \o suffix, PlaceOf(pair, suffix))
    BY <1>1, <1>3, <1>4, PairBehind
  <1>. QED
    BY <1>1, <1>2, <1>3, <1>4, <1>5 DEF pair, suffix, LeftIn, RightIn, PlaceIn

LEMMA StatesAre ==
  /\ \A state, symbols : Behind(state, symbols) = Runs(job.absorb, state, symbols)
  /\ \A message : Forward(message) = ForwardBy(job, message)
  /\ \A message : FoldbackState(message) = FoldedBy(job, message)
  /\ \A message, index : ReturnedTo(message, index) = BackTo(job, message, Len(message) - index)
  <1>1. \A state, symbols : Behind(state, symbols) = Runs(job.absorb, state, symbols)
    BY Zenon DEF Behind, Runs, FoldLeft, MapThenFoldSet
  <1>. QED
    BY <1>1, FoldbackIs, Zenon DEF Forward, ForwardBy, ReturnedTo, BackTo

LEMMA CasesAre ==
  /\ \A n : PairOf(n) = PairIn(job, n) /\ SuffixOf(n) = SuffixIn(job, n)
  /\ \A n : LeftMessage(n) = LeftIn(job, n) /\ RightMessage(n) = RightIn(job, n)
  /\ CasesOf(job) = 0..(Cases - 1)
  BY Zenon DEF PairOf, PairIn, SuffixOf, SuffixIn, LeftMessage, RightMessage, LeftIn, RightIn,
     CasesOf, Cases

(* What the code computes once is the state of both messages.              *)
BeforeIn(jb, pair, suffix) ==
  Runs(jb.absorb, ForwardBy(jb, pair.left),
       suffix \o SubSeq(Returns(pair.left \o suffix), 1, Len(suffix) + 2 - pair.differing_index))

GateOf(jb, state, message, index) == jb.absorb[state][ReturnSymbol(message[index + 1], index)]

LEMMA GateIs ==
  ASSUME NEW jb, IsHash(jb), NEW pair, IsPair(jb, pair), NEW suffix, Returnable(jb, suffix)
  PROVE  /\ GateOf(jb, BeforeIn(jb, pair, suffix), pair.left, pair.differing_index)
              = BackTo(jb, pair.left \o suffix, PlaceOf(pair, suffix))
         /\ GateOf(jb, BeforeIn(jb, pair, suffix), pair.right, pair.differing_index)
              = BackTo(jb, pair.right \o suffix, PlaceOf(pair, suffix))
  <1>. DEFINE l == pair.left \o suffix
              r == pair.right \o suffix
              s == Len(suffix)
              d == pair.differing_index
              place == PlaceOf(pair, suffix)
              front == SubSeq(Returns(l), 1, place - 1)
  <1>1. /\ OneApart(jb, l, r, place) /\ Len(l) = s + 3 /\ s \in Nat
        /\ \A n \in 1..3 : /\ Returns(l)[s + 4 - n] = ReturnSymbol(pair.left[n], n - 1)
                           /\ Returns(r)[s + 4 - n] = ReturnSymbol(pair.right[n], n - 1)
        /\ ForwardBy(jb, l) = Runs(jb.absorb, ForwardBy(jb, pair.left), suffix)
    BY PairBehind
  <1>2. d \in 1..2 /\ place = s + 3 - d
    BY DEF IsPair, PlaceOf
  <1>. HIDE DEF s, d, place
  <1>3. place \in 1..(s + 3) /\ place - 1 \in 0..(place - 1) /\ place - 1 = s + 2 - d /\ d + 1 \in 1..3
        /\ s + 4 - (d + 1) = place /\ (d + 1) - 1 = d
    BY <1>1, <1>2
  <1>. HIDE DEF l, r
  <1>4. IsMessage(jb, l) /\ IsMessage(jb, r) /\ Len(r) = s + 3
    BY <1>1 DEF OneApart
  <1>5. BeforeIn(jb, pair, suffix) = BackTo(jb, l, place - 1)
    <2>1. front \in Seq(SymbolsOf(jb))
      <3>1. Returns(l) \in Seq(SymbolsOf(jb)) /\ DOMAIN Returns(l) = 1..(s + 3)
        <4>1. DOMAIN l = 1..(s + 3)
          BY <1>1, <1>4, LenProperties DEF IsMessage
        <4>. QED
          BY <1>4, <4>1 DEF IsMessage, Returns
      <3>2. Len(Returns(l)) = s + 3
        BY <1>1, <3>1, LenProperties
      <3>3. \A i \in 1..(place - 1) : Returns(l)[i] \in SymbolsOf(jb)
        BY <1>1, <1>3, <3>1, <3>2, ElementOfSeq
      <3>. QED
        BY <1>1, <1>3, <3>3, SubSeqProperties
    <2>2. suffix \in Seq(SymbolsOf(jb)) /\ ForwardBy(jb, pair.left) \in StatesOf(jb)
      <3>1. ForwardBy(jb, pair.left) \in StatesOf(jb)
        BY RunsInto DEF IsHash, IsPair, ForwardBy
      <3>. QED
        BY <3>1 DEF Returnable
    <2>3. IsStep(jb.absorb, StatesOf(jb), SymbolsOf(jb))
      BY DEF IsHash
    <2>4. BeforeIn(jb, pair, suffix) = Runs(jb.absorb, ForwardBy(jb, pair.left), suffix \o front)
      BY <1>3 DEF BeforeIn, l, s, d
    <2>. HIDE DEF front
    <2>5. Runs(jb.absorb, ForwardBy(jb, pair.left), suffix \o front)
            = Runs(jb.absorb, ForwardBy(jb, l), front)
      BY <1>1, <2>1, <2>2, <2>3, RunsJoin
    <2>. QED
      BY <2>4, <2>5 DEF BackTo, front
  <1>6. BackTo(jb, l, place - 1) = BackTo(jb, r, place - 1)
    BY <1>1, <1>3, AlikeUntil
  <1>7. /\ Returns(l)[place] = ReturnSymbol(pair.left[d + 1], d)
        /\ Returns(r)[place] = ReturnSymbol(pair.right[d + 1], d)
    BY <1>1, <1>3
  <1>8. /\ BackTo(jb, l, place) = jb.absorb[BackTo(jb, l, place - 1)][Returns(l)[place]]
        /\ BackTo(jb, r, place) = jb.absorb[BackTo(jb, r, place - 1)][Returns(r)[place]]
    BY <1>1, <1>3, <1>4, BackGoesOn
  <1>. QED
    BY <1>5, <1>6, <1>7, <1>8 DEF GateOf, l, r, d, place

-----------------------------------------------------------------------------
(* foldback_aware_alias.                                                   *)
GateMet(jb) ==
  {n \in CasesOf(jb) : BackTo(jb, LeftIn(jb, n), PlaceIn(jb, n)) = BackTo(jb, RightIn(jb, n), PlaceIn(jb, n))}
FoldMet(jb) == {n \in CasesOf(jb) : FoldedBy(jb, LeftIn(jb, n)) = FoldedBy(jb, RightIn(jb, n))}
GateBetween(jb) ==
  [n \in Nat |-> CubeDistance(BackTo(jb, LeftIn(jb, n), PlaceIn(jb, n)),
                              BackTo(jb, RightIn(jb, n), PlaceIn(jb, n)))]

LEMMA GatesFold == \A jb \in JobsOf(PairTools) : GateMet(jb) \subseteq FoldMet(jb)
  <1>. SUFFICES ASSUME NEW jb \in JobsOf(PairTools), NEW n \in GateMet(jb) PROVE n \in FoldMet(jb)
    OBVIOUS
  <1>1. /\ n \in CasesOf(jb)
        /\ BackTo(jb, LeftIn(jb, n), PlaceIn(jb, n)) = BackTo(jb, RightIn(jb, n), PlaceIn(jb, n))
    BY DEF GateMet
  <1>2. FoldedBy(jb, LeftIn(jb, n)) = FoldedBy(jb, RightIn(jb, n))
    BY <1>1, CaseIs, MetStaysMet
  <1>. QED
    BY <1>1, <1>2 DEF FoldMet

AwareInv ==
  /\ at \in Nat /\ 0..(at - 1) \subseteq CasesOf(job)
  /\ counters.tested = at
  /\ counters.return_transition_merges = Cardinality(UpTo(GateMet(job), at))
  /\ counters.full_foldback_merges = counters.return_transition_merges
  /\ Nearest(outcomes, GateBetween(job), at)

LEMMA AwareStep ==
  ASSUME job \in JobsOf(PairTools), AwareInv, AwareCase
  PROVE  AwareInv'
  <1>. DEFINE pair == PairIn(job, at)
              suffix == SuffixIn(job, at)
              l == BackTo(job, LeftIn(job, at), PlaceIn(job, at))
              r == BackTo(job, RightIn(job, at), PlaceIn(job, at))
  <1>1. at \in Nat /\ at < Cases /\ at' = at + 1 /\ job' = job
    BY DEF AwareInv, AwareCase
  <1>2. at \in CasesOf(job) /\ 0..(at' - 1) \subseteq CasesOf(job)
    <2>1. Len(job.pairs) \in Nat /\ Len(job.suffixes) \in Nat
      BY PairJob
    <2>2. Cases \in Nat
      <3>. DEFINE p == Len(job.pairs)
                  d == Len(job.suffixes)
      <3>. HIDE DEF p, d
      <3>1. p \in Nat /\ d \in Nat
        BY <2>1 DEF p, d
      <3>2. p * d \in Nat
        BY <3>1
      <3>. QED
        BY <3>2 DEF Cases, p, d
    <2>. QED
      BY <1>1, <2>2, CasesAre
  <1>3. IsHash(job) /\ IsPair(job, pair) /\ Returnable(job, suffix)
    BY <1>2, CaseIs
  <1>4. /\ Gate(BeforeDifference(pair, suffix), pair.left, pair.differing_index) = l
        /\ Gate(BeforeDifference(pair, suffix), pair.right, pair.differing_index) = r
    <2>1. BeforeDifference(pair, suffix) = BeforeIn(job, pair, suffix)
      BY StatesAre, Zenon DEF BeforeDifference, BeforeIn, CommonState
    <2>2. \A state, message, index : Gate(state, message, index) = GateOf(job, state, message, index)
      BY Zenon DEF Gate, GateOf
    <2>3. /\ GateOf(job, BeforeIn(job, pair, suffix), pair.left, pair.differing_index)
               = BackTo(job, pair.left \o suffix, PlaceOf(pair, suffix))
          /\ GateOf(job, BeforeIn(job, pair, suffix), pair.right, pair.differing_index)
               = BackTo(job, pair.right \o suffix, PlaceOf(pair, suffix))
      <3>. HIDE DEF pair, suffix
      <3>. QED
        BY <1>3, GateIs
    <2>. QED
      BY <2>1, <2>2, <2>3, Zenon DEF LeftIn, RightIn, PlaceIn
  <1>5. /\ counters' = [tested |-> counters.tested + 1,
                        return_transition_merges |-> counters.return_transition_merges + Count(l = r),
                        full_foldback_merges |-> counters.full_foldback_merges
                          + Count(l = r /\ FoldbackState(LeftMessage(at)) = FoldbackState(RightMessage(at)))]
        /\ outcomes' = Keep(outcomes, CubeDistance(l, r), LeftMessage(at), RightMessage(at))
    <2>1. PairOf(at) = pair /\ SuffixOf(at) = suffix
      BY CasesAre
    <2>. HIDE DEF pair, suffix, l, r
    <2>. QED
      BY <1>4, <2>1, Zenon DEF AwareCase
  <1>6. (l = r <=> at \in GateMet(job)) /\ CubeDistance(l, r) = GateBetween(job)[at]
    BY <1>1, <1>2 DEF GateMet, GateBetween
  <1>7. l = r => FoldbackState(LeftMessage(at)) = FoldbackState(RightMessage(at))
    <2>1. at \in GateMet(job) => at \in FoldMet(job)
      BY GatesFold
    <2>. QED
      BY <1>6, <2>1, CasesAre, StatesAre DEF FoldMet
  <1>8. GateBetween(job)[at] \in Seq(Nat)
    <2>1. l \in StatesOf(job) /\ r \in StatesOf(job)
      <3>1. OneApart(job, LeftIn(job, at), RightIn(job, at), PlaceIn(job, at))
        BY <1>2, CaseIs
      <3>2. /\ IsMessage(job, LeftIn(job, at)) /\ IsMessage(job, RightIn(job, at))
            /\ PlaceIn(job, at) \in 0..Len(LeftIn(job, at))
            /\ Len(LeftIn(job, at)) = Len(RightIn(job, at))
        BY <3>1, LenProperties DEF OneApart, IsMessage
      <3>. QED
        BY <1>3, <3>2, BackGoesOn
    <2>2. \A v, w \in StatesOf(job) : CubeDistance(v, w) \in Seq(Nat)
      BY PairHashesAssumption DEF StatesOf
    <2>. HIDE DEF l, r
    <2>. QED
      BY <1>6, <2>1, <2>2
  <1>. HIDE DEF l, r
  <1>9. Nearest(outcomes', GateBetween(job), at + 1)
    <2>1. Nearest(outcomes, GateBetween(job), at)
      BY DEF AwareInv
    <2>2. outcomes' = Keep(outcomes, GateBetween(job)[at], LeftMessage(at), RightMessage(at))
      BY <1>5, <1>6
    <2>. QED
      BY <1>1, <1>8, <2>1, <2>2, KeepsNearest
  <1>10. /\ Cardinality(UpTo(GateMet(job), at + 1))
              = Cardinality(UpTo(GateMet(job), at)) + Count(at \in GateMet(job))
         /\ Cardinality(UpTo(GateMet(job), at)) \in Nat
    BY <1>1, OneMoreIn
  <1>11. /\ counters'.tested = at + 1
         /\ counters'.return_transition_merges = Cardinality(UpTo(GateMet(job), at + 1))
         /\ counters'.full_foldback_merges = counters'.return_transition_merges
    <2>1. Count(l = r) = Count(at \in GateMet(job))
      BY <1>6 DEF Count
    <2>2. Count(l = r /\ FoldbackState(LeftMessage(at)) = FoldbackState(RightMessage(at))) = Count(l = r)
      BY <1>7 DEF Count
    <2>. QED
      BY <1>5, <1>10, <2>1, <2>2 DEF AwareInv
  <1>. QED
    BY <1>1, <1>2, <1>9, <1>11 DEF AwareInv

LEMMA AwareIsExact ==
  ASSUME job \in JobsOf(PairTools), job.tool = "aware", AwareInv
  PROVE  AwareExact
  <1>. DEFINE At(message, n) == ReturnedTo(message, PairOf(n).differing_index)
              gates == {n \in 0..(at - 1) : At(LeftMessage(n), n) = At(RightMessage(n), n)}
  <1>1. \A n \in 0..(at - 1) :
          /\ At(LeftMessage(n), n) = BackTo(job, LeftIn(job, n), PlaceIn(job, n))
          /\ At(RightMessage(n), n) = BackTo(job, RightIn(job, n), PlaceIn(job, n))
    <2>. SUFFICES ASSUME NEW n \in 0..(at - 1)
                  PROVE  /\ At(LeftMessage(n), n) = BackTo(job, LeftIn(job, n), PlaceIn(job, n))
                         /\ At(RightMessage(n), n) = BackTo(job, RightIn(job, n), PlaceIn(job, n))
      OBVIOUS
    <2>. DEFINE pair == PairIn(job, n)
                suffix == SuffixIn(job, n)
    <2>1. n \in CasesOf(job)
      BY DEF AwareInv
    <2>2. IsHash(job) /\ IsPair(job, pair) /\ Returnable(job, suffix)
          /\ OneApart(job, LeftIn(job, n), RightIn(job, n), PlaceIn(job, n))
      BY <2>1, CaseIs
    <2>3. Len(LeftIn(job, n)) = Len(suffix) + 3 /\ Len(RightIn(job, n)) = Len(suffix) + 3
      <3>1. Len(pair.left \o suffix) = Len(suffix) + 3
        <4>. HIDE DEF pair, suffix
        <4>. QED
          BY <2>2, PairBehind
      <3>2. Len(LeftIn(job, n)) = Len(suffix) + 3
        BY <3>1 DEF LeftIn
      <3>. QED
        BY <2>2, <3>2 DEF OneApart
    <2>4. PlaceIn(job, n) = Len(suffix) + 3 - pair.differing_index
      BY DEF PlaceIn, PlaceOf
    <2>5. /\ LeftMessage(n) = LeftIn(job, n) /\ RightMessage(n) = RightIn(job, n) /\ PairOf(n) = pair
      BY CasesAre
    <2>6. pair.differing_index \in 1..2 /\ Len(suffix) \in Nat
      BY <2>2, LenProperties DEF IsPair, Returnable
    <2>. DEFINE l == LeftIn(job, n)
                rr == RightIn(job, n)
                di == pair.differing_index
                s == Len(suffix)
                place == PlaceIn(job, n)
    <2>7. /\ ReturnedTo(l, di) = BackTo(job, l, Len(l) - di)
          /\ ReturnedTo(rr, di) = BackTo(job, rr, Len(rr) - di)
      BY StatesAre
    <2>8. At(LeftMessage(n), n) = ReturnedTo(l, di) /\ At(RightMessage(n), n) = ReturnedTo(rr, di)
      BY <2>5, Zenon
    <2>. HIDE DEF pair, suffix, l, rr, di, s, place, At
    <2>9. Len(l) = s + 3 /\ Len(rr) = s + 3 /\ place = s + 3 - di
      BY <2>3, <2>4 DEF l, rr, s, di, place
    <2>10. BackTo(job, l, Len(l) - di) = BackTo(job, l, place) /\ BackTo(job, rr, Len(rr) - di) = BackTo(job, rr, place)
      <3>1. Len(l) - di = place /\ Len(rr) - di = place
        <4>1. s \in Nat /\ di \in 1..2
          BY <2>6 DEF s, di
        <4>. QED
          BY <2>9, <4>1
      <3>. QED
        BY <3>1, Zenon
    <2>11. /\ At(LeftMessage(n), n) = BackTo(job, l, place)
           /\ At(RightMessage(n), n) = BackTo(job, rr, place)
      BY <2>7, <2>8, <2>10
    <2>. QED
      BY <2>11 DEF l, rr, place
  <1>2. gates = UpTo(GateMet(job), at)
    <2>1. \A n \in 0..(at - 1) : n \in CasesOf(job)
      BY DEF AwareInv
    <2>. QED
      BY <1>1, <2>1 DEF UpTo, GateMet
  <1>3. \A n \in 0..(at - 1) :
          ~Before(CubeDistance(At(LeftMessage(n), n), At(RightMessage(n), n)), outcomes[1].distance)
    <2>1. \A n \in 0..(at - 1) :
            CubeDistance(At(LeftMessage(n), n), At(RightMessage(n), n)) = GateBetween(job)[n]
      <3>1. 0..(at - 1) \subseteq Nat
        OBVIOUS
      <3>. QED
        BY <1>1, <3>1 DEF GateBetween
    <2>2. \A n \in 0..(at - 1) : ~Before(GateBetween(job)[n], outcomes[1].distance)
      BY DEF AwareInv, Nearest
    <2>. QED
      BY <2>1, <2>2
  <1>4. PairExitCode = 1 => FoldedTogether # {}
    <2>. SUFFICES ASSUME PairExitCode = 1 PROVE FoldedTogether # {}
      OBVIOUS
    <2>1. counters.full_foldback_merges # 0
      BY DEF PairExitCode, Count
    <2>2. UpTo(GateMet(job), at) # {}
      BY <2>1, FS_EmptySet DEF AwareInv
    <2>3. PICK n \in UpTo(GateMet(job), at) : TRUE
      BY <2>2
    <2>4. n \in 0..(at - 1) /\ n \in FoldMet(job)
      BY <2>3, GatesFold DEF UpTo
    <2>5. FoldbackState(LeftMessage(n)) = FoldbackState(RightMessage(n))
      BY <2>4, CasesAre, StatesAre DEF FoldMet
    <2>. QED
      BY <2>4, <2>5 DEF FoldedTogether
  <1>5. /\ counters.tested = at
        /\ counters.return_transition_merges = Cardinality(gates)
        /\ counters.full_foldback_merges = counters.return_transition_merges
    BY <1>2 DEF AwareInv
  <1>. HIDE DEF At
  <1>. QED
    BY <1>3, <1>4, <1>5 DEF AwareExact, At

-----------------------------------------------------------------------------
(* foldback_separation_profile: the two messages of a pair side by side.   *)
MetAt(jb, pair) ==
  BackTo(jb, pair.left, 3 - pair.differing_index) = BackTo(jb, pair.right, 3 - pair.differing_index)

LEMMA PairAlone ==
  ASSUME NEW jb, IsHash(jb), Returnable(jb, <<>>), NEW pair, IsPair(jb, pair)
  PROVE  /\ OneApart(jb, pair.left, pair.right, 3 - pair.differing_index)
         /\ BackTo(jb, pair.left, 0) = BackTo(jb, pair.right, 0)
         /\ BackTo(jb, pair.left, 0) = ForwardBy(jb, pair.left)
         /\ \A n \in 1..3 :
              /\ BackTo(jb, pair.left, 4 - n)
                   = GateOf(jb, BackTo(jb, pair.left, 3 - n), pair.left, n - 1)
              /\ BackTo(jb, pair.right, 4 - n)
                   = GateOf(jb, BackTo(jb, pair.right, 3 - n), pair.right, n - 1)
         /\ \A k \in 0..3 : k < 3 - pair.differing_index =>
              BackTo(jb, pair.left, k) = BackTo(jb, pair.right, k)
         /\ \A k \in 1..3 : 3 - pair.differing_index < k /\ BackTo(jb, pair.left, k - 1) = BackTo(jb, pair.right, k - 1) =>
              BackTo(jb, pair.left, k) = BackTo(jb, pair.right, k)
  <1>. DEFINE l == pair.left
              r == pair.right
              d == pair.differing_index
  <1>1. /\ l \in Seq(SymbolsOf(jb)) /\ r \in Seq(SymbolsOf(jb)) /\ Len(l) = 3 /\ Len(r) = 3
        /\ d \in 1..2
    BY DEF IsPair
  <1>2. /\ OneApart(jb, l \o <<>>, r \o <<>>, PlaceOf(pair, <<>>))
        /\ \A n \in 1..3 :
              /\ Returns(l \o <<>>)[Len(<<>>) + 4 - n] = ReturnSymbol(l[n], n - 1)
              /\ Returns(r \o <<>>)[Len(<<>>) + 4 - n] = ReturnSymbol(r[n], n - 1)
    <2>. DEFINE none == <<>>
    <2>1. Returnable(jb, none)
      OBVIOUS
    <2>. HIDE DEF none
    <2>2. /\ OneApart(jb, pair.left \o none, pair.right \o none, PlaceOf(pair, none))
          /\ \A n \in 1..3 :
               /\ Returns(pair.left \o none)[Len(none) + 4 - n] = ReturnSymbol(pair.left[n], n - 1)
               /\ Returns(pair.right \o none)[Len(none) + 4 - n] = ReturnSymbol(pair.right[n], n - 1)
      BY <2>1, PairBehind
    <2>. QED
      BY <2>2 DEF none
  <1>3. l \o <<>> = l /\ r \o <<>> = r /\ Len(<<>>) = 0
    BY <1>1
  <1>. HIDE DEF l, r, d
  <1>4. PlaceOf(pair, <<>>) = 3 - d
    BY <1>1, <1>3 DEF PlaceOf, d
  <1>5. OneApart(jb, l, r, 3 - d)
    BY <1>2, <1>3, <1>4
  <1>6. IsMessage(jb, l) /\ IsMessage(jb, r)
    BY <1>5 DEF OneApart
  <1>7. ASSUME NEW n \in 1..3
        PROVE  /\ BackTo(jb, l, 4 - n) = GateOf(jb, BackTo(jb, l, 3 - n), l, n - 1)
               /\ BackTo(jb, r, 4 - n) = GateOf(jb, BackTo(jb, r, 3 - n), r, n - 1)
    <2>. DEFINE k == 4 - n
    <2>1. k \in 1..3 /\ k - 1 = 3 - n /\ (n - 1) + 1 = n /\ 0 + 4 - n = k
      OBVIOUS
    <2>. HIDE DEF k
    <2>2. Returns(l)[k] = ReturnSymbol(l[n], n - 1) /\ Returns(r)[k] = ReturnSymbol(r[n], n - 1)
      BY <1>2, <1>3, <2>1
    <2>3. /\ BackTo(jb, l, k) = jb.absorb[BackTo(jb, l, k - 1)][Returns(l)[k]]
          /\ BackTo(jb, r, k) = jb.absorb[BackTo(jb, r, k - 1)][Returns(r)[k]]
      <3>1. k \in 1..Len(l) /\ k \in 1..Len(r)
        BY <1>1, <2>1
      <3>. QED
        BY <1>6, <3>1, BackGoesOn
    <2>4. /\ BackTo(jb, l, k) = GateOf(jb, BackTo(jb, l, 3 - n), l, n - 1)
          /\ BackTo(jb, r, k) = GateOf(jb, BackTo(jb, r, 3 - n), r, n - 1)
      BY <2>1, <2>2, <2>3 DEF GateOf
    <2>. QED
      BY <2>4 DEF k
  <1>8. ASSUME NEW k \in 0..3, k < 3 - d PROVE BackTo(jb, l, k) = BackTo(jb, r, k)
    <2>1. k \in 0..((3 - d) - 1)
      BY <1>1, <1>8
    <2>. QED
      BY <1>5, <2>1, AlikeUntil
  <1>9. ASSUME NEW k \in 1..3, 3 - d < k, BackTo(jb, l, k - 1) = BackTo(jb, r, k - 1)
        PROVE  BackTo(jb, l, k) = BackTo(jb, r, k)
    <2>. DEFINE from == k - 1
    <2>1. from \in (3 - d)..3 /\ k \in from..3
      BY <1>1, <1>9
    <2>2. BackTo(jb, l, from) = BackTo(jb, r, from)
      BY <1>9
    <2>. HIDE DEF from
    <2>3. from \in (3 - d)..Len(l) /\ k \in from..Len(l)
      BY <1>1, <2>1
    <2>. QED
      BY <1>5, <2>2, <2>3, AlikeBehind
  <1>10. BackTo(jb, l, 0) = BackTo(jb, r, 0) /\ BackTo(jb, l, 0) = ForwardBy(jb, l)
    <2>1. ForwardBy(jb, l) = ForwardBy(jb, r)
      BY <1>5 DEF OneApart
    <2>. QED
      BY <1>6, <2>1, BackGoesOn
  <1>. QED
    BY <1>5, <1>7, <1>8, <1>9, <1>10 DEF l, r, d

(* How far a pair is folded back, and what was noted of it.                *)
Halfway(jb, pair, s) ==
  LET l(k) == BackTo(jb, pair.left, k)
      r(k) == BackTo(jb, pair.right, k)
  IN  /\ s.left = l(3 - s.reverse) /\ s.right = r(3 - s.reverse)
      /\ IF s.reverse > pair.differing_index
         THEN s.first_divergence_step = 0 /\ ~s.reconverged
         ELSE /\ s.first_divergence_step = IF MetAt(jb, pair) THEN 0 ELSE 3 - pair.differing_index
              /\ s.reconverged <=> ~MetAt(jb, pair) /\ s.left = s.right

Ahead(jb, n, s) ==
  n < Len(jb.pairs) /\ s.reverse <= jb.pairs[n + 1].differing_index /\ MetAt(jb, jb.pairs[n + 1])

PairsMet(jb) ==
  {n \in 1..Len(jb.pairs) : BackTo(jb, jb.pairs[n].left, 3) = BackTo(jb, jb.pairs[n].right, 3)}

ProfileCounters ==
  [direct_return_aliases : Nat, never_diverged : Nat, first_divergence_at_expected_step : Nat,
   delayed_divergence : Nat, later_reconvergences : Nat, final_merges : Nat]

ProfileInv ==
  /\ at \in 0..Len(job.pairs) /\ seen.reverse \in 0..3 /\ seen.reconverged \in BOOLEAN
  /\ at < Len(job.pairs) => Halfway(job, job.pairs[at + 1], seen)
  /\ at = Len(job.pairs) => seen.reverse = 3
  /\ counters \in ProfileCounters
  /\ counters.delayed_divergence = 0
  /\ counters.never_diverged + counters.first_divergence_at_expected_step = at
  /\ counters.direct_return_aliases = counters.never_diverged + Count(Ahead(job, at, seen))
  /\ counters.final_merges = counters.never_diverged + counters.later_reconvergences
  /\ counters.final_merges = Cardinality(UpTo(PairsMet(job), at + 1))

(* One symbol of each message.                                             *)
HalfwayNext(jb, pair, s) ==
  LET index  == s.reverse - 1
      left   == GateOf(jb, s.left, pair.left, index)
      right  == GateOf(jb, s.right, pair.right, index)
      before == s.left = s.right
  IN  [left |-> left, right |-> right, reverse |-> s.reverse - 1,
       first_divergence_step |->
         IF before /\ left # right /\ s.first_divergence_step = 0
         THEN 4 - s.reverse ELSE s.first_divergence_step,
       reconverged |-> s.reconverged \/ (~before /\ left = right)]

DirectAt(jb, pair, s) ==
  LET index == s.reverse - 1
  IN  /\ s.left = s.right
      /\ ReturnSymbol(pair.left[index + 1], index) # ReturnSymbol(pair.right[index + 1], index)
      /\ GateOf(jb, s.left, pair.left, index) = GateOf(jb, s.right, pair.right, index)

Injective(jb) ==
  \A b, c \in SymbolsOf(jb), k \in 1..2 : ReturnSymbol(b, k) = ReturnSymbol(c, k) => b = c

LEMMA HalfwayOn ==
  ASSUME NEW jb, IsHash(jb), Returnable(jb, <<>>), Injective(jb), NEW pair, IsPair(jb, pair),
         NEW s, s.reverse \in 1..3, s.reconverged \in BOOLEAN, Halfway(jb, pair, s)
  PROVE  /\ Halfway(jb, pair, HalfwayNext(jb, pair, s))
         /\ DirectAt(jb, pair, s) <=> s.reverse - 1 = pair.differing_index /\ MetAt(jb, pair)
  <1>. DEFINE d == pair.differing_index
              n == s.reverse
              k == 4 - n
              L(i) == BackTo(jb, pair.left, i)
              R(i) == BackTo(jb, pair.right, i)
              t == HalfwayNext(jb, pair, s)
              met == MetAt(jb, pair)
  <1>1. d \in 1..2 /\ n \in 1..3 /\ k \in 1..3 /\ k - 1 = 3 - n /\ k = 3 - (n - 1) /\ (n - 1) + 1 = n
    BY DEF IsPair
  <1>2. /\ L(k) = GateOf(jb, s.left, pair.left, n - 1)
        /\ R(k) = GateOf(jb, s.right, pair.right, n - 1)
    <2>1. s.left = L(3 - n) /\ s.right = R(3 - n)
      BY DEF Halfway
    <2>. QED
      BY <2>1, PairAlone
  <1>3. /\ t.left = L(k) /\ t.right = R(k) /\ t.reverse = n - 1
        /\ t.first_divergence_step =
             IF s.left = s.right /\ L(k) # R(k) /\ s.first_divergence_step = 0
             THEN k ELSE s.first_divergence_step
        /\ t.reconverged = (s.reconverged \/ (s.left # s.right /\ L(k) = R(k)))
    BY <1>2 DEF HalfwayNext
  <1>4. s.left = L(k - 1) /\ s.right = R(k - 1)
    BY <1>1 DEF Halfway
  <1>5. met <=> L(3 - d) = R(3 - d)
    BY DEF MetAt
  <1>6. \A b \in 1..3 : (pair.left[b] = pair.right[b]) <=> b # d + 1
    BY DEF IsPair
  <1>7. /\ k < 3 - d => L(k) = R(k)
        /\ k - 1 < 3 - d => L(k - 1) = R(k - 1)
        /\ 3 - d < k /\ L(k - 1) = R(k - 1) => L(k) = R(k)
    <2>1. k \in 0..3 /\ k - 1 \in 0..3 /\ k \in 1..3
      BY <1>1
    <2>. QED
      BY <2>1, PairAlone
  <1>8. DirectAt(jb, pair, s) <=>
          /\ L(k - 1) = R(k - 1) /\ L(k) = R(k)
          /\ ReturnSymbol(pair.left[n], n - 1) # ReturnSymbol(pair.right[n], n - 1)
    BY <1>1, <1>2, <1>4 DEF DirectAt
  <1>9. n - 1 = d => ReturnSymbol(pair.left[n], n - 1) # ReturnSymbol(pair.right[n], n - 1)
    <2>. SUFFICES ASSUME n - 1 = d PROVE ReturnSymbol(pair.left[n], n - 1) # ReturnSymbol(pair.right[n], n - 1)
      OBVIOUS
    <2>1. n = d + 1 /\ pair.left[n] # pair.right[n] /\ n - 1 \in 1..2
      BY <1>1, <1>6
    <2>2. pair.left[n] \in SymbolsOf(jb) /\ pair.right[n] \in SymbolsOf(jb)
      BY <1>1, ElementOfSeq DEF IsPair
    <2>. QED
      BY <2>1, <2>2 DEF Injective
  <1>10. n - 1 # d => pair.left[n] = pair.right[n]
    BY <1>1, <1>6
  <1>11. IF n > d THEN s.first_divergence_step = 0 /\ ~s.reconverged
         ELSE /\ s.first_divergence_step = IF met THEN 0 ELSE 3 - d
              /\ s.reconverged <=> ~met /\ L(k - 1) = R(k - 1)
    BY <1>4 DEF Halfway
  <1>12. n <= d /\ met => L(k - 1) = R(k - 1)
    <2>. SUFFICES ASSUME n <= d, met PROVE L(k - 1) = R(k - 1)
      OBVIOUS
    <2>. DEFINE from == 3 - d
                i == k - 1
    <2>1. from \in (3 - d)..3 /\ i \in from..3
      <3>1. n <= d
        OBVIOUS
      <3>. HIDE DEF n, d, k
      <3>. QED
        BY <1>1, <3>1
    <2>2. OneApart(jb, pair.left, pair.right, 3 - d) /\ Len(pair.left) = 3
      BY PairAlone DEF IsPair
    <2>3. BackTo(jb, pair.left, from) = BackTo(jb, pair.right, from)
      BY <1>5
    <2>. HIDE DEF from, d, k, i
    <2>4. from \in (3 - d)..Len(pair.left) /\ i \in from..Len(pair.left)
      BY <2>1, <2>2
    <2>5. BackTo(jb, pair.left, i) = BackTo(jb, pair.right, i)
      BY <2>2, <2>3, <2>4, AlikeBehind
    <2>. QED
      BY <2>5 DEF i
  <1>. HIDE DEF d, n, k, L, R, t, met
  <1>13. CASE n - 1 > d
    <2>1. L(k) = R(k) /\ L(k - 1) = R(k - 1) /\ pair.left[n] = pair.right[n]
      BY <1>1, <1>7, <1>10, <1>13
    <2>2. t.first_divergence_step = 0 /\ ~t.reconverged
      BY <1>1, <1>3, <1>4, <1>11, <1>13, <2>1
    <2>3. ~DirectAt(jb, pair, s)
      BY <1>8, <2>1
    <2>4. Halfway(jb, pair, t)
      BY <1>1, <1>3, <1>13, <2>2 DEF Halfway, L, R, d
    <2>. QED
      BY <1>1, <1>13, <2>3, <2>4 DEF t, d, n, met
  <1>14. CASE n - 1 = d
    <2>1. L(k - 1) = R(k - 1) /\ (met <=> L(k) = R(k)) /\ k = 3 - d
      BY <1>1, <1>5, <1>7, <1>14
    <2>2. /\ t.first_divergence_step = IF met THEN 0 ELSE 3 - d
          /\ t.reconverged <=> ~met /\ L(k) = R(k)
      BY <1>1, <1>3, <1>4, <1>11, <1>14, <2>1
    <2>3. DirectAt(jb, pair, s) <=> met
      BY <1>8, <1>9, <1>14, <2>1
    <2>4. Halfway(jb, pair, t)
      BY <1>1, <1>3, <1>14, <2>2 DEF Halfway, L, R, d, met
    <2>. QED
      BY <1>14, <2>3, <2>4 DEF t, d, n, met
  <1>15. CASE n - 1 < d
    <2>1. pair.left[n] = pair.right[n] /\ n <= d /\ 3 - d < k
      BY <1>1, <1>10, <1>15
    <2>2. (L(k - 1) = R(k - 1) => L(k) = R(k)) /\ (met => L(k - 1) = R(k - 1))
      BY <1>7, <1>12, <2>1
    <2>3. t.first_divergence_step = IF met THEN 0 ELSE 3 - d
      BY <1>1, <1>3, <1>4, <1>11, <2>1, <2>2
    <2>4. t.reconverged <=> ~met /\ L(k) = R(k)
      <3>1. s.reconverged <=> ~met /\ L(k - 1) = R(k - 1)
        BY <1>1, <1>11, <2>1
      <3>2. t.reconverged = (s.reconverged \/ (L(k - 1) # R(k - 1) /\ L(k) = R(k)))
        BY <1>3, <1>4, Zenon
      <3>. QED
        BY <2>2, <3>1, <3>2, Zenon
    <2>5. ~DirectAt(jb, pair, s)
      BY <1>8, <2>1
    <2>6. Halfway(jb, pair, t)
      BY <1>1, <1>3, <1>15, <2>3, <2>4 DEF Halfway, L, R, d, met
    <2>. QED
      BY <1>1, <1>15, <2>5, <2>6 DEF t, d, n, met
  <1>. QED
    BY <1>1, <1>13, <1>14, <1>15

LEMMA ProfileJob ==
  ASSUME NEW jb \in JobsOf(PairTools)
  PROVE  IsHash(jb) /\ Returnable(jb, <<>>) /\ Injective(jb)
  <1>1. \A b, c \in DOMAIN jb.absorb[jb.start], k \in 1..2 :
          ReturnSymbol(b, k) = ReturnSymbol(c, k) => b = c
    BY PairHashesAssumption
  <1>2. Injective(jb)
    BY <1>1 DEF Injective, SymbolsOf
  <1>. QED
    BY <1>2, PairJob

(* The messages are those of the pair number n, 3 of their symbols to come. *)
FreshIn(jb, n) ==
  LET common == IF n < Len(jb.pairs) THEN ForwardBy(jb, jb.pairs[n + 1].left) ELSE jb.start
  IN  [left |-> common, right |-> common, reverse |-> 3,
       first_divergence_step |-> 0, reconverged |-> FALSE]

LEMMA FreshIs == \A n : FreshPair(n) = FreshIn(job, n)
  BY StatesAre, Zenon DEF FreshPair, FreshIn, CommonState

LEMMA FreshStarts ==
  ASSUME NEW jb \in JobsOf(PairTools), NEW n \in 0..Len(jb.pairs)
  PROVE  /\ FreshIn(jb, n).reverse = 3 /\ FreshIn(jb, n).reconverged = FALSE
         /\ n < Len(jb.pairs) => Halfway(jb, jb.pairs[n + 1], FreshIn(jb, n))
         /\ ~Ahead(jb, n, FreshIn(jb, n))
  <1>. DEFINE s == FreshIn(jb, n)
              pair == jb.pairs[n + 1]
  <1>1. /\ s.reverse = 3 /\ s.reconverged = FALSE /\ s.first_divergence_step = 0
        /\ n < Len(jb.pairs) => s.left = ForwardBy(jb, pair.left) /\ s.right = ForwardBy(jb, pair.left)
    BY DEF FreshIn
  <1>2. n < Len(jb.pairs) => IsPair(jb, pair)
    <2>1. n < Len(jb.pairs) => n + 1 \in 1..Len(jb.pairs)
      BY PairJob
    <2>. QED
      BY <2>1, PairJob
  <1>. HIDE DEF s, pair
  <1>3. ASSUME n < Len(jb.pairs) PROVE Halfway(jb, pair, s) /\ pair.differing_index \in 1..2
    <2>1. BackTo(jb, pair.left, 0) = BackTo(jb, pair.right, 0) /\ BackTo(jb, pair.left, 0) = ForwardBy(jb, pair.left)
      BY <1>2, <1>3, PairAlone, ProfileJob
    <2>2. pair.differing_index \in 1..2
      BY <1>2, <1>3 DEF IsPair
    <2>3. 3 - s.reverse = 0 /\ s.reverse > pair.differing_index
      BY <1>1, <2>2
    <2>4. s.left = BackTo(jb, pair.left, 3 - s.reverse) /\ s.right = BackTo(jb, pair.right, 3 - s.reverse)
      BY <1>1, <1>3, <2>1, <2>3
    <2>. QED
      BY <1>1, <2>2, <2>3, <2>4 DEF Halfway
  <1>4. ~Ahead(jb, n, s)
    <2>. SUFFICES ASSUME n < Len(jb.pairs), s.reverse <= pair.differing_index PROVE FALSE
      BY DEF Ahead, pair
    <2>. QED
      BY <1>1, <1>3
  <1>. QED
    BY <1>1, <1>3, <1>4 DEF s, pair

LEMMA ProfileStarts ==
  ASSUME PairInit, job.tool = "profile"
  PROVE  ProfileInv
  <1>1. /\ job \in JobsOf(PairTools) /\ at = 0 /\ seen = FreshPair(0)
        /\ counters = [direct_return_aliases |-> 0, never_diverged |-> 0,
                       first_divergence_at_expected_step |-> 0, delayed_divergence |-> 0,
                       later_reconvergences |-> 0, final_merges |-> 0]
    BY DEF PairInit, Start
  <1>2. Len(job.pairs) \in Nat /\ 0 \in 0..Len(job.pairs)
    BY <1>1, PairJob
  <1>3. seen = FreshIn(job, 0)
    BY <1>1, FreshIs
  <1>4. /\ seen.reverse = 3 /\ seen.reconverged = FALSE
        /\ 0 < Len(job.pairs) => Halfway(job, job.pairs[0 + 1], seen)
        /\ ~Ahead(job, 0, seen)
    BY <1>1, <1>2, <1>3, FreshStarts
  <1>5. UpTo(PairsMet(job), 0 + 1) = {}
    BY DEF UpTo, PairsMet
  <1>6. Cardinality(UpTo(PairsMet(job), 0 + 1)) = 0
    BY <1>5, FS_EmptySet
  <1>7. Count(Ahead(job, 0, seen)) = 0
    BY <1>4 DEF Count
  <1>8. counters \in ProfileCounters
    BY <1>1 DEF ProfileCounters
  <1>9. seen.reverse \in 0..3 /\ seen.reconverged \in BOOLEAN
    <2>1. seen.reverse = 3
      BY <1>4
    <2>2. seen.reconverged \in BOOLEAN
      BY <1>4, Zenon
    <2>. QED
      BY <2>1, <2>2
  <1>. QED
    BY <1>1, <1>2, <1>4, <1>6, <1>7, <1>8, <1>9 DEF ProfileInv

LEMMA ReverseKeeps ==
  ASSUME job \in JobsOf(PairTools), ProfileInv, ReverseStep
  PROVE  ProfileInv'
  <1>. DEFINE pair == job.pairs[at + 1]
              t == HalfwayNext(job, pair, seen)
  <1>1. /\ at \in 0..Len(job.pairs) /\ at < Len(job.pairs) /\ seen.reverse \in 1..3
        /\ seen.reconverged \in BOOLEAN /\ Halfway(job, pair, seen)
        /\ counters \in ProfileCounters /\ at' = at /\ job' = job
    BY DEF ProfileInv, ReverseStep
  <1>2. IsHash(job) /\ Returnable(job, <<>>) /\ Injective(job) /\ IsPair(job, pair) /\ Len(job.pairs) \in Nat
    <2>1. Len(job.pairs) \in Nat
      BY PairJob
    <2>2. at + 1 \in 1..Len(job.pairs)
      BY <1>1, <2>1
    <2>. QED
      BY <2>1, <2>2, PairJob, ProfileJob
  <1>3. /\ seen' = t
        /\ counters' = [counters EXCEPT
             !.direct_return_aliases = @ + Count(DirectAt(job, pair, seen))]
    <2>1. \A state, message, index : Gate(state, message, index) = GateOf(job, state, message, index)
      BY Zenon DEF Gate, GateOf
    <2>2. seen' = t
      BY <2>1, Zenon DEF ReverseStep, HalfwayNext, FirstDivergence
    <2>3. counters' = [counters EXCEPT
             !.direct_return_aliases = @ + Count(DirectAt(job, pair, seen))]
      BY <2>1, Zenon DEF ReverseStep, DirectAt
    <2>. QED
      BY <2>2, <2>3
  <1>. HIDE DEF pair, t
  <1>4. /\ Halfway(job, pair, t)
        /\ DirectAt(job, pair, seen) <=> seen.reverse - 1 = pair.differing_index /\ MetAt(job, pair)
    BY <1>1, <1>2, HalfwayOn DEF t
  <1>5. t.reverse = seen.reverse - 1 /\ t.reconverged \in BOOLEAN
    BY <1>1 DEF t, HalfwayNext
  <1>6. Count(Ahead(job, at, t)) = Count(Ahead(job, at, seen)) + Count(DirectAt(job, pair, seen))
    <2>1. pair.differing_index \in 1..2
      BY <1>2 DEF IsPair
    <2>2. /\ Ahead(job, at, t) <=> seen.reverse - 1 <= pair.differing_index /\ MetAt(job, pair)
          /\ Ahead(job, at, seen) <=> seen.reverse <= pair.differing_index /\ MetAt(job, pair)
      BY <1>1, <1>5 DEF Ahead, pair
    <2>. QED
      BY <1>1, <1>4, <2>1, <2>2 DEF Count
  <1>7. /\ Count(Ahead(job, at, seen)) \in Nat /\ Count(DirectAt(job, pair, seen)) \in Nat
    BY DEF Count
  <1>8. /\ counters' \in ProfileCounters
        /\ counters'.direct_return_aliases = counters.direct_return_aliases + Count(DirectAt(job, pair, seen))
        /\ counters'.never_diverged = counters.never_diverged
        /\ counters'.first_divergence_at_expected_step = counters.first_divergence_at_expected_step
        /\ counters'.delayed_divergence = counters.delayed_divergence
        /\ counters'.later_reconvergences = counters.later_reconvergences
        /\ counters'.final_merges = counters.final_merges
    BY <1>1, <1>3, <1>7 DEF ProfileCounters
  <1>9. /\ counters.never_diverged \in Nat /\ counters.direct_return_aliases \in Nat
        /\ counters.delayed_divergence = 0
        /\ counters.never_diverged + counters.first_divergence_at_expected_step = at
        /\ counters.direct_return_aliases = counters.never_diverged + Count(Ahead(job, at, seen))
        /\ counters.final_merges = counters.never_diverged + counters.later_reconvergences
        /\ counters.final_merges = Cardinality(UpTo(PairsMet(job), at + 1))
    BY <1>1 DEF ProfileInv, ProfileCounters
  <1>10. counters'.direct_return_aliases = counters'.never_diverged + Count(Ahead(job', at', seen'))
    BY <1>1, <1>3, <1>6, <1>7, <1>8, <1>9
  <1>11. at' < Len(job'.pairs) => Halfway(job', job'.pairs[at' + 1], seen')
    BY <1>1, <1>3, <1>4 DEF pair
  <1>12. /\ seen'.reverse \in 0..3 /\ seen'.reconverged \in BOOLEAN
         /\ at' \in 0..Len(job'.pairs) /\ ~(at' = Len(job'.pairs))
    BY <1>1, <1>2, <1>3, <1>5
  <1>. QED
    BY <1>1, <1>8, <1>9, <1>10, <1>11, <1>12 DEF ProfileInv

LEMMA HighestIs ==
  ASSUME NEW jb, NEW pair, IsPair(jb, pair)
  PROVE  HighestDifferingIndex(pair) = pair.differing_index
  <1>. DEFINE S == {n \in DOMAIN pair.left : pair.left[n] # pair.right[n]}
              d == pair.differing_index
  <1>1. /\ d \in 1..2 /\ DOMAIN pair.left = 1..3
        /\ \A n \in 1..3 : (pair.left[n] # pair.right[n]) <=> n = d + 1
    BY LenProperties DEF IsPair
  <1>. HIDE DEF d
  <1>2. S = {d + 1}
    BY <1>1
  <1>. HIDE DEF S
  <1>3. Max(S) = d + 1
    <2>1. \A x \in S : x \in Int
      BY <1>1, <1>2
    <2>2. IsMost(d + 1, S)
      BY <1>1, <1>2 DEF IsMost
    <2>. QED
      BY <2>1, <2>2, MostIsMax
  <1>4. HighestDifferingIndex(pair) = Max(S) - 1
    BY DEF HighestDifferingIndex, S
  <1>. QED
    BY <1>1, <1>3, <1>4 DEF d

(* What a pair adds: it met, or diverged in its place, and came together.  *)
PairAdded(c, met, again) ==
  [c EXCEPT !.never_diverged = @ + met,
            !.first_divergence_at_expected_step = @ + (1 - met),
            !.delayed_divergence = @ + 0,
            !.later_reconvergences = @ + again,
            !.final_merges = @ + (met + again)]

LEMMA PairAdds ==
  ASSUME NEW c \in ProfileCounters, NEW met \in 0..1, NEW again \in 0..1
  PROVE  /\ PairAdded(c, met, again) \in ProfileCounters
         /\ PairAdded(c, met, again).direct_return_aliases = c.direct_return_aliases
         /\ PairAdded(c, met, again).never_diverged = c.never_diverged + met
         /\ PairAdded(c, met, again).first_divergence_at_expected_step
              = c.first_divergence_at_expected_step + (1 - met)
         /\ PairAdded(c, met, again).delayed_divergence = c.delayed_divergence
         /\ PairAdded(c, met, again).later_reconvergences = c.later_reconvergences + again
         /\ PairAdded(c, met, again).final_merges = c.final_merges + (met + again)
  <1>. DEFINE later == 1 - met
              all == met + again
  <1>1. met \in Nat /\ later \in Nat /\ again \in Nat /\ all \in Nat
    OBVIOUS
  <1>2. PairAdded(c, met, again) =
          [direct_return_aliases |-> c.direct_return_aliases,
           never_diverged |-> c.never_diverged + met,
           first_divergence_at_expected_step |-> c.first_divergence_at_expected_step + later,
           delayed_divergence |-> c.delayed_divergence + 0,
           later_reconvergences |-> c.later_reconvergences + again,
           final_merges |-> c.final_merges + all]
    <2>. HIDE DEF later, all
    <2>1. PairAdded(c, met, again) =
            [c EXCEPT !.never_diverged = @ + met,
                      !.first_divergence_at_expected_step = @ + later,
                      !.delayed_divergence = @ + 0,
                      !.later_reconvergences = @ + again,
                      !.final_merges = @ + all]
      BY Zenon DEF PairAdded, later, all
    <2>. QED
      BY <2>1 DEF ProfileCounters
  <1>. HIDE DEF later, all
  <1>3. /\ c.direct_return_aliases \in Nat /\ c.never_diverged \in Nat
        /\ c.first_divergence_at_expected_step \in Nat /\ c.delayed_divergence \in Nat
        /\ c.later_reconvergences \in Nat /\ c.final_merges \in Nat
    BY DEF ProfileCounters
  <1>4. PairAdded(c, met, again) \in ProfileCounters
    BY <1>1, <1>2, <1>3 DEF ProfileCounters
  <1>. QED
    BY <1>1, <1>2, <1>3, <1>4 DEF later, all

LEMMA PairKeeps ==
  ASSUME job \in JobsOf(PairTools), ProfileInv, ProfilePair
  PROVE  ProfileInv'
  <1>. DEFINE pair == job.pairs[at + 1]
              t == FreshIn(job, at + 1)
              d == pair.differing_index
              met == MetAt(job, pair)
              same == seen.left = seen.right
  <1>1. /\ at \in 0..Len(job.pairs) /\ at < Len(job.pairs) /\ seen.reverse = 0
        /\ seen.reconverged \in BOOLEAN /\ Halfway(job, pair, seen)
        /\ counters \in ProfileCounters /\ at' = at + 1 /\ job' = job
    BY DEF ProfileInv, ProfilePair
  <1>2. IsHash(job) /\ Returnable(job, <<>>) /\ IsPair(job, pair) /\ Len(job.pairs) \in Nat
        /\ at + 1 \in 1..Len(job.pairs)
    <2>1. Len(job.pairs) \in Nat
      BY PairJob
    <2>2. at + 1 \in 1..Len(job.pairs)
      BY <1>1, <2>1
    <2>. QED
      BY <2>1, <2>2, PairJob, ProfileJob
  <1>3. d \in 1..2 /\ HighestDifferingIndex(pair) = d
    BY <1>2, HighestIs DEF IsPair
  <1>4. /\ seen' = t
        /\ counters' = [counters EXCEPT
           !.never_diverged = @ + Count(seen.first_divergence_step = 0),
           !.first_divergence_at_expected_step =
               @ + Count(seen.first_divergence_step # 0 /\ seen.first_divergence_step = 3 - d),
           !.delayed_divergence =
               @ + Count(seen.first_divergence_step # 0 /\ seen.first_divergence_step # 3 - d),
           !.later_reconvergences = @ + Count(seen.reconverged),
           !.final_merges = @ + Count(seen.left = seen.right)]
    BY <1>3, FreshIs, Zenon DEF ProfilePair
  <1>. HIDE DEF pair, t, d
  <1>5. /\ seen.left = BackTo(job, pair.left, 3) /\ seen.right = BackTo(job, pair.right, 3)
        /\ seen.first_divergence_step = IF met THEN 0 ELSE 3 - d
        /\ seen.reconverged <=> ~met /\ same
    <2>1. 3 - seen.reverse = 3 /\ ~(seen.reverse > pair.differing_index)
      BY <1>1, <1>3 DEF d
    <2>. QED
      BY <1>1, <2>1 DEF Halfway, d
  <1>6. met => same
    <2>. SUFFICES ASSUME met PROVE same
      OBVIOUS
    <2>1. OneApart(job, pair.left, pair.right, 3 - d) /\ Len(pair.left) = 3
      BY <1>2, PairAlone DEF IsPair, d
    <2>2. BackTo(job, pair.left, 3 - d) = BackTo(job, pair.right, 3 - d)
      BY DEF MetAt, d
    <2>3. 3 - d \in (3 - d)..Len(pair.left) /\ 3 \in (3 - d)..Len(pair.left)
      BY <1>3, <2>1
    <2>4. BackTo(job, pair.left, 3) = BackTo(job, pair.right, 3)
      BY <1>2, <2>1, <2>2, <2>3, AlikeBehind
    <2>. QED
      BY <1>5, <2>4
  <1>. HIDE DEF met, same
  <1>7. /\ Count(seen.first_divergence_step = 0) = Count(met)
        /\ Count(seen.first_divergence_step # 0 /\ seen.first_divergence_step = 3 - d) = 1 - Count(met)
        /\ Count(seen.first_divergence_step # 0 /\ seen.first_divergence_step # 3 - d) = 0
    BY <1>3, <1>5 DEF Count
  <1>8. Count(seen.left = seen.right) = Count(met) + Count(seen.reconverged)
    BY <1>5, <1>6 DEF Count, same
  <1>9. Count(met) \in 0..1 /\ Count(seen.reconverged) \in 0..1
    BY DEF Count
  <1>10. /\ Cardinality(UpTo(PairsMet(job), (at + 1) + 1))
              = Cardinality(UpTo(PairsMet(job), at + 1)) + Count(at + 1 \in PairsMet(job))
         /\ (at + 1 \in PairsMet(job) <=> seen.left = seen.right)
    <2>1. at + 1 \in Nat
      BY <1>2
    <2>2. at + 1 \in PairsMet(job) <=> seen.left = seen.right
      BY <1>2, <1>5 DEF PairsMet, pair
    <2>. QED
      BY <2>1, <2>2, OneMoreIn
  <1>11. Count(at + 1 \in PairsMet(job)) = Count(seen.left = seen.right)
    BY <1>10 DEF Count
  <1>. DEFINE cm == Count(met)
              cr == Count(seen.reconverged)
  <1>12. /\ counters' \in ProfileCounters
         /\ counters'.direct_return_aliases = counters.direct_return_aliases
         /\ counters'.never_diverged = counters.never_diverged + cm
         /\ counters'.first_divergence_at_expected_step
              = counters.first_divergence_at_expected_step + (1 - cm)
         /\ counters'.delayed_divergence = counters.delayed_divergence
         /\ counters'.later_reconvergences = counters.later_reconvergences + cr
         /\ counters'.final_merges = counters.final_merges + (cm + cr)
    <2>1. counters' = PairAdded(counters, cm, cr)
      BY <1>4, <1>7, <1>8, Zenon DEF PairAdded
    <2>2. cm \in 0..1 /\ cr \in 0..1 /\ counters \in ProfileCounters
      BY <1>1, <1>9
    <2>. HIDE DEF cm, cr
    <2>. QED
      BY <2>1, <2>2, PairAdds
  <1>13. /\ counters.never_diverged \in Nat /\ counters.direct_return_aliases \in Nat
         /\ counters.first_divergence_at_expected_step \in Nat
         /\ counters.later_reconvergences \in Nat /\ counters.final_merges \in Nat
         /\ counters.delayed_divergence = 0
         /\ counters.never_diverged + counters.first_divergence_at_expected_step = at
         /\ counters.direct_return_aliases = counters.never_diverged + Count(Ahead(job, at, seen))
         /\ counters.final_merges = counters.never_diverged + counters.later_reconvergences
         /\ counters.final_merges = Cardinality(UpTo(PairsMet(job), at + 1))
    BY <1>1 DEF ProfileInv, ProfileCounters
  <1>14. Count(Ahead(job, at, seen)) = Count(met)
    <2>1. Ahead(job, at, seen) <=> met
      BY <1>1, <1>3 DEF Ahead, met, pair, d
    <2>. QED
      BY <2>1 DEF Count
  <1>15. /\ t.reverse = 3 /\ t.reconverged = FALSE
         /\ at + 1 < Len(job.pairs) => Halfway(job, job.pairs[(at + 1) + 1], t)
         /\ ~Ahead(job, at + 1, t)
    <2>1. at + 1 \in 0..Len(job.pairs)
      BY <1>2
    <2>. QED
      BY <2>1, FreshStarts DEF t
  <1>16. Count(Ahead(job', at', seen')) = 0
    BY <1>1, <1>4, <1>15 DEF Count
  <1>22. cm \in 0..1 /\ cr \in 0..1
    BY <1>9
  <1>23. Count(Ahead(job, at, seen)) = cm
    BY <1>14
  <1>24. Cardinality(UpTo(PairsMet(job), (at + 1) + 1)) = Cardinality(UpTo(PairsMet(job), at + 1)) + (cm + cr)
    BY <1>8, <1>10, <1>11
  <1>. HIDE DEF cm, cr
  <1>17. counters'.direct_return_aliases = counters'.never_diverged + Count(Ahead(job', at', seen'))
    BY <1>12, <1>13, <1>16, <1>22, <1>23
  <1>18. /\ counters'.delayed_divergence = 0
         /\ counters'.never_diverged + counters'.first_divergence_at_expected_step = at + 1
         /\ counters'.final_merges = counters'.never_diverged + counters'.later_reconvergences
    <2>1. at \in Nat
      BY <1>1
    <2>2. counters'.delayed_divergence = 0
      BY <1>12, <1>13
    <2>3. counters'.never_diverged + counters'.first_divergence_at_expected_step = at + 1
      BY <1>12, <1>13, <1>22
    <2>4. counters'.final_merges = counters'.never_diverged + counters'.later_reconvergences
      BY <1>12, <1>13, <1>22
    <2>. QED
      BY <2>2, <2>3, <2>4
  <1>19. counters'.final_merges = Cardinality(UpTo(PairsMet(job), (at + 1) + 1))
    BY <1>12, <1>13, <1>24
  <1>20. /\ seen'.reverse \in 0..3 /\ seen'.reverse = 3 /\ seen'.reconverged \in BOOLEAN
         /\ at + 1 \in 0..Len(job.pairs)
    <2>1. seen'.reverse = 3 /\ at + 1 \in 0..Len(job.pairs)
      BY <1>2, <1>4, <1>15
    <2>2. seen'.reconverged \in BOOLEAN
      BY <1>4, <1>15, Zenon
    <2>. QED
      BY <2>1, <2>2
  <1>21. at' < Len(job'.pairs) => Halfway(job', job'.pairs[at' + 1], seen')
    BY <1>1, <1>4, <1>15
  <1>. QED
    BY <1>1, <1>12, <1>17, <1>18, <1>19, <1>20, <1>21 DEF ProfileInv

LEMMA ProfileIsExact ==
  ASSUME job \in JobsOf(PairTools), ProfileInv
  PROVE  ProfileExact
  <1>1. /\ at \in 0..Len(job.pairs) /\ Len(job.pairs) \in Nat
        /\ counters \in ProfileCounters
        /\ counters.delayed_divergence = 0
        /\ counters.never_diverged + counters.first_divergence_at_expected_step = at
        /\ counters.direct_return_aliases = counters.never_diverged + Count(Ahead(job, at, seen))
        /\ counters.final_merges = counters.never_diverged + counters.later_reconvergences
        /\ counters.final_merges = Cardinality(UpTo(PairsMet(job), at + 1))
    BY PairJob DEF ProfileInv
  <1>2. \A n \in 1..Len(job.pairs) : IsPair(job, job.pairs[n])
    BY PairJob
  <1>3. ASSUME seen.reverse = 3 PROVE counters.direct_return_aliases = counters.never_diverged
    <2>1. ~Ahead(job, at, seen)
      <3>. SUFFICES ASSUME at < Len(job.pairs), 3 <= job.pairs[at + 1].differing_index PROVE FALSE
        BY <1>3 DEF Ahead
      <3>1. at + 1 \in 1..Len(job.pairs)
        BY <1>1
      <3>2. job.pairs[at + 1].differing_index \in 1..2
        BY <1>2, <3>1 DEF IsPair
      <3>. QED
        BY <3>2
    <2>2. Count(Ahead(job, at, seen)) = 0
      BY <2>1 DEF Count
    <2>3. counters.never_diverged \in Nat
      BY <1>1 DEF ProfileCounters
    <2>. QED
      BY <1>1, <2>2, <2>3
  <1>4. UpTo(PairsMet(job), at + 1)
          = {n \in 1..at : ReturnedTo(job.pairs[n].left, 0) = ReturnedTo(job.pairs[n].right, 0)}
    <2>1. UpTo(PairsMet(job), at + 1)
            = {n \in 1..at : BackTo(job, job.pairs[n].left, 3) = BackTo(job, job.pairs[n].right, 3)}
      <3>1. 0..((at + 1) - 1) = {0} \cup (1..at) /\ 1..at \subseteq 1..Len(job.pairs) /\ 0 \notin 1..Len(job.pairs)
        BY <1>1
      <3>. QED
        BY <3>1 DEF UpTo, PairsMet
    <2>2. ASSUME NEW n \in 1..at
          PROVE  /\ ReturnedTo(job.pairs[n].left, 0) = BackTo(job, job.pairs[n].left, 3)
                 /\ ReturnedTo(job.pairs[n].right, 0) = BackTo(job, job.pairs[n].right, 3)
      <3>1. n \in 1..Len(job.pairs)
        BY <1>1
      <3>. DEFINE l == job.pairs[n].left
                  r == job.pairs[n].right
      <3>2. Len(l) = 3 /\ Len(r) = 3
        BY <1>2, <3>1 DEF IsPair
      <3>3. ReturnedTo(l, 0) = BackTo(job, l, Len(l) - 0) /\ ReturnedTo(r, 0) = BackTo(job, r, Len(r) - 0)
        BY StatesAre
      <3>. HIDE DEF l, r
      <3>4. ReturnedTo(l, 0) = BackTo(job, l, 3) /\ ReturnedTo(r, 0) = BackTo(job, r, 3)
        BY <3>2, <3>3
      <3>. QED
        BY <3>4 DEF l, r
    <2>. QED
      BY <2>1, <2>2
  <1>. QED
    BY <1>1, <1>3, <1>4 DEF ProfileExact

-----------------------------------------------------------------------------
(* dual_return_alias: the gate of a pair on the common state itself.       *)
DualLeft(jb, n) ==
  GateOf(jb, ForwardBy(jb, PairIn(jb, n).left), PairIn(jb, n).left, PairIn(jb, n).differing_index)
DualRight(jb, n) ==
  GateOf(jb, ForwardBy(jb, PairIn(jb, n).left), PairIn(jb, n).right, PairIn(jb, n).differing_index)

Heads(jb) == {n \in CasesOf(jb) : n % Len(jb.suffixes) = 0}
DirectMet(jb) == {n \in Heads(jb) : DualLeft(jb, n) = DualRight(jb, n)}
HeadDistances(jb, k) == {StateDistance(DualLeft(jb, n), DualRight(jb, n)) : n \in UpTo(Heads(jb), k)}

SurfaceOf(jb, state) ==
  {p \in (DOMAIN jb.absorb[state]) \X (DOMAIN jb.absorb[state]) :
     /\ p[1] < p[2] /\ jb.absorb[state][p[1]] = jb.absorb[state][p[2]]
     /\ AbsDelta(p[1], p[2]) \in jb.family_deltas}

CommonOf(jb, n) == ForwardBy(jb, PairIn(jb, n).left)

AliasHits(jb) ==
  {n \in CasesOf(jb) : (n + 1) % Len(jb.suffixes) = 0 /\ SurfaceOf(jb, CommonOf(jb, n)) # {}}

LEMMA DualJob ==
  ASSUME NEW jb \in JobsOf(PairTools)
  PROVE  /\ IsHash(jb) /\ TellsApart(StatesOf(jb)) /\ Injective(jb) /\ IsFiniteSet(SymbolsOf(jb))
         /\ Cardinality(SymbolsOf(jb)) \in Nat
         /\ SymbolsOf(jb) = 0..(Cardinality(SymbolsOf(jb)) - 1)
         /\ Len(jb.pairs) \in Nat /\ Len(jb.suffixes) \in Nat
         /\ (jb.tool # "aware" => Len(jb.suffixes) # 0)
         /\ jb.tool = "dual" => jb.family_surface \in BOOLEAN
  <1>. DEFINE B == DOMAIN jb.absorb[jb.start]
              c == Cardinality(B)
  <1>1. /\ c \in Nat /\ B = 0..(c - 1)
        /\ TellsApart(DOMAIN jb.absorb)
        /\ jb.tool = "dual" => jb.family_surface \in BOOLEAN
    <2>1. Cardinality(B) \in Nat /\ B = 0..(Cardinality(B) - 1)
      BY PairHashesAssumption, Zenon DEF PairsOfHash
    <2>2. TellsApart(DOMAIN jb.absorb)
      BY PairHashesAssumption, Zenon
    <2>3. jb.tool = "dual" => jb.family_surface \in BOOLEAN
      BY PairHashesAssumption, Zenon
    <2>. QED
      BY <2>1, <2>2, <2>3
  <1>2. IsFiniteSet(B)
    <2>. HIDE DEF c
    <2>1. c - 1 \in Int
      BY <1>1
    <2>2. IsFiniteSet(0..(c - 1))
      BY <2>1, FS_Interval
    <2>. QED
      BY <1>1, <2>2
  <1>3. SymbolsOf(jb) = B
    BY DEF SymbolsOf
  <1>4. TellsApart(StatesOf(jb))
    BY <1>1 DEF StatesOf
  <1>. QED
    BY <1>1, <1>2, <1>3, <1>4, PairJob, ProfileJob

LEMMA GateInto ==
  ASSUME NEW jb, IsHash(jb), Returnable(jb, <<>>), NEW pair, IsPair(jb, pair), NEW state \in StatesOf(jb)
  PROVE  /\ GateOf(jb, state, pair.left, pair.differing_index) \in StatesOf(jb)
         /\ GateOf(jb, state, pair.right, pair.differing_index) \in StatesOf(jb)
  <1>. DEFINE d == pair.differing_index
              b == pair.left[d + 1]
              c == pair.right[d + 1]
  <1>1. d \in 1..2 /\ b \in SymbolsOf(jb) /\ c \in SymbolsOf(jb)
    <2>1. d + 1 \in 1..3 /\ d \in 1..2
      BY DEF IsPair
    <2>. QED
      BY <2>1, ElementOfSeq DEF IsPair
  <1>2. \A x \in SymbolsOf(jb), k \in 0..(0 + 2) : ReturnSymbol(x, k) \in SymbolsOf(jb)
    <2>1. Len(<<>>) = 0
      OBVIOUS
    <2>. QED
      BY <2>1 DEF Returnable
  <1>3. jb.absorb \in [StatesOf(jb) -> [SymbolsOf(jb) -> StatesOf(jb)]]
    BY DEF IsHash, IsStep
  <1>. HIDE DEF b, c, d
  <1>4. ReturnSymbol(b, d) \in SymbolsOf(jb) /\ ReturnSymbol(c, d) \in SymbolsOf(jb)
    BY <1>1, <1>2
  <1>. QED
    BY <1>3, <1>4 DEF GateOf, b, c, d

LEMMA DualStates ==
  ASSUME NEW jb \in JobsOf(PairTools), NEW n \in CasesOf(jb)
  PROVE  /\ CommonOf(jb, n) \in StatesOf(jb)
         /\ DualLeft(jb, n) \in StatesOf(jb) /\ DualRight(jb, n) \in StatesOf(jb)
         /\ StateDistance(DualLeft(jb, n), DualRight(jb, n)) \in Nat
         /\ StateDistance(DualLeft(jb, n), DualRight(jb, n)) = 0 <=> DualLeft(jb, n) = DualRight(jb, n)
  <1>. DEFINE pair == PairIn(jb, n)
              common == ForwardBy(jb, pair.left)
  <1>1. IsHash(jb) /\ Returnable(jb, <<>>) /\ IsPair(jb, pair)
    BY CaseIs, PairJob
  <1>2. common \in StatesOf(jb)
    BY <1>1, RunsInto DEF IsHash, IsPair, ForwardBy
  <1>. HIDE DEF pair, common
  <1>3. /\ GateOf(jb, common, pair.left, pair.differing_index) \in StatesOf(jb)
        /\ GateOf(jb, common, pair.right, pair.differing_index) \in StatesOf(jb)
    BY <1>1, <1>2, GateInto
  <1>4. DualLeft(jb, n) \in StatesOf(jb) /\ DualRight(jb, n) \in StatesOf(jb)
    BY <1>3 DEF DualLeft, DualRight, pair, common
  <1>. QED
    BY <1>2, <1>4, DualJob DEF TellsApart, CommonOf, pair, common

(* Two messages that one symbol takes to one state are an alias of it.     *)
LEMMA DirectIsAlias ==
  ASSUME NEW jb \in JobsOf(PairTools), NEW n \in DirectMet(jb),
         jb.family_deltas = 1..(Cardinality(DOMAIN jb.absorb[jb.start]) - 1)
  PROVE  SurfaceOf(jb, CommonOf(jb, n)) # {}
  <1>. DEFINE pair == PairIn(jb, n)
              d == pair.differing_index
              b == ReturnSymbol(pair.left[d + 1], d)
              c == ReturnSymbol(pair.right[d + 1], d)
              S == CommonOf(jb, n)
              card == Cardinality(SymbolsOf(jb))
  <1>1. n \in CasesOf(jb) /\ DualLeft(jb, n) = DualRight(jb, n)
    BY DEF DirectMet, Heads
  <1>2. IsHash(jb) /\ Returnable(jb, <<>>) /\ Injective(jb) /\ IsPair(jb, pair)
    BY <1>1, CaseIs, PairJob, ProfileJob
  <1>3. d \in 1..2 /\ pair.left[d + 1] # pair.right[d + 1]
        /\ pair.left[d + 1] \in SymbolsOf(jb) /\ pair.right[d + 1] \in SymbolsOf(jb)
    <2>1. d \in 1..2 /\ d + 1 \in 1..3
      BY <1>2 DEF IsPair
    <2>. QED
      BY <1>2, <2>1, ElementOfSeq DEF IsPair
  <1>4. b \in SymbolsOf(jb) /\ c \in SymbolsOf(jb) /\ b # c
    <2>1. \A x \in SymbolsOf(jb), k \in 0..(0 + 2) : ReturnSymbol(x, k) \in SymbolsOf(jb)
      <3>1. Len(<<>>) = 0
        OBVIOUS
      <3>. QED
        BY <1>2, <3>1 DEF Returnable
    <2>2. d \in 0..(0 + 2)
      BY <1>3
    <2>3. b # c
      BY <1>2, <1>3 DEF Injective
    <2>. HIDE DEF d
    <2>. QED
      BY <1>3, <2>1, <2>2, <2>3
  <1>5. jb.absorb[S][b] = jb.absorb[S][c]
    BY <1>1, Zenon DEF DualLeft, DualRight, GateOf, CommonOf
  <1>6. S \in StatesOf(jb)
    BY <1>1, DualStates
  <1>7. DOMAIN jb.absorb[S] = SymbolsOf(jb)
    <2>1. jb.absorb \in [StatesOf(jb) -> [SymbolsOf(jb) -> StatesOf(jb)]]
      BY <1>2 DEF IsHash, IsStep
    <2>. HIDE DEF S
    <2>. QED
      BY <1>6, <2>1
  <1>8. card \in Nat /\ SymbolsOf(jb) = 0..(card - 1) /\ jb.family_deltas = 1..(card - 1)
    BY DualJob DEF SymbolsOf
  <1>. HIDE DEF b, c, S, card
  <1>9. b \in 0..(card - 1) /\ c \in 0..(card - 1) /\ b # c /\ card \in Nat
    BY <1>4, <1>8
  <1>10. AbsDelta(b, c) \in 1..(card - 1) /\ AbsDelta(c, b) \in 1..(card - 1)
    BY <1>9 DEF AbsDelta
  <1>11. CASE b < c
    <2>1. <<b, c>> \in SurfaceOf(jb, S)
      BY <1>4, <1>5, <1>7, <1>8, <1>10, <1>11 DEF SurfaceOf
    <2>. QED
      BY <2>1 DEF S
  <1>12. CASE c < b
    <2>1. <<c, b>> \in SurfaceOf(jb, S)
      BY <1>4, <1>5, <1>7, <1>8, <1>10, <1>12 DEF SurfaceOf
    <2>. QED
      BY <2>1 DEF S
  <1>. QED
    BY <1>9, <1>11, <1>12

(* Behind the last suffix of a pair stands the surface of its state.       *)
LEMMA DirectAreHits ==
  ASSUME NEW jb \in JobsOf(PairTools), jb.tool = "dual",
         jb.family_deltas = 1..(Cardinality(DOMAIN jb.absorb[jb.start]) - 1)
  PROVE  /\ IsFiniteSet(DirectMet(jb)) /\ IsFiniteSet(AliasHits(jb))
         /\ Cardinality(DirectMet(jb)) <= Cardinality(AliasHits(jb))
  <1>. DEFINE p == Len(jb.pairs)
              d == Len(jb.suffixes)
              f == [n \in DirectMet(jb) |-> n + d - 1]
  <1>1. p \in Nat /\ d \in Nat \ {0} /\ CasesOf(jb) = 0..(p * d - 1)
    BY PairJob DEF CasesOf
  <1>2. IsFiniteSet(CasesOf(jb))
    <2>. HIDE DEF p, d
    <2>1. p * d - 1 \in Int
      BY <1>1
    <2>2. IsFiniteSet(0..(p * d - 1))
      BY <2>1, FS_Interval
    <2>. QED
      BY <1>1, <2>2
  <1>3. IsFiniteSet(DirectMet(jb)) /\ IsFiniteSet(AliasHits(jb))
    <2>1. DirectMet(jb) \subseteq CasesOf(jb) /\ AliasHits(jb) \subseteq CasesOf(jb)
      BY DEF DirectMet, Heads, AliasHits
    <2>. QED
      BY <1>2, <2>1, FS_Subset
  <1>4. ASSUME NEW n \in DirectMet(jb) PROVE n \in Nat /\ n + d - 1 \in AliasHits(jb)
    <2>1. n \in CasesOf(jb) /\ n % d = 0 /\ SurfaceOf(jb, CommonOf(jb, n)) # {}
      BY DirectIsAlias DEF DirectMet, Heads
    <2>. DEFINE m == n + d - 1
    <2>2. /\ m \in 0..(p * d - 1) /\ m \div d = n \div d /\ (m + 1) % d = 0 /\ n \in Nat
      <3>1. n \in 0..(p * d - 1)
        BY <1>1, <2>1
      <3>. HIDE DEF p, d
      <3>2. n \in Nat
        BY <1>1, <3>1
      <3>. QED
        BY <1>1, <2>1, <3>1, <3>2, LastPlace
    <2>. HIDE DEF m
    <2>3. PairIn(jb, m) = PairIn(jb, n)
      BY <2>2 DEF PairIn
    <2>4. CommonOf(jb, m) = CommonOf(jb, n)
      BY <2>3 DEF CommonOf
    <2>5. m \in AliasHits(jb)
      BY <1>1, <2>1, <2>2, <2>4 DEF AliasHits
    <2>. QED
      BY <2>2, <2>5 DEF m
  <1>5. f \in Injection(DirectMet(jb), AliasHits(jb))
    <2>. DEFINE D == DirectMet(jb)
                H == AliasHits(jb)
    <2>. HIDE DEF D, H, d
    <2>1. \A n \in D : n \in Nat /\ n + d - 1 \in H
      BY <1>4 DEF D, H
    <2>2. [n \in D |-> n + d - 1] \in Injection(D, H)
      <3>1. [n \in D |-> n + d - 1] \in [D -> H]
        BY <2>1
      <3>2. ASSUME NEW a \in D, NEW b \in D, [n \in D |-> n + d - 1][a] = [n \in D |-> n + d - 1][b]
            PROVE  a = b
        <4>1. a + d - 1 = b + d - 1
          BY <3>2
        <4>. QED
          BY <1>1, <2>1, <4>1
      <3>. QED
        BY <3>1, <3>2 DEF Injection, IsInjective
    <2>. QED
      BY <2>2 DEF D, H
  <1>. HIDE DEF f
  <1>. QED
    BY <1>3, <1>5, FS_Injection

DualCounters ==
  [return_gate_cases : Nat, direct_return_merges : Nat, full_foldback_merges : Nat,
   family_surface_contexts : Nat, family_surface_alias_contexts : Nat,
   family_surface_alias_pairs : Nat]

(* The pairs entered are those of the heads up to here.                    *)
Entered == at + Count(seen.gate)

DualInv ==
  /\ at \in Nat /\ 0..(at - 1) \subseteq CasesOf(job)
  /\ pc = "done" => at = Cases
  /\ DOMAIN seen = {"gate", "least_return"}
  /\ seen.gate \in BOOLEAN /\ (seen.gate => at \in Heads(job))
  /\ counters \in DualCounters
  /\ counters.full_foldback_merges = Cardinality(UpTo(FoldMet(job), at))
  /\ counters.direct_return_merges = Cardinality(UpTo(DirectMet(job), Entered))
  /\ IsLeastOf(seen.least_return, HeadDistances(job, Entered))
  /\ counters.family_surface_contexts = IF job.family_surface THEN at \div Len(job.suffixes) ELSE 0
  /\ job.family_surface =>
       counters.family_surface_alias_contexts = Cardinality(UpTo(AliasHits(job), at))
  /\ counters.family_surface_alias_contexts <= counters.family_surface_alias_pairs

LEMMA CasesIsNat == job \in JobsOf(PairTools) => Cases \in Nat
  <1>. SUFFICES ASSUME job \in JobsOf(PairTools) PROVE Cases \in Nat
    OBVIOUS
  <1>. DEFINE p == Len(job.pairs)
              d == Len(job.suffixes)
  <1>1. p \in Nat /\ d \in Nat
    BY PairJob
  <1>. HIDE DEF p, d
  <1>2. p * d \in Nat
    BY <1>1
  <1>. QED
    BY <1>2 DEF Cases, p, d

LEMMA HeadDistancesGrow ==
  ASSUME NEW jb \in JobsOf(PairTools), NEW k \in Nat
  PROVE  /\ HeadDistances(jb, 0) = {} /\ HeadDistances(jb, k) \in SUBSET Nat
         /\ k \notin Heads(jb) => HeadDistances(jb, k + 1) = HeadDistances(jb, k)
         /\ k \in Heads(jb) =>
              HeadDistances(jb, k + 1)
                = HeadDistances(jb, k) \cup {StateDistance(DualLeft(jb, k), DualRight(jb, k))}
  <1>1. UpTo(Heads(jb), 0) = {} /\ (k \notin Heads(jb) => UpTo(Heads(jb), k + 1) = UpTo(Heads(jb), k))
    BY OneMoreIn
  <1>2. ASSUME k \in Heads(jb) PROVE UpTo(Heads(jb), k + 1) = UpTo(Heads(jb), k) \cup {k}
    <2>1. 0..((k + 1) - 1) = (0..(k - 1)) \cup {k}
      OBVIOUS
    <2>. QED
      BY <1>2, <2>1 DEF UpTo
  <1>3. HeadDistances(jb, k) \in SUBSET Nat
    <2>. SUFFICES ASSUME NEW n \in UpTo(Heads(jb), k)
                  PROVE  StateDistance(DualLeft(jb, n), DualRight(jb, n)) \in Nat
      BY DEF HeadDistances
    <2>1. n \in CasesOf(jb)
      BY DEF UpTo, Heads
    <2>. QED
      BY <2>1, DualStates
  <1>. QED
    BY <1>1, <1>2, <1>3 DEF HeadDistances

LEMMA DualStarts ==
  ASSUME PairInit, job.tool = "dual"
  PROVE  DualInv
  <1>1. /\ job \in JobsOf(PairTools) /\ pc = "scan" /\ at = 0
        /\ seen = [gate |-> FALSE, least_return |-> <<>>]
        /\ counters = [return_gate_cases |-> 0, direct_return_merges |-> 0,
                       full_foldback_merges |-> 0, family_surface_contexts |-> 0,
                       family_surface_alias_contexts |-> 0, family_surface_alias_pairs |-> 0]
    BY DEF PairInit, Start
  <1>2. seen.gate = FALSE /\ seen.least_return = <<>> /\ Entered = 0
    BY <1>1 DEF Entered, Count
  <1>3. HeadDistances(job, 0) = {}
    BY <1>1, HeadDistancesGrow
  <1>4. IsLeastOf(seen.least_return, HeadDistances(job, Entered))
    BY <1>2, <1>3 DEF IsLeastOf
  <1>5. /\ Cardinality(UpTo(FoldMet(job), 0)) = 0 /\ Cardinality(UpTo(DirectMet(job), 0)) = 0
        /\ Cardinality(UpTo(AliasHits(job), 0)) = 0
    BY OneMoreIn
  <1>6. 0 \div Len(job.suffixes) = 0
    <2>. DEFINE d == Len(job.suffixes)
    <2>1. d \in Nat \ {0}
      BY <1>1, PairJob
    <2>. HIDE DEF d
    <2>2. (d * 0 + 0) \div d = 0 /\ d * 0 + 0 = 0
      <3>1. 0 \in 0..(d - 1)
        BY <2>1
      <3>. QED
        BY <2>1, <3>1, QuotientIs
    <2>3. 0 \div d = 0
      BY <2>2
    <2>. QED
      BY <2>3 DEF d
  <1>7. counters \in DualCounters
    BY <1>1 DEF DualCounters
  <1>8. at \in Nat /\ 0..(at - 1) \subseteq CasesOf(job) /\ ~(pc = "done")
    BY <1>1
  <1>9. counters.family_surface_contexts = IF job.family_surface THEN at \div Len(job.suffixes) ELSE 0
    BY <1>1, <1>6
  <1>10. seen.gate \in BOOLEAN /\ (seen.gate => at \in Heads(job))
    BY <1>2, Zenon
  <1>11. /\ counters.full_foldback_merges = Cardinality(UpTo(FoldMet(job), at))
         /\ counters.direct_return_merges = Cardinality(UpTo(DirectMet(job), Entered))
         /\ counters.family_surface_alias_contexts = Cardinality(UpTo(AliasHits(job), at))
         /\ counters.family_surface_alias_contexts <= counters.family_surface_alias_pairs
    BY <1>1, <1>2, <1>5
  <1>12. DOMAIN seen = {"gate", "least_return"}
    BY <1>1
  <1>. QED
    BY <1>4, <1>7, <1>8, <1>9, <1>10, <1>11, <1>12, Zenon DEF DualInv

LEMMA DualGateKeeps ==
  ASSUME job \in JobsOf(PairTools), DualInv, DualGate
  PROVE  DualInv'
  <1>. DEFINE l == DualLeft(job, at)
              r == DualRight(job, at)
              pair == PairIn(job, at)
  <1>1. /\ at \in Nat /\ at < Cases /\ at % Len(job.suffixes) = 0 /\ seen.gate = FALSE
        /\ job' = job /\ pc' = pc /\ at' = at /\ counters \in DualCounters
    BY DEF DualInv, DualGate
  <1>2. at \in Heads(job)
    <2>1. at \in CasesOf(job)
      BY <1>1, CasesIsNat, CasesAre
    <2>. QED
      BY <1>1, <2>1 DEF Heads
  <1>3. /\ counters' = [counters EXCEPT !.return_gate_cases = @ + 1,
                                        !.direct_return_merges = @ + Count(l = r)]
        /\ seen' = [gate |-> TRUE,
                    least_return |-> Keep(seen.least_return, <<StateDistance(l, r)>>, pair.left, pair.right)]
    <2>1. \A state, message, index : Gate(state, message, index) = GateOf(job, state, message, index)
      BY Zenon DEF Gate, GateOf
    <2>2. PairOf(at) = pair /\ CommonState(pair) = ForwardBy(job, pair.left)
      BY CasesAre, StatesAre, Zenon DEF CommonState
    <2>3. /\ Gate(CommonState(pair), pair.left, pair.differing_index) = l
          /\ Gate(CommonState(pair), pair.right, pair.differing_index) = r
      BY <2>1, <2>2, Zenon DEF DualLeft, DualRight
    <2>. HIDE DEF pair, l, r
    <2>. QED
      BY <2>2, <2>3, Zenon DEF DualGate
  <1>4. /\ Entered = at /\ Entered' = at + 1
    <2>1. seen'.gate = TRUE
      BY <1>3
    <2>2. Count(seen.gate) = 0 /\ Count(seen'.gate) = 1
      BY <1>1, <2>1 DEF Count
    <2>. QED
      BY <1>1, <2>2 DEF Entered
  <1>5. IsLeastOf(seen'.least_return, HeadDistances(job, at + 1))
    <2>. DEFINE dist == StateDistance(l, r)
    <2>1. dist \in Nat
      BY <1>2, DualStates DEF Heads
    <2>2. IsLeastOf(seen.least_return, HeadDistances(job, at)) /\ HeadDistances(job, at) \in SUBSET Nat
      BY <1>1, <1>4, HeadDistancesGrow DEF DualInv
    <2>3. HeadDistances(job, at + 1) = HeadDistances(job, at) \cup {dist}
      BY <1>1, <1>2, HeadDistancesGrow
    <2>4. seen'.least_return = Keep(seen.least_return, <<dist>>, pair.left, pair.right)
      BY <1>3
    <2>. HIDE DEF dist
    <2>5. IsLeastOf(Keep(seen.least_return, <<dist>>, pair.left, pair.right), HeadDistances(job, at) \cup {dist})
      BY <2>1, <2>2, KeepsLeast
    <2>. QED
      BY <2>3, <2>4, <2>5
  <1>6. /\ Cardinality(UpTo(DirectMet(job), at + 1))
             = Cardinality(UpTo(DirectMet(job), at)) + Count(at \in DirectMet(job))
        /\ (at \in DirectMet(job) <=> l = r)
    BY <1>1, <1>2, OneMoreIn DEF DirectMet
  <1>. HIDE DEF l, r
  <1>7. Count(at \in DirectMet(job)) = Count(l = r) /\ Count(l = r) \in Nat
    BY <1>6 DEF Count
  <1>8. /\ counters' \in DualCounters
        /\ counters'.direct_return_merges = counters.direct_return_merges + Count(l = r)
        /\ counters'.full_foldback_merges = counters.full_foldback_merges
        /\ counters'.family_surface_contexts = counters.family_surface_contexts
        /\ counters'.family_surface_alias_contexts = counters.family_surface_alias_contexts
        /\ counters'.family_surface_alias_pairs = counters.family_surface_alias_pairs
    <2>. DEFINE more == Count(l = r)
    <2>. HIDE DEF more
    <2>1. more \in Nat
      BY <1>7 DEF more
    <2>2. counters' = [counters EXCEPT !.return_gate_cases = @ + 1, !.direct_return_merges = @ + more]
      BY <1>3 DEF more
    <2>3. /\ counters' \in DualCounters
          /\ counters'.direct_return_merges = counters.direct_return_merges + more
          /\ counters'.full_foldback_merges = counters.full_foldback_merges
          /\ counters'.family_surface_contexts = counters.family_surface_contexts
          /\ counters'.family_surface_alias_contexts = counters.family_surface_alias_contexts
          /\ counters'.family_surface_alias_pairs = counters.family_surface_alias_pairs
      <3>1. /\ counters.return_gate_cases \in Nat /\ counters.direct_return_merges \in Nat
            /\ counters.full_foldback_merges \in Nat /\ counters.family_surface_contexts \in Nat
            /\ counters.family_surface_alias_contexts \in Nat
            /\ counters.family_surface_alias_pairs \in Nat
        BY <1>1 DEF DualCounters
      <3>2. counters' =
              [return_gate_cases |-> counters.return_gate_cases + 1,
               direct_return_merges |-> counters.direct_return_merges + more,
               full_foldback_merges |-> counters.full_foldback_merges,
               family_surface_contexts |-> counters.family_surface_contexts,
               family_surface_alias_contexts |-> counters.family_surface_alias_contexts,
               family_surface_alias_pairs |-> counters.family_surface_alias_pairs]
        <4>1. counters \in DualCounters
          BY <1>1
        <4>. QED
          BY <2>2, <4>1 DEF DualCounters
      <3>3. counters' \in DualCounters
        BY <2>1, <3>1, <3>2 DEF DualCounters
      <3>. QED
        BY <3>2, <3>3
    <2>. QED
      BY <2>3 DEF more
  <1>9. counters'.direct_return_merges = Cardinality(UpTo(DirectMet(job), at + 1))
    BY <1>4, <1>6, <1>7, <1>8 DEF DualInv
  <1>10. seen'.gate = TRUE
    BY <1>3
  <1>11. /\ 0..(at - 1) \subseteq CasesOf(job) /\ (pc = "done" => at = Cases) /\ Cases' = Cases
         /\ counters.full_foldback_merges = Cardinality(UpTo(FoldMet(job), at))
         /\ counters.family_surface_contexts = IF job.family_surface THEN at \div Len(job.suffixes) ELSE 0
         /\ (job.family_surface =>
              counters.family_surface_alias_contexts = Cardinality(UpTo(AliasHits(job), at)))
         /\ counters.family_surface_alias_contexts <= counters.family_surface_alias_pairs
    BY <1>1 DEF DualInv, Cases
  <1>12. seen'.gate \in BOOLEAN /\ (seen'.gate => at' \in Heads(job'))
    BY <1>1, <1>2, <1>10
  <1>13. DOMAIN seen' = {"gate", "least_return"}
    BY <1>3
  <1>. QED
    BY <1>1, <1>4, <1>5, <1>8, <1>9, <1>11, <1>12, <1>13 DEF DualInv

LEMMA AliasesAre == \A state : FamilyAliases(state) = SurfaceOf(job, state)
  BY Zenon DEF FamilyAliases, SymbolAliases, SurfaceOf

LEMMA AliasesAreFinite ==
  ASSUME NEW jb \in JobsOf(PairTools), NEW state \in StatesOf(jb)
  PROVE  /\ IsFiniteSet(SurfaceOf(jb, state)) /\ Cardinality(SurfaceOf(jb, state)) \in Nat
         /\ Count(SurfaceOf(jb, state) # {}) <= Cardinality(SurfaceOf(jb, state))
  <1>. DEFINE B == SymbolsOf(jb)
              A == SurfaceOf(jb, state)
  <1>1. DOMAIN jb.absorb[state] = B /\ IsFiniteSet(B)
    <2>1. jb.absorb \in [StatesOf(jb) -> [SymbolsOf(jb) -> StatesOf(jb)]]
      BY DualJob DEF IsHash, IsStep
    <2>. QED
      BY <2>1, DualJob
  <1>2. IsFiniteSet(B \X B)
    BY <1>1, FS_Product
  <1>3. A \subseteq B \X B
    BY <1>1 DEF SurfaceOf
  <1>4. IsFiniteSet(A) /\ Cardinality(A) \in Nat
    BY <1>2, <1>3, FS_Subset, FS_CardinalityType
  <1>5. Cardinality(A) = 0 <=> A = {}
    BY <1>4, FS_EmptySet
  <1>. HIDE DEF A
  <1>6. Count(A # {}) <= Cardinality(A)
    BY <1>4, <1>5 DEF Count
  <1>. QED
    BY <1>4, <1>6 DEF A

(* What a case adds to the counters.                                       *)
CaseAdded(c, merged, surface, hit, pairs) ==
  [c EXCEPT !.full_foldback_merges = @ + merged,
            !.family_surface_contexts = @ + surface,
            !.family_surface_alias_contexts = @ + hit,
            !.family_surface_alias_pairs = @ + pairs]

LEMMA CaseAdds ==
  ASSUME NEW c \in DualCounters, NEW merged \in Nat, NEW surface \in Nat, NEW hit \in Nat, NEW pairs \in Nat
  PROVE  /\ CaseAdded(c, merged, surface, hit, pairs) \in DualCounters
         /\ CaseAdded(c, merged, surface, hit, pairs).direct_return_merges = c.direct_return_merges
         /\ CaseAdded(c, merged, surface, hit, pairs).full_foldback_merges
              = c.full_foldback_merges + merged
         /\ CaseAdded(c, merged, surface, hit, pairs).family_surface_contexts
              = c.family_surface_contexts + surface
         /\ CaseAdded(c, merged, surface, hit, pairs).family_surface_alias_contexts
              = c.family_surface_alias_contexts + hit
         /\ CaseAdded(c, merged, surface, hit, pairs).family_surface_alias_pairs
              = c.family_surface_alias_pairs + pairs
  <1>1. CaseAdded(c, merged, surface, hit, pairs) =
          [return_gate_cases |-> c.return_gate_cases,
           direct_return_merges |-> c.direct_return_merges,
           full_foldback_merges |-> c.full_foldback_merges + merged,
           family_surface_contexts |-> c.family_surface_contexts + surface,
           family_surface_alias_contexts |-> c.family_surface_alias_contexts + hit,
           family_surface_alias_pairs |-> c.family_surface_alias_pairs + pairs]
    <2>1. CaseAdded(c, merged, surface, hit, pairs) =
            [c EXCEPT !.full_foldback_merges = @ + merged,
                      !.family_surface_contexts = @ + surface,
                      !.family_surface_alias_contexts = @ + hit,
                      !.family_surface_alias_pairs = @ + pairs]
      BY Zenon DEF CaseAdded
    <2>. QED
      BY <2>1 DEF DualCounters
  <1>2. /\ c.return_gate_cases \in Nat /\ c.direct_return_merges \in Nat
        /\ c.full_foldback_merges \in Nat /\ c.family_surface_contexts \in Nat
        /\ c.family_surface_alias_contexts \in Nat /\ c.family_surface_alias_pairs \in Nat
    BY DEF DualCounters
  <1>3. CaseAdded(c, merged, surface, hit, pairs) \in DualCounters
    BY <1>1, <1>2 DEF DualCounters
  <1>. QED
    BY <1>1, <1>3

LEMMA EnteredAll ==
  ASSUME job \in JobsOf(PairTools), DualInv, at \in CasesOf(job),
         at % Len(job.suffixes) = 0 => seen.gate
  PROVE  /\ UpTo(DirectMet(job), Entered) = UpTo(DirectMet(job), at + 1)
         /\ HeadDistances(job, Entered) = HeadDistances(job, at + 1)
  <1>1. at \in Nat /\ seen.gate \in BOOLEAN
    BY DEF DualInv
  <1>2. CASE seen.gate
    <2>1. Entered = at + 1
      BY <1>1, <1>2 DEF Entered, Count
    <2>. QED
      BY <2>1
  <1>3. CASE ~seen.gate
    <2>1. Entered = at
      BY <1>1, <1>3 DEF Entered, Count
    <2>2. at \notin Heads(job) /\ at \notin DirectMet(job)
      BY <1>3 DEF Heads, DirectMet
    <2>3. UpTo(DirectMet(job), at + 1) = UpTo(DirectMet(job), at)
      BY <1>1, <2>2, OneMoreIn
    <2>4. HeadDistances(job, at + 1) = HeadDistances(job, at)
      BY <1>1, <2>2, HeadDistancesGrow
    <2>. QED
      BY <2>1, <2>3, <2>4
  <1>. QED
    BY <1>1, <1>2, <1>3

LEMMA DualCaseKeeps ==
  ASSUME job \in JobsOf(PairTools), job.tool = "dual", DualInv, DualCase
  PROVE  DualInv'
  <1>. DEFINE L == Len(job.suffixes)
              merged == FoldbackState(LeftMessage(at)) = FoldbackState(RightMessage(at))
              ends == (at + 1) % L = 0
              surface == job.family_surface /\ ends
              state == CommonOf(job, at)
              aliases == IF surface THEN SurfaceOf(job, state) ELSE {}
              m == Count(merged)
              s == Count(surface)
              h == Count(aliases # {})
              p == Cardinality(aliases)
  <1>1. /\ at \in Nat /\ at < Cases /\ (at % L = 0 => seen.gate) /\ pc = "scan"
        /\ job' = job /\ pc' = pc /\ at' = at + 1 /\ counters \in DualCounters
        /\ seen' = [seen EXCEPT !.gate = FALSE] /\ DOMAIN seen = {"gate", "least_return"}
    BY DEF DualInv, DualCase, Tool
  <1>2. at \in CasesOf(job) /\ 0..((at + 1) - 1) \subseteq CasesOf(job)
    BY <1>1, CasesIsNat, CasesAre
  <1>3. counters' = CaseAdded(counters, m, s, h, p)
    <2>1. FamilyAliases(CommonState(PairOf(at))) = SurfaceOf(job, state)
      BY AliasesAre, CasesAre, StatesAre, Zenon DEF CommonState, CommonOf
    <2>. QED
      BY <2>1, Zenon DEF DualCase, CaseAdded
  <1>4. job.family_surface \in BOOLEAN /\ L \in Nat \ {0}
    BY DualJob
  <1>5. m = Count(at \in FoldMet(job)) /\ m \in Nat
    <2>1. merged <=> at \in FoldMet(job)
      BY <1>2, CasesAre, StatesAre DEF FoldMet
    <2>. HIDE DEF merged
    <2>. QED
      BY <2>1 DEF Count
  <1>6. p \in Nat /\ h \in Nat /\ h <= p
    <2>1. CASE surface
      <3>1. state \in StatesOf(job)
        BY <1>2, DualStates
      <3>2. aliases = SurfaceOf(job, state)
        BY <2>1
      <3>. HIDE DEF aliases, state
      <3>3. p \in Nat /\ h <= p
        BY <3>1, <3>2, AliasesAreFinite
      <3>. QED
        BY <3>3 DEF Count
    <2>2. CASE ~surface
      <3>1. aliases = {}
        BY <2>2
      <3>. HIDE DEF aliases
      <3>2. p = 0 /\ h = 0
        BY <3>1, FS_EmptySet DEF Count
      <3>. QED
        BY <3>2
    <2>. QED
      BY <2>1, <2>2
  <1>7. s \in Nat
    BY DEF Count
  <1>8. job.family_surface => h = Count(at \in AliasHits(job))
    <2>. SUFFICES ASSUME job.family_surface PROVE h = Count(at \in AliasHits(job))
      OBVIOUS
    <2>1. aliases # {} <=> at \in AliasHits(job)
      BY <1>2 DEF AliasHits
    <2>. HIDE DEF aliases
    <2>. QED
      BY <2>1 DEF Count
  <1>9. (IF job.family_surface THEN (at + 1) \div L ELSE 0)
           = (IF job.family_surface THEN at \div L ELSE 0) + s
        /\ at \div L \in Nat
    <2>1. (at + 1) \div L = (at \div L) + Count(ends) /\ at \div L \in Nat
      BY <1>1, <1>4, NextPlace, Divides
    <2>2. CASE job.family_surface
      <3>1. s = Count(ends)
        BY <2>2 DEF Count
      <3>. HIDE DEF L, ends, s
      <3>. QED
        BY <2>1, <2>2, <3>1
    <2>3. CASE ~job.family_surface
      <3>1. s = 0
        BY <2>3 DEF Count
      <3>. HIDE DEF L, ends, s
      <3>. QED
        BY <2>1, <2>3, <3>1
    <2>. QED
      BY <2>2, <2>3
  <1>. HIDE DEF m, s, h, p
  <1>10. /\ counters' \in DualCounters
         /\ counters'.direct_return_merges = counters.direct_return_merges
         /\ counters'.full_foldback_merges = counters.full_foldback_merges + m
         /\ counters'.family_surface_contexts = counters.family_surface_contexts + s
         /\ counters'.family_surface_alias_contexts = counters.family_surface_alias_contexts + h
         /\ counters'.family_surface_alias_pairs = counters.family_surface_alias_pairs + p
    <2>1. counters \in DualCounters /\ m \in Nat /\ s \in Nat /\ h \in Nat /\ p \in Nat
      BY <1>1, <1>5, <1>6, <1>7
    <2>. DEFINE new == CaseAdded(counters, m, s, h, p)
    <2>2. /\ new \in DualCounters
          /\ new.direct_return_merges = counters.direct_return_merges
          /\ new.full_foldback_merges = counters.full_foldback_merges + m
          /\ new.family_surface_contexts = counters.family_surface_contexts + s
          /\ new.family_surface_alias_contexts = counters.family_surface_alias_contexts + h
          /\ new.family_surface_alias_pairs = counters.family_surface_alias_pairs + p
      BY <2>1, CaseAdds
    <2>. HIDE DEF new
    <2>3. counters' = new
      BY <1>3 DEF new
    <2>. QED
      BY <2>2, <2>3
  <1>11. /\ UpTo(DirectMet(job), Entered) = UpTo(DirectMet(job), at + 1)
         /\ HeadDistances(job, Entered) = HeadDistances(job, at + 1)
    BY <1>1, <1>2, EnteredAll
  <1>12. seen'.gate = FALSE /\ seen'.least_return = seen.least_return /\ DOMAIN seen' = {"gate", "least_return"}
    BY <1>1
  <1>13. Entered' = at + 1
    <2>1. Count(seen'.gate) = 0
      BY <1>12 DEF Count
    <2>2. at' = at + 1 /\ at \in Nat
      BY <1>1
    <2>. QED
      BY <2>1, <2>2 DEF Entered
  <1>14. /\ counters.full_foldback_merges = Cardinality(UpTo(FoldMet(job), at))
         /\ counters.direct_return_merges = Cardinality(UpTo(DirectMet(job), Entered))
         /\ IsLeastOf(seen.least_return, HeadDistances(job, Entered))
         /\ counters.family_surface_contexts = IF job.family_surface THEN at \div L ELSE 0
         /\ (job.family_surface =>
              counters.family_surface_alias_contexts = Cardinality(UpTo(AliasHits(job), at)))
         /\ counters.family_surface_alias_contexts <= counters.family_surface_alias_pairs
         /\ counters.family_surface_alias_contexts \in Nat /\ counters.family_surface_alias_pairs \in Nat
    BY <1>1 DEF DualInv, DualCounters
  <1>15. /\ Cardinality(UpTo(FoldMet(job), at + 1))
              = Cardinality(UpTo(FoldMet(job), at)) + Count(at \in FoldMet(job))
         /\ Cardinality(UpTo(AliasHits(job), at + 1))
              = Cardinality(UpTo(AliasHits(job), at)) + Count(at \in AliasHits(job))
    BY <1>1, OneMoreIn
  <1>16. counters'.full_foldback_merges = Cardinality(UpTo(FoldMet(job), at + 1))
    BY <1>5, <1>10, <1>14, <1>15
  <1>17. counters'.direct_return_merges = Cardinality(UpTo(DirectMet(job), at + 1))
    BY <1>10, <1>11, <1>14
  <1>18. IsLeastOf(seen'.least_return, HeadDistances(job, at + 1))
    BY <1>11, <1>12, <1>14
  <1>19. counters'.family_surface_contexts = IF job.family_surface THEN (at + 1) \div L ELSE 0
    BY <1>9, <1>10, <1>14
  <1>20. job.family_surface =>
           counters'.family_surface_alias_contexts = Cardinality(UpTo(AliasHits(job), at + 1))
    BY <1>8, <1>10, <1>14, <1>15
  <1>21. counters'.family_surface_alias_contexts <= counters'.family_surface_alias_pairs
    BY <1>6, <1>10, <1>14
  <1>22. seen'.gate \in BOOLEAN /\ (seen'.gate => at' \in Heads(job'))
    BY <1>12, Zenon
  <1>23. at' \in Nat /\ ~(pc' = "done") /\ 0..(at' - 1) \subseteq CasesOf(job')
    BY <1>1, <1>2
  <1>. QED
    BY <1>1, <1>10, <1>12, <1>13, <1>16, <1>17, <1>18, <1>19, <1>20, <1>21, <1>22, <1>23, Zenon DEF DualInv

LEMMA LastDiffersMerges ==
  ASSUME NEW jb \in JobsOf(PairTools), jb.suffixes[1] = <<>>, NEW n \in DirectMet(jb),
         PairIn(jb, n).differing_index = 2
  PROVE  n \in FoldMet(jb)
  <1>. DEFINE pair == PairIn(jb, n)
  <1>1. n \in CasesOf(jb) /\ n % Len(jb.suffixes) = 0 /\ DualLeft(jb, n) = DualRight(jb, n)
    BY DEF DirectMet, Heads
  <1>2. IsHash(jb) /\ Returnable(jb, <<>>) /\ IsPair(jb, pair)
    BY <1>1, CaseIs, PairJob
  <1>3. pair.left \o <<>> = pair.left /\ pair.right \o <<>> = pair.right
    BY <1>2 DEF IsPair
  <1>4. LeftIn(jb, n) = pair.left /\ RightIn(jb, n) = pair.right
    <2>1. SuffixIn(jb, n) = <<>>
      BY <1>1 DEF SuffixIn
    <2>. QED
      BY <1>3, <2>1, Zenon DEF LeftIn, RightIn
  <1>5. /\ DualLeft(jb, n) = GateOf(jb, ForwardBy(jb, pair.left), pair.left, 2)
        /\ DualRight(jb, n) = GateOf(jb, ForwardBy(jb, pair.left), pair.right, 2)
    BY Zenon DEF DualLeft, DualRight
  <1>. HIDE DEF pair
  <1>6. /\ OneApart(jb, pair.left, pair.right, 3 - pair.differing_index)
        /\ BackTo(jb, pair.left, 0) = BackTo(jb, pair.right, 0)
        /\ BackTo(jb, pair.left, 0) = ForwardBy(jb, pair.left)
        /\ \A k \in 1..3 :
             /\ BackTo(jb, pair.left, 4 - k)
                  = GateOf(jb, BackTo(jb, pair.left, 3 - k), pair.left, k - 1)
             /\ BackTo(jb, pair.right, 4 - k)
                  = GateOf(jb, BackTo(jb, pair.right, 3 - k), pair.right, k - 1)
    BY <1>2, PairAlone
  <1>7. 3 \in 1..3 /\ 4 - 3 = 1 /\ 3 - 3 = 0 /\ 3 - 1 = 2 /\ 3 - 2 = 1
    OBVIOUS
  <1>8. /\ BackTo(jb, pair.left, 1) = GateOf(jb, BackTo(jb, pair.left, 0), pair.left, 2)
        /\ BackTo(jb, pair.right, 1) = GateOf(jb, BackTo(jb, pair.right, 0), pair.right, 2)
    BY <1>6, <1>7
  <1>9. BackTo(jb, pair.left, 1) = BackTo(jb, pair.right, 1)
    BY <1>1, <1>5, <1>6, <1>8
  <1>10. OneApart(jb, pair.left, pair.right, 1)
    <2>1. pair.differing_index = 2
      BY DEF pair
    <2>. QED
      BY <1>6, <1>7, <2>1
  <1>11. FoldedBy(jb, pair.left) = FoldedBy(jb, pair.right)
    BY <1>2, <1>9, <1>10, MetStaysMet
  <1>. QED
    BY <1>1, <1>4, <1>11 DEF FoldMet

LEMMA LeastIsZero ==
  ASSUME NEW D \in SUBSET Nat, NEW best, IsLeastOf(best, D)
  PROVE  0 \in D <=> best # <<>> /\ best[1].distance = <<0>>
  <1>1. ASSUME 0 \in D PROVE best # <<>> /\ best[1].distance = <<0>>
    <2>1. best # <<>>
      BY <1>1 DEF IsLeastOf
    <2>2. PICK d \in D : best[1].distance = <<d>> /\ \A e \in D : d <= e
      BY <2>1 DEF IsLeastOf
    <2>3. d = 0
      BY <1>1, <2>2
    <2>. QED
      BY <2>1, <2>2, <2>3
  <1>2. ASSUME best # <<>>, best[1].distance = << 0 >> PROVE 0 \in D
    <2>1. PICK d \in D : best[1].distance = <<d>>
      BY <1>2 DEF IsLeastOf
    <2>2. <<d>>[1] = << 0 >>[1]
      BY <1>2, <2>1
    <2>. QED
      BY <2>2
  <1>. QED
    BY <1>1, <1>2

LEMMA DualIsExact ==
  ASSUME job \in JobsOf(PairTools), job.tool = "dual", DualInv
  PROVE  DualExact
  <1>. DEFINE entered == {n \in 0..(Cases - 1) :
                            n % Len(job.suffixes) = 0 /\ (n < at \/ (n = at /\ seen.gate))}
              direct == {n \in entered :
                           Gate(CommonState(PairOf(n)), PairOf(n).left, PairOf(n).differing_index)
                             = Gate(CommonState(PairOf(n)), PairOf(n).right, PairOf(n).differing_index)}
  <1>1. /\ at \in Nat /\ 0..(at - 1) \subseteq CasesOf(job) /\ seen.gate \in BOOLEAN
        /\ (seen.gate => at \in Heads(job)) /\ Cases \in Nat
        /\ CasesOf(job) = 0..(Cases - 1) /\ (pc = "done" => at = Cases)
    BY CasesIsNat, CasesAre DEF DualInv
  <1>2. entered = UpTo(Heads(job), Entered)
    <2>1. CASE seen.gate
      <3>1. Entered = at + 1
        BY <1>1, <2>1 DEF Entered, Count
      <3>. QED
        BY <1>1, <2>1, <3>1 DEF UpTo, Heads
    <2>2. CASE ~seen.gate
      <3>1. Entered = at
        BY <1>1, <2>2 DEF Entered, Count
      <3>. QED
        BY <1>1, <2>2, <3>1 DEF UpTo, Heads
    <2>. QED
      BY <1>1, <2>1, <2>2
  <1>3. direct = UpTo(DirectMet(job), Entered)
    <2>1. \A state, message, index : Gate(state, message, index) = GateOf(job, state, message, index)
      BY Zenon DEF Gate, GateOf
    <2>2. \A n : PairOf(n) = PairIn(job, n) /\ CommonState(PairOf(n)) = ForwardBy(job, PairIn(job, n).left)
      BY CasesAre, StatesAre, Zenon DEF CommonState
    <2>3. \A n : /\ Gate(CommonState(PairOf(n)), PairOf(n).left, PairOf(n).differing_index) = DualLeft(job, n)
                 /\ Gate(CommonState(PairOf(n)), PairOf(n).right, PairOf(n).differing_index) = DualRight(job, n)
      BY <2>1, <2>2, Zenon DEF DualLeft, DualRight
    <2>4. direct = {n \in entered : DualLeft(job, n) = DualRight(job, n)}
      BY <2>3, Zenon
    <2>. HIDE DEF direct, entered
    <2>. QED
      BY <1>2, <2>4 DEF UpTo, DirectMet
  <1>4. FoldedTogether = UpTo(FoldMet(job), at)
    BY <1>1, CasesAre, StatesAre DEF FoldedTogether, UpTo, FoldMet
  <1>. HIDE DEF direct, entered
  <1>5. /\ counters.full_foldback_merges = Cardinality(FoldedTogether)
        /\ counters.direct_return_merges = Cardinality(direct)
    BY <1>3, <1>4 DEF DualInv
  <1>6. direct # {} <=> seen.least_return # <<>> /\ seen.least_return[1].distance = <<0>>
    <2>. DEFINE D == HeadDistances(job, Entered)
    <2>1. Entered \in Nat
      BY <1>1 DEF Entered, Count
    <2>2. D \in SUBSET Nat /\ IsLeastOf(seen.least_return, D)
      BY <2>1, HeadDistancesGrow DEF DualInv
    <2>3. direct # {} <=> 0 \in D
      <3>1. \A n \in UpTo(Heads(job), Entered) :
              StateDistance(DualLeft(job, n), DualRight(job, n)) = 0 <=> DualLeft(job, n) = DualRight(job, n)
        BY DualStates DEF UpTo, Heads
      <3>2. direct = {n \in UpTo(Heads(job), Entered) : DualLeft(job, n) = DualRight(job, n)}
        BY <1>3 DEF UpTo, DirectMet
      <3>. QED
        BY <3>1, <3>2 DEF HeadDistances
    <2>. HIDE DEF D
    <2>4. 0 \in D <=> seen.least_return # <<>> /\ seen.least_return[1].distance = <<0>>
      BY <2>2, LeastIsZero
    <2>. QED
      BY <2>3, <2>4
  <1>7. ASSUME job.suffixes[1] = <<>>
        PROVE  {n \in direct : n < at /\ PairOf(n).differing_index = 2} \subseteq FoldedTogether
    <2>. SUFFICES ASSUME NEW n \in direct, n < at, PairOf(n).differing_index = 2 PROVE n \in FoldedTogether
      OBVIOUS
    <2>1. n \in DirectMet(job) /\ PairIn(job, n).differing_index = 2 /\ n \in CasesOf(job)
      BY <1>3, CasesAre DEF UpTo, DirectMet, Heads
    <2>2. n \in FoldMet(job)
      BY <1>7, <2>1, LastDiffersMerges
    <2>3. n \in 0..(at - 1)
      BY <1>1, <2>1
    <2>. QED
      BY <1>4, <2>2, <2>3 DEF UpTo
  <1>8. counters.family_surface_contexts = IF job.family_surface THEN at \div Len(job.suffixes) ELSE 0
    BY DEF DualInv
  <1>9. ASSUME pc = "done", job.family_surface,
               job.family_deltas = 1..(Cardinality(DOMAIN job.absorb[job.start]) - 1)
        PROVE  counters.direct_return_merges <= counters.family_surface_alias_contexts
    <2>1. at = Cases /\ Entered \in Nat /\ at <= Entered
      BY <1>1, <1>9 DEF Entered, Count
    <2>2. UpTo(DirectMet(job), Entered) = DirectMet(job) /\ UpTo(AliasHits(job), at) = AliasHits(job)
      <3>1. \A n \in CasesOf(job) : n \in 0..(at - 1) /\ n \in 0..(Entered - 1)
        BY <1>1, <2>1
      <3>2. DirectMet(job) \subseteq CasesOf(job) /\ AliasHits(job) \subseteq CasesOf(job)
        BY DEF DirectMet, Heads, AliasHits
      <3>. QED
        BY <3>1, <3>2 DEF UpTo
    <2>3. Cardinality(DirectMet(job)) <= Cardinality(AliasHits(job))
      BY <1>9, DirectAreHits
    <2>4. /\ counters.direct_return_merges = Cardinality(UpTo(DirectMet(job), Entered))
          /\ counters.family_surface_alias_contexts = Cardinality(UpTo(AliasHits(job), at))
      BY <1>9 DEF DualInv
    <2>. QED
      BY <2>2, <2>3, <2>4
  <1>10. counters.family_surface_alias_contexts <= counters.family_surface_alias_pairs
    BY DEF DualInv
  <1>. QED
    BY <1>5, <1>6, <1>7, <1>8, <1>9, <1>10, Zenon DEF DualExact, direct, entered

-----------------------------------------------------------------------------
(* multipath_foldback_sample: what was sampled, and the best of it.        *)
DistOf(jb, l, r) == StateDistance(FoldedBy(jb, l), FoldedBy(jb, r))

MergedOf(jb, S) == {m \in S : FoldedBy(jb, m[1]) = FoldedBy(jb, m[2])}

Measured(jb, S) == \A m \in S : DistOf(jb, m[1], m[2]) \in Nat

IsBestOf(jb, best, S) ==
  /\ best = <<>> <=> S = {}
  /\ best # <<>> =>
       /\ <<best[1].left, best[1].right>> \in S
       /\ best[1].distance = <<DistOf(jb, best[1].left, best[1].right)>>
       /\ \A m \in S : DistOf(jb, best[1].left, best[1].right) <= DistOf(jb, m[1], m[2])

LEMMA BestsJoin ==
  ASSUME NEW jb, NEW A, NEW B, Measured(jb, A), Measured(jb, B), NEW b, NEW c,
         IsBestOf(jb, b, A), IsBestOf(jb, c, B), B # {}
  PROVE  IsBestOf(jb, Keep(b, c[1].distance, c[1].left, c[1].right), A \cup B)
  <1>. DEFINE new == [distance |-> c[1].distance, left |-> c[1].left, right |-> c[1].right]
              kept == Keep(b, c[1].distance, c[1].left, c[1].right)
              far == DistOf(jb, c[1].left, c[1].right)
              near == DistOf(jb, b[1].left, b[1].right)
  <1>1. /\ <<c[1].left, c[1].right>> \in B /\ c[1].distance = <<far>>
        /\ \A m \in B : far <= DistOf(jb, m[1], m[2])
    BY DEF IsBestOf
  <1>2. far \in Nat
    <2>. DEFINE m == <<c[1].left, c[1].right>>
    <2>1. m \in B /\ m[1] = c[1].left /\ m[2] = c[1].right
      BY <1>1
    <2>2. DistOf(jb, m[1], m[2]) \in Nat
      <3>. HIDE DEF m
      <3>. QED
        BY <2>1 DEF Measured
    <2>. QED
      BY <2>1, <2>2
  <1>3. /\ new.distance = c[1].distance /\ new.left = c[1].left /\ new.right = c[1].right
        /\ <<new>> # <<>> /\ <<new>>[1] = new
    OBVIOUS
  <1>. HIDE DEF new
  <1>4. kept = IF b = <<>> \/ Before(c[1].distance, b[1].distance) THEN <<new>> ELSE b
    BY DEF Keep, new
  <1>5. ASSUME kept = <<new>>, \A m \in A : far <= DistOf(jb, m[1], m[2])
        PROVE  IsBestOf(jb, kept, A \cup B)
    <2>1. /\ kept # <<>> /\ kept[1].left = c[1].left /\ kept[1].right = c[1].right
          /\ kept[1].distance = c[1].distance
      BY <1>3, <1>5
    <2>2. \A m \in A \cup B : far <= DistOf(jb, m[1], m[2])
      BY <1>1, <1>5
    <2>3. A \cup B # {} /\ <<c[1].left, c[1].right>> \in A \cup B
      BY <1>1
    <2>. HIDE DEF kept
    <2>4. /\ <<kept[1].left, kept[1].right>> \in A \cup B
          /\ kept[1].distance = <<DistOf(jb, kept[1].left, kept[1].right)>>
          /\ \A m \in A \cup B : DistOf(jb, kept[1].left, kept[1].right) <= DistOf(jb, m[1], m[2])
      BY <1>1, <2>1, <2>2, <2>3
    <2>. QED
      BY <2>1, <2>3, <2>4 DEF IsBestOf
  <1>6. CASE b = <<>>
    <2>1. A = {} /\ kept = <<new>>
      BY <1>4, <1>6 DEF IsBestOf
    <2>. QED
      BY <1>5, <2>1
  <1>7. CASE b # <<>>
    <2>1. /\ <<b[1].left, b[1].right>> \in A /\ b[1].distance = <<near>>
          /\ \A m \in A : near <= DistOf(jb, m[1], m[2])
      BY <1>7 DEF IsBestOf
    <2>2. near \in Nat
      <3>. DEFINE m == <<b[1].left, b[1].right>>
      <3>1. m \in A /\ m[1] = b[1].left /\ m[2] = b[1].right
        BY <2>1
      <3>2. DistOf(jb, m[1], m[2]) \in Nat
        <4>. HIDE DEF m
        <4>. QED
          BY <3>1 DEF Measured
      <3>. QED
        BY <3>1, <3>2
    <2>. HIDE DEF far, near
    <2>3. Before(c[1].distance, b[1].distance) <=> far < near
      <3>1. Before(<<far>>, <<near>>) <=> far < near
        BY <1>2, <2>2, BeforeOfOne
      <3>. QED
        BY <1>1, <2>1, <3>1
    <2>4. CASE far < near
      <3>1. kept = <<new>>
        BY <1>4, <2>3, <2>4
      <3>2. \A m \in A : far <= DistOf(jb, m[1], m[2])
        BY <1>2, <2>1, <2>2, <2>4 DEF Measured
      <3>. QED
        BY <1>5, <3>1, <3>2
    <2>5. CASE ~(far < near)
      <3>1. kept = b
        BY <1>4, <1>7, <2>3, <2>5
      <3>2. \A m \in A \cup B : near <= DistOf(jb, m[1], m[2])
        BY <1>1, <1>2, <2>1, <2>2, <2>5 DEF Measured
      <3>3. IsBestOf(jb, b, A \cup B)
        BY <1>7, <2>1, <3>2 DEF IsBestOf, near
      <3>. QED
        BY <3>1, <3>3
    <2>. QED
      BY <2>4, <2>5
  <1>. QED
    BY <1>6, <1>7

LEMMA BestTakes ==
  ASSUME NEW jb, NEW A, Measured(jb, A), NEW b, IsBestOf(jb, b, A), NEW l, NEW r, DistOf(jb, l, r) \in Nat
  PROVE  /\ IsBestOf(jb, Keep(b, <<DistOf(jb, l, r)>>, l, r), A \cup {<<l, r>>})
         /\ Measured(jb, A \cup {<<l, r>>})
  <1>. DEFINE one == [distance |-> <<DistOf(jb, l, r)>>, left |-> l, right |-> r]
              c == <<one>>
              B == {<<l, r>>}
  <1>1. /\ c # <<>> /\ c[1].left = l /\ c[1].right = r /\ c[1].distance = <<DistOf(jb, l, r)>>
    OBVIOUS
  <1>2. \A m \in B : m[1] = l /\ m[2] = r
    OBVIOUS
  <1>. HIDE DEF c
  <1>3. IsBestOf(jb, c, B)
    <2>1. B # {} /\ <<c[1].left, c[1].right>> \in B
      BY <1>1
    <2>2. \A m \in B : DistOf(jb, m[1], m[2]) = DistOf(jb, l, r)
      BY <1>2
    <2>. HIDE DEF B
    <2>3. /\ c[1].distance = <<DistOf(jb, c[1].left, c[1].right)>>
          /\ \A m \in B : DistOf(jb, c[1].left, c[1].right) <= DistOf(jb, m[1], m[2])
      BY <1>1, <2>2
    <2>. QED
      BY <1>1, <2>1, <2>3 DEF IsBestOf
  <1>4. Measured(jb, B) /\ B # {} /\ Measured(jb, A \cup B)
    BY <1>2 DEF Measured
  <1>. HIDE DEF B
  <1>5. IsBestOf(jb, Keep(b, c[1].distance, c[1].left, c[1].right), A \cup B)
    BY <1>3, <1>4, BestsJoin
  <1>. QED
    BY <1>1, <1>4, <1>5 DEF B

(* Two messages more, and what they make of the merged ones.               *)
TellsOfMerges(jb, n, S) == n \in Nat /\ (n # 0 <=> MergedOf(jb, S) # {})
AndOfThese(jb, n, l, r) == n + Count(FoldedBy(jb, l) = FoldedBy(jb, r))

LEMMA MergedTakes ==
  ASSUME NEW jb, NEW S, NEW l, NEW r, NEW n, TellsOfMerges(jb, n, S)
  PROVE  TellsOfMerges(jb, AndOfThese(jb, n, l, r), S \cup {<<l, r>>})
  <1>0. n \in Nat /\ (n # 0 <=> MergedOf(jb, S) # {})
    BY DEF TellsOfMerges
  <1>1. <<l, r>>[1] = l /\ <<l, r>>[2] = r
    OBVIOUS
  <1>2. CASE FoldedBy(jb, l) = FoldedBy(jb, r)
    <2>1. <<l, r>> \in MergedOf(jb, S \cup {<<l, r>>})
      BY <1>1, <1>2 DEF MergedOf
    <2>2. AndOfThese(jb, n, l, r) = n + 1
      BY <1>2 DEF Count, AndOfThese
    <2>. QED
      BY <1>0, <2>1, <2>2 DEF TellsOfMerges
  <1>3. CASE FoldedBy(jb, l) # FoldedBy(jb, r)
    <2>1. MergedOf(jb, S \cup {<<l, r>>}) = MergedOf(jb, S)
      BY <1>1, <1>3 DEF MergedOf
    <2>2. AndOfThese(jb, n, l, r) = n
      BY <1>0, <1>3 DEF Count, AndOfThese
    <2>. QED
      BY <1>0, <2>1, <2>2 DEF TellsOfMerges
  <1>. QED
    BY <1>2, <1>3

LEMMA FoldedStates ==
  ASSUME NEW jb \in JobsOf(PairTools), NEW pair, IsPair(jb, pair), NEW suffix, Returnable(jb, suffix)
  PROVE  DistOf(jb, pair.left \o suffix, pair.right \o suffix) \in Nat
  <1>. DEFINE l == pair.left \o suffix
              r == pair.right \o suffix
  <1>1. IsHash(jb) /\ jb.enable_foldback \in BOOLEAN
    BY PairJob
  <1>2. IsMessage(jb, l) /\ IsMessage(jb, r)
    BY <1>1, PairBehind DEF OneApart
  <1>. HIDE DEF l, r
  <1>3. \A m : IsMessage(jb, m) => FoldedBy(jb, m) \in StatesOf(jb)
    <2>. SUFFICES ASSUME NEW m, IsMessage(jb, m) PROVE FoldedBy(jb, m) \in StatesOf(jb)
      OBVIOUS
    <2>1. Len(m) \in 0..Len(m)
      BY LenProperties DEF IsMessage
    <2>2. BackTo(jb, m, Len(m)) \in StatesOf(jb) /\ ForwardBy(jb, m) \in StatesOf(jb)
      BY <1>1, <2>1, BackGoesOn
    <2>. QED
      BY <1>1, <2>2, FoldedByBack
  <1>4. DistOf(jb, l, r) \in Nat
    BY <1>2, <1>3, DualJob DEF DistOf, TellsApart
  <1>. QED
    BY <1>4 DEF l, r

(* Those of earlier seeds, with their best in outcomes, and of this one.   *)
Divided(jb, n, s, best, A, B) ==
  /\ s.sampled = A \cup B /\ Measured(jb, A) /\ Measured(jb, B)
  /\ IsBestOf(jb, best, A) /\ IsBestOf(jb, s.least, B)
  /\ (B = {} <=> s.taken = -1) /\ (n > 0 => A # {})

Bares(jb, k) == {<<jb.pairs[n + 1].left, jb.pairs[n + 1].right>> : n \in 0..(k - 1)}

PairsFolded(jb) ==
  {n \in 0..(Len(jb.pairs) - 1) :
     FoldedBy(jb, jb.pairs[n + 1].left) = FoldedBy(jb, jb.pairs[n + 1].right)}

(* Without suffixes each pair is sampled twice.                            *)
Alone(jb) == jb.suffixes = << <<>> >> /\ jb.suffix_samples = 1

CountedTwice(jb, n, s, c) ==
  /\ s.sampled = Bares(jb, n + Count(s.taken # -1))
  /\ c.exact_merges = 2 * Cardinality(UpTo(PairsFolded(jb), n + Count(s.taken = 1)))
                        + Count(s.taken = 0 /\ n \in PairsFolded(jb))

MultipathInv ==
  /\ at \in 0..Seeds /\ (pc = "done" => at = Seeds /\ seen.taken = -1)
  /\ DOMAIN seen = {"taken", "sampled", "least"}
  /\ seen.taken \in (-1)..job.suffix_samples /\ (seen.taken # -1 => at < Seeds)
  /\ TellsOfMerges(job, counters.exact_merges, seen.sampled)
  /\ \E A, B : Divided(job, at, seen, outcomes, A, B)
  /\ Alone(job) => CountedTwice(job, at, seen, counters)

LEMMA SeedsAre ==
  ASSUME job \in JobsOf(PairTools), job.tool = "multipath"
  PROVE  /\ Seeds \in 0..Len(job.pairs) /\ Len(job.pairs) \in Nat /\ job.suffix_samples \in Nat
         /\ \A n \in 0..(Seeds - 1) : IsPair(job, job.pairs[n + 1])
  <1>. DEFINE p == Len(job.pairs)
              limit == job.seed_limit
  <1>1. p \in Nat /\ limit \in Nat /\ job.suffix_samples \in Nat
    <2>1. job.seed_limit \in Nat \ {0} /\ job.suffix_samples \in Nat
      BY PairHashesAssumption, Zenon
    <2>. QED
      BY <2>1, PairJob
  <1>2. Seeds = IF limit <= p THEN limit ELSE p
    <2>. HIDE DEF p, limit
    <2>1. Min({limit, p}) = IF limit <= p THEN limit ELSE p
      BY <1>1, LessOfTwo
    <2>. QED
      BY <2>1 DEF Seeds, p, limit
  <1>3. \A n \in 1..p : IsPair(job, job.pairs[n])
    BY PairJob
  <1>. HIDE DEF p, limit
  <1>4. Seeds \in 0..p
    BY <1>1, <1>2
  <1>5. \A n \in 0..(Seeds - 1) : n + 1 \in 1..p
    BY <1>1, <1>4
  <1>6. \A n \in 0..(Seeds - 1) : IsPair(job, job.pairs[n + 1])
    BY <1>3, <1>5
  <1>. QED
    BY <1>1, <1>4, <1>6 DEF p

LEMMA BaresGrow ==
  ASSUME NEW jb, NEW k \in Nat
  PROVE  /\ Bares(jb, 0) = {}
         /\ Bares(jb, k + 1) = Bares(jb, k) \cup {<<jb.pairs[k + 1].left, jb.pairs[k + 1].right>>}
  <1>1. 0..((k + 1) - 1) = (0..(k - 1)) \cup {k} /\ 0..(0 - 1) = {}
    OBVIOUS
  <1>. QED
    BY <1>1 DEF Bares

LEMMA MultipathStarts ==
  ASSUME PairInit, job.tool = "multipath"
  PROVE  MultipathInv
  <1>1. /\ job \in JobsOf(PairTools) /\ pc = "scan" /\ at = 0 /\ outcomes = <<>>
        /\ seen = [taken |-> -1, sampled |-> {}, least |-> <<>>]
        /\ counters = [exact_merges |-> 0]
    BY DEF PairInit, Start
  <1>2. seen.taken = -1 /\ seen.sampled = {} /\ seen.least = <<>> /\ counters.exact_merges = 0
        /\ DOMAIN seen = {"taken", "sampled", "least"}
    BY <1>1
  <1>3. Seeds \in Nat /\ job.suffix_samples \in Nat
    BY <1>1, SeedsAre
  <1>4. Divided(job, at, seen, outcomes, {}, {})
    BY <1>1, <1>2 DEF Divided, IsBestOf, Measured
  <1>5. TellsOfMerges(job, counters.exact_merges, seen.sampled)
    BY <1>2 DEF MergedOf, TellsOfMerges
  <1>6. CountedTwice(job, at, seen, counters)
    <2>1. Count(seen.taken # -1) = 0 /\ Count(seen.taken = 1) = 0
          /\ Count(seen.taken = 0 /\ at \in PairsFolded(job)) = 0
      BY <1>2 DEF Count
    <2>2. Bares(job, 0) = {} /\ Cardinality(UpTo(PairsFolded(job), 0)) = 0
      BY BaresGrow, OneMoreIn
    <2>3. at + Count(seen.taken # -1) = 0 /\ at + Count(seen.taken = 1) = 0
      BY <1>1, <2>1
    <2>. QED
      BY <1>2, <2>1, <2>2, <2>3 DEF CountedTwice
  <1>7. at \in 0..Seeds /\ seen.taken \in (-1)..job.suffix_samples /\ ~(pc = "done")
    BY <1>1, <1>2, <1>3
  <1>. QED
    BY <1>2, <1>4, <1>5, <1>6, <1>7 DEF MultipathInv

LEMMA FoldsAre ==
  \A left, right :
    /\ Fold(left, right).merged = (FoldedBy(job, left) = FoldedBy(job, right))
    /\ Fold(left, right).distance = DistOf(job, left, right)
  <1>1. \A left, right :
          Fold(left, right) = [merged |-> FoldedBy(job, left) = FoldedBy(job, right),
                               distance |-> DistOf(job, left, right)]
    BY StatesAre, Zenon DEF Fold, DistOf
  <1>. QED
    BY <1>1, Zenon

LEMMA BareKeeps ==
  ASSUME job \in JobsOf(PairTools), job.tool = "multipath", MultipathInv, Bare
  PROVE  MultipathInv'
  <1>. DEFINE l == job.pairs[at + 1].left
              r == job.pairs[at + 1].right
              met == FoldedBy(job, l) = FoldedBy(job, r)
              dist == DistOf(job, l, r)
  <1>1. /\ at \in 0..Seeds /\ at < Seeds /\ seen.taken = -1 /\ pc = "scan"
        /\ job' = job /\ pc' = pc /\ at' = at /\ outcomes' = outcomes
        /\ TellsOfMerges(job, counters.exact_merges, seen.sampled)
        /\ Seeds' = Seeds
    BY DEF MultipathInv, Bare, Tool, Seeds
  <1>2. Seeds \in Nat /\ Len(job.pairs) \in Nat /\ Seeds <= Len(job.pairs) /\ job.suffix_samples \in Nat
        /\ IsPair(job, job.pairs[at + 1])
    <2>1. Seeds \in 0..Len(job.pairs) /\ Len(job.pairs) \in Nat /\ job.suffix_samples \in Nat
      BY SeedsAre
    <2>2. at \in 0..(Seeds - 1)
      BY <1>1, <2>1
    <2>. QED
      BY <2>1, <2>2, SeedsAre
  <1>3. /\ counters' = [exact_merges |-> counters.exact_merges + Count(met)]
        /\ seen' = [taken |-> 0, sampled |-> seen.sampled \cup {<<l, r>>},
                    least |-> Keep(<<>>, <<dist>>, l, r)]
    <2>1. Fold(SeedPair.left, SeedPair.right).merged = met
          /\ Fold(SeedPair.left, SeedPair.right).distance = dist
      BY FoldsAre, Zenon DEF SeedPair
    <2>. HIDE DEF met, dist
    <2>. QED
      BY <2>1, Zenon DEF Bare, SeedPair
  <1>4. dist \in Nat
    <2>1. /\ DistOf(job, job.pairs[at + 1].left \o <<>>, job.pairs[at + 1].right \o <<>>) \in Nat
      BY <1>2, FoldedStates, PairJob
    <2>2. l \o <<>> = l /\ r \o <<>> = r
      BY <1>2 DEF IsPair
    <2>. QED
      BY <2>1, <2>2
  <1>. HIDE DEF l, r, dist
  <1>5. /\ seen'.taken = 0 /\ seen'.sampled = seen.sampled \cup {<<l, r>>}
        /\ seen'.least = Keep(<<>>, <<dist>>, l, r) /\ DOMAIN seen' = {"taken", "sampled", "least"}
        /\ counters'.exact_merges = counters.exact_merges + Count(met)
    BY <1>3
  <1>6. TellsOfMerges(job, counters'.exact_merges, seen'.sampled)
    <2>1. TellsOfMerges(job, AndOfThese(job, counters.exact_merges, l, r), seen.sampled \cup {<<l, r>>})
      BY <1>1, MergedTakes
    <2>. QED
      BY <1>5, <2>1 DEF AndOfThese
  <1>7. \E A, B : Divided(job, at, seen', outcomes, A, B)
    <2>1. PICK A, B : Divided(job, at, seen, outcomes, A, B)
      BY DEF MultipathInv
    <2>2. B = {} /\ seen.sampled = A /\ Measured(job, A) /\ IsBestOf(job, outcomes, A) /\ (at > 0 => A # {})
      BY <1>1, <2>1 DEF Divided
    <2>3. IsBestOf(job, <<>>, {}) /\ Measured(job, {})
      BY DEF IsBestOf, Measured
    <2>4. /\ IsBestOf(job, Keep(<<>>, <<dist>>, l, r), {} \cup {<<l, r>>})
          /\ Measured(job, {} \cup {<<l, r>>})
      BY <1>4, <2>3, BestTakes DEF dist
    <2>. DEFINE one == {} \cup {<<l, r>>}
    <2>5. one # {} /\ seen'.sampled = A \cup one /\ seen'.taken # -1
      BY <1>5, <2>2
    <2>. HIDE DEF one
    <2>6. Divided(job, at, seen', outcomes, A, one)
      BY <1>5, <2>2, <2>4, <2>5 DEF Divided, one
    <2>. QED
      BY <2>6
  <1>8. Alone(job) => CountedTwice(job, at, seen', counters')
    <2>. SUFFICES ASSUME Alone(job) PROVE CountedTwice(job, at, seen', counters')
      OBVIOUS
    <2>1. CountedTwice(job, at, seen, counters)
      BY DEF MultipathInv
    <2>2. /\ Count(seen.taken # -1) = 0 /\ Count(seen.taken = 1) = 0
          /\ Count(seen.taken = 0 /\ at \in PairsFolded(job)) = 0
          /\ Count(seen'.taken # -1) = 1 /\ Count(seen'.taken = 1) = 0
          /\ Count(seen'.taken = 0 /\ at \in PairsFolded(job)) = Count(at \in PairsFolded(job))
      BY <1>1, <1>5 DEF Count
    <2>3. met <=> at \in PairsFolded(job)
      BY <1>1, <1>2 DEF PairsFolded, l, r
    <2>. HIDE DEF met
    <2>4. Count(met) = Count(at \in PairsFolded(job)) /\ Count(met) \in Nat
      BY <2>3 DEF Count
    <2>5. at \in Nat /\ at + 0 = at
      BY <1>1, <1>2
    <2>6. seen'.sampled = Bares(job, at + Count(seen'.taken # -1))
      BY <1>5, <2>1, <2>2, <2>5, BaresGrow DEF CountedTwice, l, r
    <2>7. Cardinality(UpTo(PairsFolded(job), at)) \in Nat
      BY <2>5, OneMoreIn
    <2>8. counters.exact_merges = 2 * Cardinality(UpTo(PairsFolded(job), at))
      <3>. DEFINE card == Cardinality(UpTo(PairsFolded(job), at))
      <3>1. counters.exact_merges = 2 * card + 0
        BY <2>1, <2>2, <2>5 DEF CountedTwice
      <3>. HIDE DEF card
      <3>. QED
        BY <2>7, <3>1 DEF card
    <2>9. counters'.exact_merges =
            2 * Cardinality(UpTo(PairsFolded(job), at + Count(seen'.taken = 1)))
              + Count(seen'.taken = 0 /\ at \in PairsFolded(job))
      BY <1>5, <2>2, <2>4, <2>5, <2>8
    <2>. QED
      BY <2>6, <2>9 DEF CountedTwice
  <1>9. seen'.taken \in (-1)..job.suffix_samples
    BY <1>2, <1>5
  <1>. QED
    BY <1>1, <1>5, <1>6, <1>7, <1>8, <1>9 DEF MultipathInv

LEMMA SampleKeeps ==
  ASSUME job \in JobsOf(PairTools), job.tool = "multipath", MultipathInv, Sample
  PROVE  MultipathInv'
  <1>1. /\ at \in 0..Seeds /\ at < Seeds /\ seen.taken \in 0..(job.suffix_samples - 1) /\ pc = "scan"
        /\ job' = job /\ pc' = pc /\ at' = at /\ outcomes' = outcomes
        /\ TellsOfMerges(job, counters.exact_merges, seen.sampled)
        /\ Seeds' = Seeds
    BY DEF MultipathInv, Sample, Tool, Seeds
  <1>2. Seeds \in Nat /\ Len(job.pairs) \in Nat /\ Seeds <= Len(job.pairs) /\ job.suffix_samples \in Nat
        /\ IsPair(job, job.pairs[at + 1])
    <2>1. Seeds \in 0..Len(job.pairs) /\ Len(job.pairs) \in Nat /\ job.suffix_samples \in Nat
      BY SeedsAre
    <2>2. at \in 0..(Seeds - 1)
      BY <1>1, <2>1
    <2>. QED
      BY <2>1, <2>2, SeedsAre
  <1>3. PICK suffix \in ToSet(job.suffixes) :
          LET l == job.pairs[at + 1].left \o suffix
              r == job.pairs[at + 1].right \o suffix
          IN  /\ counters' = [exact_merges |->
                   counters.exact_merges + Count(FoldedBy(job, l) = FoldedBy(job, r))]
              /\ seen' = [taken |-> seen.taken + 1, sampled |-> seen.sampled \cup {<<l, r>>},
                          least |-> Keep(seen.least, <<DistOf(job, l, r)>>, l, r)]
    <2>1. PICK suffix \in ToSet(job.suffixes) :
            LET left  == SeedPair.left \o suffix
                right == SeedPair.right \o suffix
            IN  \E folded \in {Fold(left, right)} :
                  /\ counters' = [exact_merges |-> counters.exact_merges + Count(folded.merged)]
                  /\ seen' = [taken |-> seen.taken + 1, sampled |-> seen.sampled \cup {<<left, right>>},
                              least |-> Keep(seen.least, <<folded.distance>>, left, right)]
      BY Zenon DEF Sample
    <2>. DEFINE a == job.pairs[at + 1].left \o suffix
                b == job.pairs[at + 1].right \o suffix
                both == Fold(a, b)
    <2>2. /\ counters' = [exact_merges |-> counters.exact_merges + Count(both.merged)]
          /\ seen' = [taken |-> seen.taken + 1, sampled |-> seen.sampled \cup {<<a, b>>},
                      least |-> Keep(seen.least, <<both.distance>>, a, b)]
      BY <2>1, Zenon DEF SeedPair
    <2>3. both.merged = (FoldedBy(job, a) = FoldedBy(job, b)) /\ both.distance = DistOf(job, a, b)
      <3>. HIDE DEF a, b
      <3>. QED
        BY FoldsAre
    <2>. HIDE DEF both
    <2>4. /\ counters' = [exact_merges |->
                counters.exact_merges + Count(FoldedBy(job, a) = FoldedBy(job, b))]
          /\ seen' = [taken |-> seen.taken + 1, sampled |-> seen.sampled \cup {<<a, b>>},
                      least |-> Keep(seen.least, <<DistOf(job, a, b)>>, a, b)]
      <3>. HIDE DEF a, b
      <3>. QED
        BY <2>2, <2>3, Zenon
    <2>. QED
      BY <2>1, <2>4, Zenon
  <1>. DEFINE l == job.pairs[at + 1].left \o suffix
              r == job.pairs[at + 1].right \o suffix
              met == FoldedBy(job, l) = FoldedBy(job, r)
              dist == DistOf(job, l, r)
  <1>4. Returnable(job, suffix)
    <2>1. PICK n \in DOMAIN job.suffixes : suffix = job.suffixes[n]
      BY DEF ToSet
    <2>2. DOMAIN job.suffixes = 1..Len(job.suffixes)
      <3>1. job.suffixes \in Seq(Seq(DOMAIN job.absorb[job.start]))
        BY PairHashesAssumption, Zenon DEF PairsOfHash
      <3>. QED
        BY <3>1, LenProperties
    <2>. QED
      BY <2>1, <2>2, PairJob
  <1>5. dist \in Nat
    BY <1>2, <1>4, FoldedStates
  <1>6. /\ seen'.taken = seen.taken + 1 /\ seen'.sampled = seen.sampled \cup {<<l, r>>}
        /\ seen'.least = Keep(seen.least, <<dist>>, l, r) /\ DOMAIN seen' = {"taken", "sampled", "least"}
        /\ counters'.exact_merges = counters.exact_merges + Count(met)
    <2>. HIDE DEF l, r, dist, met
    <2>1. /\ counters' = [exact_merges |-> counters.exact_merges + Count(met)]
          /\ seen' = [taken |-> seen.taken + 1, sampled |-> seen.sampled \cup {<<l, r>>},
                      least |-> Keep(seen.least, <<dist>>, l, r)]
      BY <1>3, Zenon DEF l, r, dist, met
    <2>. QED
      BY <2>1
  <1>. HIDE DEF l, r, dist
  <1>7. TellsOfMerges(job, counters'.exact_merges, seen'.sampled)
    <2>1. TellsOfMerges(job, AndOfThese(job, counters.exact_merges, l, r), seen.sampled \cup {<<l, r>>})
      BY <1>1, MergedTakes
    <2>. QED
      BY <1>6, <2>1 DEF AndOfThese
  <1>8. \E A, B : Divided(job, at, seen', outcomes, A, B)
    <2>1. PICK A, B : Divided(job, at, seen, outcomes, A, B)
      BY DEF MultipathInv
    <2>2. /\ seen.sampled = A \cup B /\ Measured(job, A) /\ Measured(job, B)
          /\ IsBestOf(job, outcomes, A) /\ IsBestOf(job, seen.least, B) /\ (at > 0 => A # {})
      BY <2>1 DEF Divided
    <2>3. /\ IsBestOf(job, Keep(seen.least, <<dist>>, l, r), B \cup {<<l, r>>})
          /\ Measured(job, B \cup {<<l, r>>})
      BY <1>5, <2>2, BestTakes DEF dist
    <2>. DEFINE more == B \cup {<<l, r>>}
    <2>4. more # {} /\ seen'.sampled = A \cup more /\ seen'.taken # -1
      <3>1. seen'.taken # -1
        BY <1>1, <1>2, <1>6
      <3>. QED
        BY <1>6, <2>2, <3>1
    <2>. HIDE DEF more
    <2>5. Divided(job, at, seen', outcomes, A, more)
      BY <1>6, <2>2, <2>3, <2>4 DEF Divided, more
    <2>. QED
      BY <2>5
  <1>9. Alone(job) => CountedTwice(job, at, seen', counters')
    <2>. SUFFICES ASSUME Alone(job) PROVE CountedTwice(job, at, seen', counters')
      OBVIOUS
    <2>. DEFINE a == job.pairs[at + 1].left
                b == job.pairs[at + 1].right
    <2>1. CountedTwice(job, at, seen, counters) /\ seen.taken = 0 /\ suffix = <<>>
      <3>1. job.suffixes = << <<>> >> /\ job.suffix_samples = 1
        BY DEF Alone
      <3>2. ToSet(<< <<>> >>) = {<<>>}
        BY DEF ToSet
      <3>3. suffix = <<>>
        BY <3>1, <3>2
      <3>. QED
        BY <1>1, <3>1, <3>3 DEF MultipathInv
    <2>2. l = a /\ r = b
      BY <1>2, <2>1 DEF IsPair, l, r
    <2>. HIDE DEF a, b
    <2>3. /\ Count(seen.taken # -1) = 1 /\ Count(seen.taken = 1) = 0
          /\ Count(seen.taken = 0 /\ at \in PairsFolded(job)) = Count(at \in PairsFolded(job))
          /\ Count(seen'.taken # -1) = 1 /\ Count(seen'.taken = 1) = 1
          /\ Count(seen'.taken = 0 /\ at \in PairsFolded(job)) = 0
      BY <1>6, <2>1 DEF Count
    <2>4. met <=> at \in PairsFolded(job)
      BY <1>1, <1>2, <2>2 DEF PairsFolded, a, b
    <2>. HIDE DEF met
    <2>5. Count(met) = Count(at \in PairsFolded(job)) /\ Count(met) \in Nat
      BY <2>4 DEF Count
    <2>6. at \in Nat /\ at + 0 = at
      BY <1>1, <1>2
    <2>7. seen'.sampled = Bares(job, at + Count(seen'.taken # -1))
      <3>1. <<a, b>> \in Bares(job, at + 1)
        BY <2>6, BaresGrow DEF a, b
      <3>2. seen.sampled = Bares(job, at + 1)
        BY <2>1, <2>3 DEF CountedTwice
      <3>. QED
        BY <1>6, <2>2, <2>3, <3>1, <3>2
    <2>. DEFINE card == Cardinality(UpTo(PairsFolded(job), at))
                next == Cardinality(UpTo(PairsFolded(job), at + 1))
    <2>8. card \in Nat /\ next = card + Count(met)
      BY <2>5, <2>6, OneMoreIn
    <2>9. counters.exact_merges = 2 * card + Count(met)
      BY <2>1, <2>3, <2>5, <2>6 DEF CountedTwice
    <2>. HIDE DEF card, next
    <2>10. counters'.exact_merges = 2 * next + 0
      BY <1>6, <2>5, <2>8, <2>9
    <2>. QED
      BY <2>3, <2>7, <2>10 DEF CountedTwice, next
  <1>10. seen'.taken \in (-1)..job.suffix_samples
    BY <1>1, <1>2, <1>6
  <1>. QED
    BY <1>1, <1>6, <1>7, <1>8, <1>9, <1>10 DEF MultipathInv

LEMMA EndSeedKeeps ==
  ASSUME job \in JobsOf(PairTools), job.tool = "multipath", MultipathInv, EndSeed
  PROVE  MultipathInv'
  <1>1. /\ at \in 0..Seeds /\ at < Seeds /\ seen.taken = job.suffix_samples /\ pc = "scan"
        /\ job' = job /\ pc' = pc /\ at' = at + 1 /\ counters' = counters
        /\ DOMAIN seen = {"taken", "sampled", "least"}
        /\ seen' = [seen EXCEPT !.taken = -1, !.least = <<>>]
        /\ outcomes' = Keep(outcomes, seen.least[1].distance, seen.least[1].left, seen.least[1].right)
        /\ TellsOfMerges(job, counters.exact_merges, seen.sampled)
        /\ Seeds' = Seeds
    BY DEF MultipathInv, EndSeed, Tool, Seeds
  <1>2. Seeds \in Nat /\ job.suffix_samples \in Nat
    BY SeedsAre
  <1>3. /\ seen'.taken = -1 /\ seen'.least = <<>> /\ seen'.sampled = seen.sampled
        /\ DOMAIN seen' = {"taken", "sampled", "least"}
    BY <1>1
  <1>4. at \in Nat /\ at + 1 \in 0..Seeds /\ seen.taken # -1 /\ at + 1 > 0
    BY <1>1, <1>2
  <1>5. \E A, B : Divided(job, at + 1, seen', outcomes', A, B)
    <2>1. PICK A, B : Divided(job, at, seen, outcomes, A, B)
      BY DEF MultipathInv
    <2>2. /\ seen.sampled = A \cup B /\ Measured(job, A) /\ Measured(job, B)
          /\ IsBestOf(job, outcomes, A) /\ IsBestOf(job, seen.least, B) /\ B # {}
      BY <1>4, <2>1 DEF Divided
    <2>3. IsBestOf(job, outcomes', A \cup B) /\ Measured(job, A \cup B) /\ A \cup B # {}
      <3>1. IsBestOf(job, outcomes', A \cup B)
        BY <1>1, <2>2, BestsJoin
      <3>. QED
        BY <2>2, <3>1 DEF Measured
    <2>4. IsBestOf(job, <<>>, {}) /\ Measured(job, {})
      BY DEF IsBestOf, Measured
    <2>. DEFINE all == A \cup B
                none == {}
    <2>5. seen'.sampled = all \cup none /\ none = {}
      BY <1>3, <2>2
    <2>. HIDE DEF all, none
    <2>6. Divided(job, at + 1, seen', outcomes', all, none)
      BY <1>3, <2>3, <2>4, <2>5 DEF Divided, all, none
    <2>. QED
      BY <2>6
  <1>6. Alone(job) => CountedTwice(job, at + 1, seen', counters')
    <2>. SUFFICES ASSUME Alone(job) PROVE CountedTwice(job, at + 1, seen', counters')
      OBVIOUS
    <2>1. CountedTwice(job, at, seen, counters) /\ seen.taken = 1
      BY <1>1 DEF MultipathInv, Alone
    <2>2. /\ Count(seen.taken # -1) = 1 /\ Count(seen.taken = 1) = 1
          /\ Count(seen.taken = 0 /\ at \in PairsFolded(job)) = 0
          /\ Count(seen'.taken # -1) = 0 /\ Count(seen'.taken = 1) = 0
          /\ Count(seen'.taken = 0 /\ at + 1 \in PairsFolded(job)) = 0
      BY <1>3, <2>1 DEF Count
    <2>3. (at + 1) + 0 = at + 1
      BY <1>4
    <2>. QED
      BY <1>1, <1>3, <2>1, <2>2, <2>3 DEF CountedTwice
  <1>7. seen'.taken \in (-1)..job.suffix_samples
    BY <1>2, <1>3
  <1>. QED
    BY <1>1, <1>3, <1>4, <1>5, <1>6, <1>7 DEF MultipathInv

LEMMA AwareStarts ==
  ASSUME PairInit, job.tool = "aware"
  PROVE  AwareInv
  <1>1. /\ job \in JobsOf(PairTools) /\ at = 0 /\ outcomes = <<>>
        /\ counters = [tested |-> 0, return_transition_merges |-> 0, full_foldback_merges |-> 0]
    BY DEF PairInit, Start
  <1>2. counters.tested = 0 /\ counters.return_transition_merges = 0
        /\ counters.full_foldback_merges = 0
    BY <1>1
  <1>3. Cardinality(UpTo(GateMet(job), 0)) = 0
    BY OneMoreIn
  <1>4. Nearest(outcomes, GateBetween(job), at)
    BY <1>1, NearestToNone
  <1>5. at \in Nat /\ 0..(at - 1) \subseteq CasesOf(job)
    BY <1>1
  <1>. QED
    BY <1>1, <1>2, <1>3, <1>4, <1>5 DEF AwareInv

(* No pair is listed twice: what merges of the first seeds, counted.       *)
LEMMA BaresMerged ==
  ASSUME NEW jb \in JobsOf(PairTools), NEW k \in 0..Len(jb.pairs)
  PROVE  Cardinality(MergedOf(jb, Bares(jb, k))) = Cardinality(UpTo(PairsFolded(jb), k))
  <1>. DEFINE f == [n \in Nat |-> <<jb.pairs[n + 1].left, jb.pairs[n + 1].right>>]
              S == UpTo(PairsFolded(jb), k)
              T == MergedOf(jb, Bares(jb, k))
              p == Len(jb.pairs)
  <1>1. p \in Nat /\ k \in Nat
    <2>1. p \in Nat
      BY PairJob
    <2>. HIDE DEF p
    <2>. QED
      BY <2>1 DEF p
  <1>2. IsFiniteSet(S)
    BY <1>1, OneMoreIn
  <1>3. \A n \in Nat : /\ f[n][1] = jb.pairs[n + 1].left /\ f[n][2] = jb.pairs[n + 1].right
                       /\ f[n] = <<jb.pairs[n + 1].left, jb.pairs[n + 1].right>>
    OBVIOUS
  <1>4. Bares(jb, k) = {f[n] : n \in 0..(k - 1)} /\ 0..(k - 1) \subseteq 0..(p - 1)
        /\ 0..(p - 1) \subseteq Nat
    BY <1>1, <1>3 DEF Bares
  <1>. HIDE DEF f, p
  <1>5. \A n \in S : f[n] \in T
    BY <1>3, <1>4 DEF UpTo, MergedOf, PairsFolded
  <1>6. \A z \in T : \E n \in S : f[n] = z
    <2>. SUFFICES ASSUME NEW z \in T PROVE \E n \in S : f[n] = z
      OBVIOUS
    <2>1. PICK n \in 0..(k - 1) : z = f[n]
      BY <1>4 DEF MergedOf
    <2>2. FoldedBy(jb, z[1]) = FoldedBy(jb, z[2])
      BY DEF MergedOf
    <2>3. n \in PairsFolded(jb)
      BY <1>3, <1>4, <2>1, <2>2 DEF PairsFolded, p
    <2>. QED
      BY <2>1, <2>3 DEF UpTo
  <1>7. \A m, n \in S : f[m] = f[n] => m = n
    <2>. SUFFICES ASSUME NEW m \in S, NEW n \in S, f[m] = f[n] PROVE m = n
      OBVIOUS
    <2>1. m \in 0..(p - 1) /\ n \in 0..(p - 1)
      BY <1>4 DEF UpTo
    <2>2. jb.pairs[m + 1].left = jb.pairs[n + 1].left /\ jb.pairs[m + 1].right = jb.pairs[n + 1].right
      BY <1>3, <1>4, <2>1
    <2>3. m + 1 \in DOMAIN jb.pairs /\ n + 1 \in DOMAIN jb.pairs
      <3>1. jb.pairs \in Seq([left : Seq(SymbolsOf(jb)), right : Seq(SymbolsOf(jb)),
                              differing_index : 1..2])
        BY PairHashesAssumption, Zenon DEF SymbolsOf, PairsOfHash
      <3>2. DOMAIN jb.pairs = 1..p
        BY <3>1, LenProperties DEF p
      <3>. QED
        BY <1>1, <2>1, <3>2
    <2>4. \A i, j \in DOMAIN jb.pairs :
            jb.pairs[i].left = jb.pairs[j].left /\ jb.pairs[i].right = jb.pairs[j].right => i = j
      BY PairHashesAssumption, Zenon DEF PairsOfHash
    <2>5. m + 1 = n + 1
      BY <2>2, <2>3, <2>4
    <2>. QED
      BY <1>1, <2>1, <2>5
  <1>. HIDE DEF S, T
  <1>8. Cardinality(T) = Cardinality(S)
    BY <1>2, <1>5, <1>6, <1>7, SameNumber
  <1>. QED
    BY <1>8 DEF S, T

LEMMA MultipathIsExact ==
  ASSUME job \in JobsOf(PairTools), job.tool = "multipath", MultipathInv
  PROVE  MultipathExact
  <1>. DEFINE merged == {m \in seen.sampled : FoldbackState(m[1]) = FoldbackState(m[2])}
  <1>1. merged = MergedOf(job, seen.sampled)
    BY StatesAre DEF MergedOf
  <1>2. PairExitCode = 1 <=> merged # {}
    <2>1. TellsOfMerges(job, counters.exact_merges, seen.sampled)
      BY DEF MultipathInv
    <2>2. PairExitCode = Count(counters.exact_merges # 0)
      BY Zenon DEF PairExitCode
    <2>3. Count(counters.exact_merges # 0) = 1 <=> counters.exact_merges # 0
      BY DEF Count
    <2>. QED
      BY <1>1, <2>1, <2>2, <2>3 DEF TellsOfMerges
  <1>3. pc = "done" /\ Seeds > 0 =>
          /\ <<outcomes[1].left, outcomes[1].right>> \in seen.sampled
          /\ \A m \in seen.sampled :
               outcomes[1].distance[1] <= StateDistance(FoldbackState(m[1]), FoldbackState(m[2]))
    <2>. SUFFICES ASSUME pc = "done", Seeds > 0
                  PROVE  /\ <<outcomes[1].left, outcomes[1].right>> \in seen.sampled
                         /\ \A m \in seen.sampled :
                              outcomes[1].distance[1]
                                <= StateDistance(FoldbackState(m[1]), FoldbackState(m[2]))
      OBVIOUS
    <2>1. at > 0 /\ seen.taken = -1
      BY DEF MultipathInv
    <2>2. PICK A, B : Divided(job, at, seen, outcomes, A, B)
      BY DEF MultipathInv
    <2>3. seen.sampled = A /\ A # {} /\ IsBestOf(job, outcomes, A)
      BY <2>1, <2>2 DEF Divided
    <2>. DEFINE near == DistOf(job, outcomes[1].left, outcomes[1].right)
    <2>4. /\ <<outcomes[1].left, outcomes[1].right>> \in A
          /\ outcomes[1].distance = <<near>>
          /\ \A m \in A : near <= DistOf(job, m[1], m[2])
      BY <2>3 DEF IsBestOf
    <2>. HIDE DEF near
    <2>5. outcomes[1].distance[1] = near
      BY <2>4
    <2>6. \A m \in A : DistOf(job, m[1], m[2])
                         = StateDistance(FoldbackState(m[1]), FoldbackState(m[2]))
      BY StatesAre DEF DistOf
    <2>. QED
      BY <2>3, <2>4, <2>5, <2>6
  <1>4. job.suffixes = << <<>> >> /\ job.suffix_samples = 1 /\ seen.taken = -1 =>
          counters.exact_merges = 2 * Cardinality(merged)
    <2>. SUFFICES ASSUME Alone(job), seen.taken = -1
                  PROVE  counters.exact_merges = 2 * Cardinality(merged)
      BY DEF Alone
    <2>1. CountedTwice(job, at, seen, counters)
      BY DEF MultipathInv
    <2>2. Count(seen.taken # -1) = 0 /\ Count(seen.taken = 1) = 0
          /\ Count(seen.taken = 0 /\ at \in PairsFolded(job)) = 0
      BY DEF Count
    <2>3. at \in 0..Len(job.pairs) /\ at \in Nat /\ at + 0 = at
      <3>1. Seeds \in 0..Len(job.pairs) /\ Len(job.pairs) \in Nat /\ at \in 0..Seeds
        BY SeedsAre DEF MultipathInv
      <3>. QED
        BY <3>1
    <2>. DEFINE card == Cardinality(UpTo(PairsFolded(job), at))
    <2>4. seen.sampled = Bares(job, at) /\ counters.exact_merges = 2 * card + 0
      BY <2>1, <2>2, <2>3 DEF CountedTwice
    <2>5. card \in Nat
      BY <2>3, OneMoreIn
    <2>6. Cardinality(merged) = card
      BY <1>1, <2>3, <2>4, BaresMerged
    <2>. HIDE DEF card
    <2>. QED
      BY <2>4, <2>5, <2>6
  <1>. QED
    BY <1>2, <1>3, <1>4, Zenon DEF MultipathExact, merged

-----------------------------------------------------------------------------
(* The pair tools together: each keeps the invariant of its own.           *)
PairInv ==
  /\ job \in JobsOf(PairTools)
  /\ job.tool = "aware" => AwareInv
  /\ job.tool = "profile" => ProfileInv
  /\ job.tool = "dual" => DualInv
  /\ job.tool = "multipath" => MultipathInv

LEMMA PairInitially == PairInit => PairInv
  <1>1. PairInit => job \in JobsOf(PairTools)
    BY DEF PairInit
  <1>. QED
    BY <1>1, AwareStarts, ProfileStarts, DualStarts, MultipathStarts DEF PairInv

(* A step that leaves everything but pc alone: main() returns.             *)
LEMMA PairRests ==
  ASSUME PairInv, UNCHANGED <<job, at, seen, counters, outcomes>>,
         pc' = pc \/ EndAware \/ EndProfile \/ EndDual \/ EndMultipath
  PROVE  PairInv'
  <1>1. CASE job.tool = "aware"
    <2>1. AwareInv'
      BY <1>1 DEF PairInv, AwareInv
    <2>. QED
      BY <1>1, <2>1 DEF PairInv
  <1>2. CASE job.tool = "profile"
    <2>1. ProfileInv'
      BY <1>2 DEF PairInv, ProfileInv
    <2>. QED
      BY <1>2, <2>1 DEF PairInv
  <1>3. CASE job.tool = "dual"
    <2>1. Cases' = Cases /\ Entered' = Entered
      BY DEF Cases, Entered
    <2>2. pc' = "done" => at = Cases
      BY <1>3 DEF PairInv, DualInv, EndAware, EndProfile, EndDual, EndMultipath, Tool
    <2>3. DualInv'
      BY <1>3, <2>1, <2>2 DEF PairInv, DualInv
    <2>. QED
      BY <1>3, <2>3 DEF PairInv
  <1>4. CASE job.tool = "multipath"
    <2>1. Seeds' = Seeds
      BY DEF Seeds
    <2>2. pc' = "done" => at = Seeds /\ seen.taken = -1
      <3>1. CASE pc' = pc
        BY <1>4, <3>1 DEF PairInv, MultipathInv
      <3>2. CASE EndAware \/ EndProfile \/ EndDual \/ EndMultipath
        <4>1. at = Seeds
          BY <1>4, <3>2 DEF EndAware, EndProfile, EndDual, EndMultipath, Tool
        <4>2. Seeds \in Nat
          BY <1>4, SeedsAre DEF PairInv
        <4>3. ~(at < Seeds)
          BY <4>1, <4>2
        <4>. QED
          BY <1>4, <4>1, <4>3 DEF PairInv, MultipathInv
      <3>. QED
        BY <3>1, <3>2
    <2>3. MultipathInv'
      BY <1>4, <2>1, <2>2 DEF PairInv, MultipathInv
    <2>. QED
      BY <1>4, <2>3 DEF PairInv
  <1>5. CASE job.tool \notin PairTools
    BY <1>5 DEF PairInv, PairTools
  <1>. QED
    BY <1>1, <1>2, <1>3, <1>4, <1>5 DEF PairTools

LEMMA PairStep == PairInv /\ [PairNext]_vars => PairInv'
  <1>. SUFFICES ASSUME PairInv, [PairNext]_vars PROVE PairInv'
    OBVIOUS
  <1>1. CASE AwareCase
    <2>1. job' = job /\ job.tool = "aware"
      BY <1>1 DEF AwareCase, Tool
    <2>2. AwareInv'
      BY <1>1, <2>1, AwareStep DEF PairInv
    <2>. QED
      BY <2>1, <2>2 DEF PairInv
  <1>2. CASE ReverseStep
    <2>1. job' = job /\ job.tool = "profile"
      BY <1>2 DEF ReverseStep, Tool
    <2>2. ProfileInv'
      BY <1>2, <2>1, ReverseKeeps DEF PairInv
    <2>. QED
      BY <2>1, <2>2 DEF PairInv
  <1>3. CASE ProfilePair
    <2>1. job' = job /\ job.tool = "profile"
      BY <1>3 DEF ProfilePair, Tool
    <2>2. ProfileInv'
      BY <1>3, <2>1, PairKeeps DEF PairInv
    <2>. QED
      BY <2>1, <2>2 DEF PairInv
  <1>4. CASE DualGate
    <2>1. job' = job /\ job.tool = "dual"
      BY <1>4 DEF DualGate, Tool
    <2>2. DualInv'
      BY <1>4, <2>1, DualGateKeeps DEF PairInv
    <2>. QED
      BY <2>1, <2>2 DEF PairInv
  <1>5. CASE DualCase
    <2>1. job' = job /\ job.tool = "dual"
      BY <1>5 DEF DualCase, Tool
    <2>2. DualInv'
      BY <1>5, <2>1, DualCaseKeeps DEF PairInv
    <2>. QED
      BY <2>1, <2>2 DEF PairInv
  <1>6. CASE Bare \/ Sample \/ EndSeed
    <2>1. job' = job /\ job.tool = "multipath"
      BY <1>6 DEF Bare, Sample, EndSeed, Tool
    <2>2. MultipathInv'
      BY <1>6, <2>1, BareKeeps, SampleKeeps, EndSeedKeeps DEF PairInv
    <2>. QED
      BY <2>1, <2>2 DEF PairInv
  <1>7. CASE EndAware \/ EndProfile \/ EndDual \/ EndMultipath
    <2>1. UNCHANGED <<job, at, seen, counters, outcomes>>
      BY <1>7 DEF EndAware, EndProfile, EndDual, EndMultipath, Leave
    <2>. QED
      BY <1>7, <2>1, PairRests
  <1>8. CASE UNCHANGED vars
    BY <1>8, PairRests DEF vars
  <1>. QED
    BY <1>1, <1>2, <1>3, <1>4, <1>5, <1>6, <1>7, <1>8 DEF PairNext

LEMMA PairsExact == PairInv => SeparationExact
  <1>. SUFFICES ASSUME PairInv PROVE SeparationExact
    OBVIOUS
  <1>1. AwareExact
    <2>1. job.tool # "aware" => AwareExact
      BY Zenon DEF AwareExact
    <2>. QED
      BY <2>1, AwareIsExact DEF PairInv
  <1>2. ProfileExact
    <2>1. job.tool # "profile" => ProfileExact
      BY Zenon DEF ProfileExact
    <2>. QED
      BY <2>1, ProfileIsExact DEF PairInv
  <1>3. DualExact
    <2>1. job.tool # "dual" => DualExact
      BY Zenon DEF DualExact
    <2>. QED
      BY <2>1, DualIsExact DEF PairInv
  <1>4. MultipathExact
    <2>1. job.tool # "multipath" => MultipathExact
      BY Zenon DEF MultipathExact
    <2>. QED
      BY <2>1, MultipathIsExact DEF PairInv
  <1>. QED
    BY <1>1, <1>2, <1>3, <1>4, Zenon DEF SeparationExact

(* What foldback_aware_alias, foldback_separation_profile,                 *)
(* dual_return_alias and multipath_foldback_sample report is true of the   *)
(* messages they have tried, at every step and for every hash: the state   *)
(* computed once for two messages is that of each, no divergence comes     *)
(* later than the byte it is due to, every count is that of the merges     *)
(* there are, and the least distance is the least of what was tried.       *)
THEOREM SeparationIsExact == PairSpec => []SeparationExact
  <1>1. PairSpec => []PairInv
    BY PairInitially, PairStep, PTL DEF PairSpec
  <1>. QED
    BY <1>1, PairsExact, PTL

-----------------------------------------------------------------------------
(* Probe: chains of aliases.                                               *)
PathsOf(jb) == Seq(SymbolsOf(jb) \X SymbolsOf(jb))

PairAliases(jb, s) ==
  {p \in (DOMAIN jb.absorb[s]) \X (DOMAIN jb.absorb[s]) :
     p[1] < p[2] /\ jb.absorb[s][p[1]] = jb.absorb[s][p[2]]}

Firsts(path, k) == [m \in 1..k |-> path[m][1]]

(* The state behind the first k aliases of a path.                         *)
AlongOf(jb, s, path, k) == Runs(jb.absorb, s, Firsts(path, k))

ChainOf(jb, s, path) ==
  \A n \in DOMAIN path : path[n] \in PairAliases(jb, AlongOf(jb, s, path, n - 1))

CommonAt(jb, n) == ForwardBy(jb, jb.pairs[n + 1].left)

LEMMA ProbeJob ==
  ASSUME NEW jb \in JobsOf({"probe"})
  PROVE  /\ IsHash(jb) /\ SymbolsOf(jb) \subseteq Nat /\ IsFiniteSet(SymbolsOf(jb))
         /\ \A s \in StatesOf(jb) : DOMAIN jb.absorb[s] = SymbolsOf(jb)
         /\ jb.max_levels \in 1..8
  <1>. DEFINE S == StatesOf(jb)
              B == SymbolsOf(jb)
              card == Cardinality(B)
  <1>1. jb.start \in S /\ jb.absorb \in [S -> [B -> S]] /\ card \in Nat /\ B = 0..(card - 1)
        /\ jb.max_levels \in 1..8
    BY ProbeJobsAssumption DEF PairsOfHash, StatesOf, SymbolsOf
  <1>2. IsHash(jb)
    BY <1>1 DEF IsHash, IsStep
  <1>. HIDE DEF S, B, card
  <1>3. B \subseteq Nat /\ IsFiniteSet(B)
    <2>1. 0 \in Int /\ card - 1 \in Int
      BY <1>1
    <2>2. IsFiniteSet(0..(card - 1))
      BY <2>1, FS_Interval
    <2>3. 0..(card - 1) \subseteq Nat
      BY <1>1
    <2>. QED
      BY <1>1, <2>2, <2>3
  <1>4. \A s \in S : DOMAIN jb.absorb[s] = B
    BY <1>1
  <1>. QED
    BY <1>1, <1>2, <1>3, <1>4 DEF S, B

LEMMA ProbePairs ==
  ASSUME NEW jb \in JobsOf({"probe"})
  PROVE  /\ Len(jb.pairs) \in Nat /\ Len(jb.suffixes) \in Nat
         /\ (jb.pairs = <<>> <=> Len(jb.pairs) = 0) /\ DOMAIN jb.pairs = 1..Len(jb.pairs)
         /\ \A n \in 1..Len(jb.suffixes) : jb.suffixes[n] \in Seq(SymbolsOf(jb))
         /\ \A n \in 1..Len(jb.pairs) :
              /\ jb.pairs[n].left \in Seq(SymbolsOf(jb)) /\ Len(jb.pairs[n].left) = 3
              /\ jb.pairs[n].right \in Seq(SymbolsOf(jb)) /\ Len(jb.pairs[n].right) = 3
              /\ jb.pairs[n].left # jb.pairs[n].right
              /\ ForwardBy(jb, jb.pairs[n].left) = ForwardBy(jb, jb.pairs[n].right)
              /\ ForwardBy(jb, jb.pairs[n].left) \in StatesOf(jb)
  <1>. DEFINE B == SymbolsOf(jb)
              R == [left : Seq(B), right : Seq(B), differing_index : 1..2]
              Third(message) == jb.absorb[jb.absorb[jb.absorb[jb.start][message[1]]][message[2]]][message[3]]
  <1>1. /\ jb.pairs \in Seq(R) /\ jb.suffixes \in Seq(Seq(B))
        /\ \A pair \in ToSet(jb.pairs) : Third(pair.left) = Third(pair.right) /\ OneByteApart(pair)
    BY ProbeJobsAssumption, Zenon DEF PairsOfHash, SymbolsOf
  <1>2. IsHash(jb)
    BY ProbeJob
  <1>. HIDE DEF B
  <1>3. /\ Len(jb.pairs) \in Nat /\ Len(jb.suffixes) \in Nat
        /\ (jb.pairs = <<>> <=> Len(jb.pairs) = 0) /\ DOMAIN jb.pairs = 1..Len(jb.pairs)
    BY <1>1, LenProperties, EmptySeq
  <1>4. \A n \in 1..Len(jb.suffixes) : jb.suffixes[n] \in Seq(B)
    BY <1>1, ElementOfSeq
  <1>5. ASSUME NEW n \in 1..Len(jb.pairs)
        PROVE  /\ jb.pairs[n].left \in Seq(B) /\ Len(jb.pairs[n].left) = 3
               /\ jb.pairs[n].right \in Seq(B) /\ Len(jb.pairs[n].right) = 3
               /\ jb.pairs[n].left # jb.pairs[n].right
               /\ ForwardBy(jb, jb.pairs[n].left) = ForwardBy(jb, jb.pairs[n].right)
               /\ ForwardBy(jb, jb.pairs[n].left) \in StatesOf(jb)
    <2>. DEFINE pair == jb.pairs[n]
    <2>1. pair \in ToSet(jb.pairs) /\ pair \in R
      BY <1>1, <1>3, ElementOfSeq DEF ToSet
    <2>. HIDE DEF pair
    <2>2. pair.left \in Seq(B) /\ pair.right \in Seq(B)
      BY <2>1
    <2>3. /\ Len(pair.left) = 3 /\ Len(pair.right) = 3 /\ pair.differing_index \in 1..2
          /\ \A k \in 1..3 : (pair.left[k] # pair.right[k]) <=> k = pair.differing_index + 1
      BY <1>1, <2>1 DEF OneByteApart
    <2>4. pair.left # pair.right
      <3>1. pair.differing_index + 1 \in 1..3
        BY <2>3
      <3>. QED
        BY <2>3, <3>1
    <2>5. ForwardBy(jb, pair.left) = Third(pair.left) /\ ForwardBy(jb, pair.right) = Third(pair.right)
      BY <1>2, <2>2, <2>3, ThreeSymbols DEF B
    <2>6. Third(pair.left) = Third(pair.right)
      BY <1>1, <2>1
    <2>7. ForwardBy(jb, pair.left) \in StatesOf(jb)
      <3>1. 1 \in 1..Len(pair.left)
        BY <2>3
      <3>2. pair.left[1] \in B
        BY <2>2, <3>1, ElementOfSeq
      <3>. QED
        BY <1>2, <2>2, <3>2, RunsOn DEF IsHash, ForwardBy, B
    <2>. QED
      BY <2>2, <2>3, <2>4, <2>5, <2>6, <2>7 DEF pair
  <1>. QED
    BY <1>3, <1>4, <1>5 DEF B

LEMMA CommonIs ==
  ASSUME NEW jb \in JobsOf({"probe"}), NEW n \in 0..(Len(jb.pairs) - 1)
  PROVE  CommonAt(jb, n) \in StatesOf(jb)
  <1>1. Len(jb.pairs) \in Nat
    BY ProbePairs
  <1>2. n + 1 \in 1..Len(jb.pairs)
    BY <1>1
  <1>. QED
    BY <1>2, ProbePairs DEF CommonAt

(* find_symbol_aliases lists the aliases of a state.                       *)
LEMMA PairAliasesAre ==
  ASSUME NEW jb \in JobsOf({"probe"}), NEW s \in StatesOf(jb)
  PROVE  /\ IsFiniteSet(PairAliases(jb, s))
         /\ PairAliases(jb, s) \subseteq SymbolsOf(jb) \X SymbolsOf(jb)
         /\ \A a \in PairAliases(jb, s) :
              /\ a = <<a[1], a[2]>> /\ a[1] \in SymbolsOf(jb) /\ a[2] \in SymbolsOf(jb) /\ a[1] # a[2]
              /\ jb.absorb[s][a[1]] = jb.absorb[s][a[2]] /\ jb.absorb[s][a[1]] \in StatesOf(jb)
  <1>. DEFINE B == SymbolsOf(jb)
              S == StatesOf(jb)
  <1>1. DOMAIN jb.absorb[s] = B /\ IsFiniteSet(B) /\ B \subseteq Nat /\ jb.absorb \in [S -> [B -> S]]
    BY ProbeJob DEF IsHash, IsStep
  <1>2. IsFiniteSet(B \X B)
    BY <1>1, FS_Product
  <1>. HIDE DEF B, S
  <1>3. PairAliases(jb, s) \subseteq B \X B
    BY <1>1 DEF PairAliases
  <1>4. IsFiniteSet(PairAliases(jb, s))
    BY <1>2, <1>3, FS_Subset
  <1>5. ASSUME NEW a \in PairAliases(jb, s)
        PROVE  /\ a = <<a[1], a[2]>> /\ a[1] \in B /\ a[2] \in B /\ a[1] # a[2]
               /\ jb.absorb[s][a[1]] = jb.absorb[s][a[2]] /\ jb.absorb[s][a[1]] \in S
    <2>1. a \in B \X B /\ a[1] < a[2] /\ jb.absorb[s][a[1]] = jb.absorb[s][a[2]]
      BY <1>1 DEF PairAliases
    <2>2. a = <<a[1], a[2]>> /\ a[1] \in B /\ a[2] \in B
      BY <2>1
    <2>3. a[1] # a[2]
      BY <1>1, <2>1, <2>2
    <2>4. jb.absorb[s][a[1]] \in S
      BY <1>1, <2>2 DEF S
    <2>. QED
      BY <2>1, <2>2, <2>3, <2>4
  <1>. QED
    BY <1>3, <1>4, <1>5 DEF B, S

Lists(list, A) == list \in Seq(A) /\ \A x \in A : \E n \in DOMAIN list : list[n] = x

LEMMA AliasesListed ==
  ASSUME job \in JobsOf({"probe"}), NEW s \in StatesOf(job)
  PROVE  /\ Lists(AliasesOf(s), PairAliases(job, s))
         /\ \A m, n \in DOMAIN AliasesOf(s) : AliasLess(AliasesOf(s)[m], AliasesOf(s)[n]) => m < n
  <1>. DEFINE A == PairAliases(job, s)
              R == {p \in A \X A : AliasLess(p[1], p[2])}
  <1>1. IsFiniteSet(A) /\ \A a \in A : a = <<a[1], a[2]>> /\ a[1] \in Nat /\ a[2] \in Nat
    BY PairAliasesAre, ProbeJob
  <1>. HIDE DEF A
  <1>2. \A x, y \in A : <<x, y>> \in R <=> AliasLess(x, y)
    OBVIOUS
  <1>. HIDE DEF R
  <1>3. StrictlyOrders(R, A)
    <2>1. \A a \in A : ~AliasLess(a, a)
      BY <1>1 DEF AliasLess
    <2>2. \A a, b, c \in A : AliasLess(a, b) /\ AliasLess(b, c) => AliasLess(a, c)
      BY <1>1 DEF AliasLess
    <2>3. \A a, b \in A : a # b => AliasLess(a, b) \/ AliasLess(b, a)
      <3>. SUFFICES ASSUME NEW a \in A, NEW b \in A, ~AliasLess(a, b), ~AliasLess(b, a)
                    PROVE  a = b
        OBVIOUS
      <3>1. a[1] = b[1] /\ a[2] = b[2]
        BY <1>1 DEF AliasLess
      <3>. QED
        BY <1>1, <3>1
    <2>. QED
      BY <1>2, <2>1, <2>2, <2>3 DEF StrictlyOrders
  <1>. DEFINE size == Cardinality(A)
              Place(x) == Cardinality({y \in A : AliasLess(y, x)})
              Nth(n) == CHOOSE x \in A : Place(x) = n - 1
              list == [n \in 1..size |-> Nth(n)]
  <1>4. AliasesOf(s) = list
    BY Zenon DEF AliasesOf, InOrder, SymbolAliases, A, PairAliases
  <1>5. \A x \in A : Place(x) = Rank(R, A, x)
    <2>1. \A x \in A : {y \in A : AliasLess(y, x)} = Below(R, A, x)
      BY <1>2 DEF Below
    <2>. QED
      BY <2>1, Zenon DEF Rank
  <1>. HIDE DEF Place
  <1>6. \A n \in 1..size : Nth(n) \in A /\ Place(Nth(n)) = n - 1
    <2>1. \A n \in 1..size : \E x \in A : Place(x) = n - 1
      BY <1>1, <1>3, <1>5, EveryRankIsTaken DEF size
    <2>. QED
      BY <2>1
  <1>. HIDE DEF Nth
  <1>7. size \in Nat
    BY <1>1, FS_CardinalityType
  <1>8. Ranked(list, R, A)
    BY <1>5, <1>6 DEF Ranked
  <1>9. /\ \A x \in A : \E n \in 1..size : list[n] = x
        /\ \A m, n \in 1..size : m < n <=> <<list[m], list[n]>> \in R
    <2>. HIDE DEF list
    <2>. QED
      BY <1>1, <1>3, <1>8, ListsInOrder DEF size
  <1>10. list \in [1..size -> A]
    BY <1>6
  <1>. HIDE DEF list, size
  <1>11. list \in Seq(A) /\ DOMAIN list = 1..size
    BY <1>7, <1>10, SeqDef
  <1>12. Lists(list, A)
    BY <1>9, <1>11 DEF Lists
  <1>13. \A m, n \in DOMAIN list : AliasLess(list[m], list[n]) => m < n
    BY <1>2, <1>9, <1>10, <1>11
  <1>. QED
    BY <1>4, <1>12, <1>13 DEF A

(* Along a path, an alias at a time.                                       *)
LEMMA AlongOn ==
  ASSUME NEW jb, IsHash(jb), NEW s \in StatesOf(jb), NEW path \in PathsOf(jb)
  PROVE  /\ AlongOf(jb, s, path, 0) = s
         /\ \A k \in 0..Len(path) : AlongOf(jb, s, path, k) \in StatesOf(jb)
         /\ \A k \in 1..Len(path) :
              AlongOf(jb, s, path, k) = jb.absorb[AlongOf(jb, s, path, k - 1)][path[k][1]]
  <1>. DEFINE S == StatesOf(jb)
              B == SymbolsOf(jb)
  <1>1. IsStep(jb.absorb, S, B) /\ Len(path) \in Nat
    BY LenProperties DEF IsHash, PathsOf
  <1>2. \A n \in 1..Len(path) : path[n][1] \in B
    <2>1. path \in Seq(B \X B)
      BY DEF PathsOf
    <2>. HIDE DEF B
    <2>2. \A n \in 1..Len(path) : path[n] \in B \X B
      BY <2>1, ElementOfSeq
    <2>. QED
      BY <2>2
  <1>. HIDE DEF S, B
  <1>3. \A k \in 0..Len(path) :
          /\ Firsts(path, k) \in Seq(B) /\ Len(Firsts(path, k)) = k
          /\ \A m \in 1..k : Firsts(path, k)[m] = path[m][1]
    <2>. SUFFICES ASSUME NEW k \in 0..Len(path)
                  PROVE  /\ Firsts(path, k) \in Seq(B) /\ Len(Firsts(path, k)) = k
                         /\ \A m \in 1..k : Firsts(path, k)[m] = path[m][1]
      OBVIOUS
    <2>1. k \in Nat /\ \A m \in 1..k : path[m][1] \in B
      BY <1>1, <1>2
    <2>2. Firsts(path, k) \in [1..k -> B] /\ \A m \in 1..k : Firsts(path, k)[m] = path[m][1]
      BY <2>1 DEF Firsts
    <2>3. Firsts(path, k) \in Seq(B)
      BY <2>1, <2>2, SeqDef
    <2>4. Len(Firsts(path, k)) = k
      BY <2>1, <2>2, <2>3, LenProperties
    <2>. QED
      BY <2>2, <2>3, <2>4
  <1>4. AlongOf(jb, s, path, 0) = s
    <2>1. Firsts(path, 0) = <<>>
      <3>1. Firsts(path, 0) \in Seq(B) /\ Len(Firsts(path, 0)) = 0
        BY <1>1, <1>3
      <3>. QED
        BY <3>1, EmptySeq
    <2>2. Runs(jb.absorb, s, <<>>) = s
      BY <1>1, RunsNone DEF IsStep, S
    <2>. QED
      BY <2>1, <2>2 DEF AlongOf
  <1>5. \A k \in 0..Len(path) : AlongOf(jb, s, path, k) \in S
    BY <1>1, <1>3, RunsInto DEF AlongOf, S
  <1>6. ASSUME NEW k \in 1..Len(path)
        PROVE  AlongOf(jb, s, path, k) = jb.absorb[AlongOf(jb, s, path, k - 1)][path[k][1]]
    <2>. DEFINE a == Firsts(path, k)
                b == Firsts(path, k - 1)
                c == Append(b, path[k][1])
    <2>1. k - 1 \in 0..Len(path) /\ k \in 0..Len(path) /\ k \in Nat
      BY <1>1
    <2>2. /\ a \in Seq(B) /\ Len(a) = k /\ \A m \in 1..k : a[m] = path[m][1]
          /\ b \in Seq(B) /\ Len(b) = k - 1 /\ \A m \in 1..(k - 1) : b[m] = path[m][1]
          /\ path[k][1] \in B
      BY <1>2, <1>3, <2>1
    <2>. HIDE DEF a, b
    <2>3. c \in Seq(B) /\ Len(c) = k /\ \A m \in 1..k : c[m] = path[m][1]
      BY <2>1, <2>2
    <2>. HIDE DEF c
    <2>4. a = c
      BY <2>1, <2>2, <2>3, SeqEqual
    <2>5. Runs(jb.absorb, s, Append(b, path[k][1])) = jb.absorb[Runs(jb.absorb, s, b)][path[k][1]]
      BY <1>1, <2>2, RunsOn DEF S
    <2>. QED
      BY <2>4, <2>5 DEF AlongOf, a, b, c
  <1>. QED
    BY <1>4, <1>5, <1>6 DEF S

(* One alias in front of a chain.                                          *)
LEMMA ChainGoesOn ==
  ASSUME NEW jb \in JobsOf({"probe"}), NEW s \in StatesOf(jb), NEW a \in PairAliases(jb, s),
         NEW path \in PathsOf(jb)
  PROVE  /\ <<a>> \o path \in PathsOf(jb) /\ Len(<<a>> \o path) = Len(path) + 1
         /\ ChainOf(jb, s, <<a>> \o path) <=> ChainOf(jb, jb.absorb[s][a[1]], path)
  <1>. DEFINE next == jb.absorb[s][a[1]]
              whole == <<a>> \o path
              P == SymbolsOf(jb) \X SymbolsOf(jb)
  <1>1. IsHash(jb) /\ a \in P /\ next \in StatesOf(jb) /\ path \in Seq(P) /\ Len(path) \in Nat
    BY ProbeJob, PairAliasesAre, LenProperties DEF PathsOf
  <1>. HIDE DEF P, next
  <1>2. /\ whole \in Seq(P) /\ Len(whole) = Len(path) + 1 /\ whole[1] = a
        /\ \A k \in 1..Len(path) : whole[k + 1] = path[k]
        /\ DOMAIN path = 1..Len(path) /\ DOMAIN whole = 1..(Len(path) + 1)
    BY <1>1
  <1>. HIDE DEF whole
  <1>3. whole \in PathsOf(jb)
    BY <1>2 DEF PathsOf, P
  <1>4. /\ AlongOf(jb, s, whole, 0) = s /\ AlongOf(jb, next, path, 0) = next
        /\ \A k \in 1..Len(whole) :
             AlongOf(jb, s, whole, k) = jb.absorb[AlongOf(jb, s, whole, k - 1)][whole[k][1]]
        /\ \A k \in 1..Len(path) :
             AlongOf(jb, next, path, k) = jb.absorb[AlongOf(jb, next, path, k - 1)][path[k][1]]
    BY <1>1, <1>3, AlongOn
  <1>5. \A k \in 0..Len(path) : AlongOf(jb, s, whole, k + 1) = AlongOf(jb, next, path, k)
    <2>. DEFINE T == {k \in 0..Len(path) : AlongOf(jb, s, whole, k + 1) = AlongOf(jb, next, path, k)}
    <2>1. 0 \in T
      <3>1. 1 \in 1..Len(whole) /\ 1 - 1 = 0 /\ 0 + 1 = 1
        BY <1>1, <1>2
      <3>2. AlongOf(jb, s, whole, 1) = jb.absorb[s][a[1]]
        BY <1>2, <1>4, <3>1
      <3>3. AlongOf(jb, s, whole, 0 + 1) = AlongOf(jb, next, path, 0)
        BY <1>4, <3>1, <3>2 DEF next
      <3>. QED
        BY <1>1, <3>3
    <2>2. ASSUME NEW k \in 1..Len(path), k - 1 \in T PROVE k \in T
      <3>1. k + 1 \in 1..Len(whole) /\ (k + 1) - 1 = k /\ (k - 1) + 1 = k /\ k \in 0..Len(path)
        BY <1>1, <1>2
      <3>2. AlongOf(jb, s, whole, k) = AlongOf(jb, next, path, k - 1)
        BY <2>2, <3>1
      <3>3. AlongOf(jb, s, whole, k + 1) = jb.absorb[AlongOf(jb, s, whole, k)][whole[k + 1][1]]
        BY <1>4, <3>1
      <3>4. AlongOf(jb, s, whole, k + 1) = AlongOf(jb, next, path, k)
        BY <1>2, <1>4, <3>2, <3>3
      <3>. QED
        BY <3>1, <3>4
    <2>. HIDE DEF T
    <2>3. 0..Len(path) \subseteq T
      BY <1>1, <2>1, <2>2, InductionUpTo
    <2>. QED
      BY <2>3 DEF T
  <1>6. ChainOf(jb, s, whole) <=> ChainOf(jb, next, path)
    <2>1. ASSUME ChainOf(jb, s, whole) PROVE ChainOf(jb, next, path)
      <3>. SUFFICES ASSUME NEW n \in 1..Len(path)
                    PROVE  path[n] \in PairAliases(jb, AlongOf(jb, next, path, n - 1))
        BY <1>2 DEF ChainOf
      <3>1. n + 1 \in 1..(Len(path) + 1) /\ (n + 1) - 1 = n /\ n - 1 \in 0..Len(path) /\ (n - 1) + 1 = n
        BY <1>1
      <3>2. whole[n + 1] \in PairAliases(jb, AlongOf(jb, s, whole, n))
        BY <1>2, <2>1, <3>1 DEF ChainOf
      <3>. QED
        BY <1>2, <1>5, <3>1, <3>2
    <2>2. ASSUME ChainOf(jb, next, path) PROVE ChainOf(jb, s, whole)
      <3>. SUFFICES ASSUME NEW n \in 1..(Len(path) + 1)
                    PROVE  whole[n] \in PairAliases(jb, AlongOf(jb, s, whole, n - 1))
        BY <1>2 DEF ChainOf
      <3>1. CASE n = 1
        BY <1>2, <1>4, <3>1
      <3>2. CASE n # 1
        <4>. DEFINE m == n - 1
        <4>1. m \in 1..Len(path) /\ m + 1 = n /\ m - 1 \in 0..Len(path) /\ (m - 1) + 1 = m
          BY <1>1, <3>2
        <4>2. path[m] \in PairAliases(jb, AlongOf(jb, next, path, m - 1))
          BY <1>2, <2>2, <4>1 DEF ChainOf
        <4>. HIDE DEF m
        <4>3. whole[n] = path[m] /\ AlongOf(jb, next, path, m - 1) = AlongOf(jb, s, whole, m)
          BY <1>2, <1>5, <4>1
        <4>4. n - 1 = m
          BY DEF m
        <4>. QED
          BY <4>2, <4>3, <4>4
      <3>. QED
        BY <3>1, <3>2
    <2>. QED
      BY <2>1, <2>2
  <1>. QED
    BY <1>2, <1>3, <1>6 DEF whole, next

(* And taken off again.                                                    *)
LEMMA ChainSplits ==
  ASSUME NEW jb \in JobsOf({"probe"}), NEW s \in StatesOf(jb), NEW path \in PathsOf(jb),
         ChainOf(jb, s, path), path # <<>>
  PROVE  \E a \in PairAliases(jb, s), tail \in PathsOf(jb) :
           path = <<a>> \o tail /\ ChainOf(jb, jb.absorb[s][a[1]], tail)
  <1>. DEFINE a == path[1]
              tail == Tail(path)
              P == SymbolsOf(jb) \X SymbolsOf(jb)
  <1>1. path \in Seq(P) /\ IsHash(jb)
    BY ProbeJob DEF PathsOf
  <1>. HIDE DEF P
  <1>2. Len(path) \in Nat \ {0} /\ tail \in Seq(P) /\ a \in P /\ 1 \in DOMAIN path /\ path = <<a>> \o tail
    BY <1>1
  <1>3. a \in PairAliases(jb, s)
    <2>1. AlongOf(jb, s, path, 0) = s
      BY <1>1, AlongOn
    <2>2. path[1] \in PairAliases(jb, AlongOf(jb, s, path, 1 - 1))
      BY <1>2 DEF ChainOf
    <2>3. 1 - 1 = 0
      OBVIOUS
    <2>. QED
      BY <2>1, <2>2, <2>3
  <1>4. tail \in PathsOf(jb)
    BY <1>2 DEF PathsOf, P
  <1>. HIDE DEF a, tail
  <1>5. ChainOf(jb, jb.absorb[s][a[1]], tail)
    BY <1>2, <1>3, <1>4, ChainGoesOn
  <1>. QED
    BY <1>2, <1>3, <1>4, <1>5

(* longest_path, of one alias and the longest path behind it.              *)
TailsOf(jb) == [StatesOf(jb) -> PathsOf(jb)]

Behindmost(jb, s, tails, a) == tails[jb.absorb[s][a[1]]]

IsLongerBy(jb, s, tails, path) ==
  \/ path = <<>> /\ PairAliases(jb, s) = {}
  \/ \E a \in PairAliases(jb, s) :
       /\ path = <<a>> \o Behindmost(jb, s, tails, a)
       /\ \A b \in PairAliases(jb, s) :
            /\ Len(Behindmost(jb, s, tails, b)) <= Len(Behindmost(jb, s, tails, a))
            /\ AliasLess(b, a) => Len(Behindmost(jb, s, tails, b)) < Len(Behindmost(jb, s, tails, a))

(* The first of the longest among k paths.                                 *)
IsFirstLongest(paths, k, n) ==
  \A m \in 1..k : Len(paths[m]) <= Len(paths[n]) /\ (m < n => Len(paths[m]) < Len(paths[n]))

LEMMA LongestOfMany ==
  ASSUME NEW P, NEW k \in Nat, NEW paths \in [1..k -> Seq(P)]
  PROVE  \/ k = 0 /\ FirstLongest(paths) = <<>>
         \/ \E n \in 1..k : FirstLongest(paths) = paths[n] /\ IsFirstLongest(paths, k, n)
  <1>1. paths \in Seq(Seq(P)) /\ Len(paths) = k /\ DOMAIN paths = 1..k
    <2>1. paths \in Seq(Seq(P))
      BY SeqDef
    <2>. QED
      BY <2>1, LenProperties
  <1>2. CASE k = 0
    <2>1. paths = <<>>
      BY <1>1, <1>2, EmptySeq
    <2>. QED
      BY <1>2, <2>1 DEF FirstLongest
  <1>3. CASE k # 0
    <2>. DEFINE lengths == {Len(paths[m]) : m \in 1..k}
                best == {n \in 1..k : \A m \in 1..k : Len(paths[m]) <= Len(paths[n])}
    <2>1. \A m \in 1..k : Len(paths[m]) \in Nat
      BY LenProperties
    <2>2. IsFiniteSet(lengths) /\ lengths \subseteq Int /\ lengths # {}
      <3>. DEFINE length == [m \in 1..k |-> Len(paths[m])]
                  S == 1..k
      <3>1. IsFiniteSet(S)
        BY FS_Interval
      <3>2. IsFiniteSet(lengths)
        <4>1. length \in [S -> lengths] /\ \A x \in lengths : \E m \in S : length[m] = x
          OBVIOUS
        <4>. HIDE DEF length, lengths, S
        <4>2. length \in Surjection(S, lengths)
          BY <4>1 DEF Surjection
        <4>. QED
          BY <3>1, <4>2, FS_Surjection
      <3>3. 1 \in 1..k
        BY <1>3
      <3>. QED
        BY <2>1, <3>2, <3>3
    <2>3. PICK x \in lengths : \A y \in lengths : y <= x
      <3>. HIDE DEF lengths
      <3>. QED
        BY <2>2, MaxOfNumbers
    <2>4. best # {} /\ best \subseteq Nat
      <3>1. PICK n \in 1..k : x = Len(paths[n])
        BY <2>3
      <3>2. \A m \in 1..k : Len(paths[m]) <= Len(paths[n])
        BY <2>3, <3>1
      <3>3. n \in best
        BY <3>2
      <3>4. best \subseteq 1..k /\ 1..k \subseteq Nat
        OBVIOUS
      <3>. QED
        BY <3>3, <3>4
    <2>5. Min(best) \in best /\ \A m \in best : Min(best) <= m
      <3>. HIDE DEF best
      <3>1. \E n \in best : \A m \in best : n <= m
        BY <2>4, LeastNat
      <3>. QED
        BY <3>1 DEF Min
    <2>6. paths # <<>>
      BY <1>1, <1>3, EmptySeq
    <2>7. FirstLongest(paths) = paths[Min(best)]
      BY <1>1, <2>6, Zenon DEF FirstLongest
    <2>8. PICK n : n = Min(best)
      OBVIOUS
    <2>9. n \in 1..k /\ \A m \in 1..k : Len(paths[m]) <= Len(paths[n])
      BY <2>5, <2>8
    <2>10. ASSUME NEW m \in 1..k, m < n PROVE Len(paths[m]) < Len(paths[n])
      <3>. SUFFICES ASSUME Len(paths[m]) >= Len(paths[n]) PROVE FALSE
        BY <2>1, <2>9
      <3>1. \A i \in 1..k : Len(paths[i]) <= Len(paths[m])
        BY <2>1, <2>9
      <3>2. m \in best
        BY <3>1
      <3>. HIDE DEF best
      <3>3. n <= m
        BY <2>5, <2>8, <3>2
      <3>. QED
        BY <2>9, <2>10, <3>3
    <2>11. IsFirstLongest(paths, k, n)
      BY <2>9, <2>10 DEF IsFirstLongest
    <2>. QED
      BY <2>7, <2>8, <2>9, <2>11
  <1>. QED
    BY <1>2, <1>3

LEMMA LongerByOne ==
  ASSUME job \in JobsOf({"probe"}), NEW s \in StatesOf(job), NEW tails \in TailsOf(job)
  PROVE  /\ FirstLongest(PathsFrom(s, tails)) \in PathsOf(job)
         /\ IsLongerBy(job, s, tails, FirstLongest(PathsFrom(s, tails)))
  <1>. DEFINE list == AliasesOf(s)
              A == PairAliases(job, s)
              paths == PathsFrom(s, tails)
              P == SymbolsOf(job) \X SymbolsOf(job)
              k == Len(list)
  <1>1. list \in Seq(A) /\ (\A x \in A : \E n \in DOMAIN list : list[n] = x)
        /\ DOMAIN list = 1..k /\ k \in Nat
        /\ \A m, n \in DOMAIN list : AliasLess(list[m], list[n]) => m < n
    BY AliasesListed, LenProperties DEF Lists
  <1>2. paths = [n \in 1..k |-> <<list[n]>> \o Behindmost(job, s, tails, list[n])]
    <2>1. paths = [n \in DOMAIN list |-> <<list[n]>> \o Behindmost(job, s, tails, list[n])]
      BY Zenon DEF PathsFrom, AliasState, Behindmost
    <2>. QED
      BY <1>1, <2>1
  <1>3. \A a \in A : /\ Behindmost(job, s, tails, a) \in PathsOf(job)
                     /\ <<a>> \o Behindmost(job, s, tails, a) \in PathsOf(job)
                     /\ Len(<<a>> \o Behindmost(job, s, tails, a)) = Len(Behindmost(job, s, tails, a)) + 1
                     /\ Len(Behindmost(job, s, tails, a)) \in Nat
    <2>. SUFFICES ASSUME NEW a \in A
                  PROVE  /\ Behindmost(job, s, tails, a) \in PathsOf(job)
                         /\ <<a>> \o Behindmost(job, s, tails, a) \in PathsOf(job)
                         /\ Len(<<a>> \o Behindmost(job, s, tails, a))
                              = Len(Behindmost(job, s, tails, a)) + 1
                         /\ Len(Behindmost(job, s, tails, a)) \in Nat
      OBVIOUS
    <2>1. job.absorb[s][a[1]] \in StatesOf(job)
      BY PairAliasesAre
    <2>2. Behindmost(job, s, tails, a) \in PathsOf(job)
      BY <2>1 DEF Behindmost, TailsOf
    <2>3. Len(Behindmost(job, s, tails, a)) \in Nat
      BY <2>2, LenProperties DEF PathsOf
    <2>. QED
      BY <2>2, <2>3, ChainGoesOn
  <1>. HIDE DEF list, A, paths, k
  <1>4. \A n \in 1..k : list[n] \in A
    BY <1>1, ElementOfSeq DEF k
  <1>5. paths \in [1..k -> Seq(P)] /\ \A n \in 1..k : paths[n] = <<list[n]>> \o Behindmost(job, s, tails, list[n])
    BY <1>2, <1>3, <1>4 DEF PathsOf
  <1>. HIDE DEF P
  <1>6. CASE k = 0 /\ FirstLongest(paths) = <<>>
    <2>1. A = {}
      BY <1>1, <1>6
    <2>2. <<>> \in PathsOf(job)
      BY DEF PathsOf
    <2>. QED
      BY <1>6, <2>1, <2>2 DEF IsLongerBy, A, paths
  <1>7. CASE \E n \in 1..k : FirstLongest(paths) = paths[n] /\ IsFirstLongest(paths, k, n)
    <2>1. PICK n \in 1..k : FirstLongest(paths) = paths[n] /\ IsFirstLongest(paths, k, n)
      BY <1>7
    <2>2. list[n] \in A /\ paths[n] = <<list[n]>> \o Behindmost(job, s, tails, list[n])
      BY <1>4, <1>5
    <2>3. \A b \in A :
            /\ Len(Behindmost(job, s, tails, b)) <= Len(Behindmost(job, s, tails, list[n]))
            /\ AliasLess(b, list[n]) =>
                 Len(Behindmost(job, s, tails, b)) < Len(Behindmost(job, s, tails, list[n]))
      <3>. SUFFICES ASSUME NEW b \in A
                    PROVE  /\ Len(Behindmost(job, s, tails, b)) <= Len(Behindmost(job, s, tails, list[n]))
                           /\ AliasLess(b, list[n]) =>
                                Len(Behindmost(job, s, tails, b))
                                  < Len(Behindmost(job, s, tails, list[n]))
        OBVIOUS
      <3>1. PICK m \in 1..k : list[m] = b
        BY <1>1
      <3>2. Len(paths[m]) <= Len(paths[n]) /\ (AliasLess(b, list[n]) => Len(paths[m]) < Len(paths[n]))
        BY <1>1, <2>1, <3>1 DEF IsFirstLongest
      <3>3. Len(paths[m]) = Len(Behindmost(job, s, tails, b)) + 1
        BY <1>3, <1>5, <3>1
      <3>4. Len(paths[n]) = Len(Behindmost(job, s, tails, list[n])) + 1
        BY <1>3, <2>2
      <3>5. Len(Behindmost(job, s, tails, b)) \in Nat /\ Len(Behindmost(job, s, tails, list[n])) \in Nat
        BY <1>3, <2>2
      <3>. QED
        BY <3>2, <3>3, <3>4, <3>5
    <2>4. FirstLongest(paths) \in PathsOf(job)
      BY <1>3, <2>1, <2>2
    <2>. QED
      BY <2>1, <2>2, <2>3, <2>4 DEF IsLongerBy, A, paths
  <1>. QED
    BY <1>1, <1>5, <1>6, <1>7, LongestOfMany

(* The recursion, a remaining step at a time.                              *)
LEMMA LongestPathIs ==
  ASSUME job \in JobsOf({"probe"})
  PROVE  /\ \A r \in 0..7 : LongestPath[r] \in TailsOf(job)
         /\ \A s \in StatesOf(job) : LongestPath[0][s] = <<>>
         /\ \A r \in 1..7, s \in StatesOf(job) :
              LongestPath[r][s] = FirstLongest(PathsFrom(s, LongestPath[r - 1]))
  <1>. DEFINE S == StatesOf(job)
              F == TailsOf(job)
              Longer(f) == [s \in S |-> FirstLongest(PathsFrom(s, f))]
              none == [s \in S |-> <<>>]
              Fits(g) == g = [r \in 0..7 |->
                                [s \in DOMAIN job.absorb |->
                                   IF r = 0 THEN <<>> ELSE FirstLongest(PathsFrom(s, g[r - 1]))]]
  <1>1. LongestPath = CHOOSE g : Fits(g)
    BY Zenon DEF LongestPath
  <1>2. none \in F /\ \A f \in F : Longer(f) \in F
    <2>1. <<>> \in PathsOf(job)
      BY DEF PathsOf
    <2>2. none \in F
      BY <2>1 DEF TailsOf
    <2>3. ASSUME NEW f \in F PROVE Longer(f) \in F
      <3>1. \A s \in S : FirstLongest(PathsFrom(s, f)) \in PathsOf(job)
        BY LongerByOne
      <3>. QED
        BY <3>1 DEF TailsOf
    <2>. QED
      BY <2>2, <2>3
  <1>3. \E g : Fits(g)
    <2>. DEFINE step == [r \in 1..7 |-> [f \in F |-> Longer(f)]]
    <2>1. step \in [1..7 -> [F -> F]] /\ 7 \in Nat /\ none \in F
      BY <1>2
    <2>2. \A r \in 1..7 : \A f \in F : step[r][f] = Longer(f)
      OBVIOUS
    <2>. HIDE DEF step, none, F, Longer
    <2>3. PICK g \in [0..7 -> F] : Iterates(g, none, step, 7)
      BY <2>1, RecursionExists
    <2>4. g[0] = none /\ \A r \in 1..7 : g[r] = Longer(g[r - 1])
      <3>1. g[0] = none /\ \A r \in 1..7 : g[r] = step[r][g[r - 1]]
        BY <2>3 DEF Iterates
      <3>2. \A r \in 1..7 : r - 1 \in 0..7
        OBVIOUS
      <3>. QED
        BY <2>2, <2>3, <3>1, <3>2
    <2>5. \A r \in 0..7 : g[r] = [s \in DOMAIN job.absorb |->
                                    IF r = 0 THEN <<>> ELSE FirstLongest(PathsFrom(s, g[r - 1]))]
      <3>. SUFFICES ASSUME NEW r \in 0..7
                    PROVE  g[r] = [s \in DOMAIN job.absorb |->
                                     IF r = 0 THEN <<>> ELSE FirstLongest(PathsFrom(s, g[r - 1]))]
        OBVIOUS
      <3>1. CASE r = 0
        BY <2>4, <3>1, Zenon DEF none, StatesOf
      <3>2. CASE r # 0
        <4>1. r \in 1..7
          BY <3>2
        <4>2. g[r] = Longer(g[r - 1])
          BY <2>4, <4>1
        <4>. QED
          BY <3>2, <4>2, Zenon DEF Longer, StatesOf
      <3>. QED
        BY <3>1, <3>2
    <2>6. g = [r \in 0..7 |-> g[r]]
      BY <2>3
    <2>7. Fits(g)
      <3>. DEFINE h == [r \in 0..7 |->
                          [s \in DOMAIN job.absorb |->
                             IF r = 0 THEN <<>> ELSE FirstLongest(PathsFrom(s, g[r - 1]))]]
      <3>1. \A r \in 0..7 : g[r] = h[r]
        BY <2>5, Zenon
      <3>2. DOMAIN h = 0..7
        OBVIOUS
      <3>3. h = [r \in 0..7 |-> h[r]]
        OBVIOUS
      <3>. HIDE DEF h
      <3>4. g = h
        BY <2>6, <3>1, <3>2, <3>3
      <3>. QED
        BY <3>4, Zenon DEF h
    <2>. QED
      BY <2>7
  <1>4. Fits(LongestPath)
    <2>. HIDE DEF Fits
    <2>. QED
      BY <1>1, <1>3, Zenon
  <1>5. \A r \in 0..7 :
          LongestPath[r] = [s \in S |-> IF r = 0 THEN <<>> ELSE FirstLongest(PathsFrom(s, LongestPath[r - 1]))]
    BY <1>4, Zenon DEF StatesOf
  <1>6. LongestPath[0] = none
    <2>1. 0 \in 0..7
      OBVIOUS
    <2>. QED
      BY <1>5, <2>1, Zenon
  <1>7. \A r \in 1..7 : LongestPath[r] = Longer(LongestPath[r - 1])
    <2>1. \A r \in 1..7 : r \in 0..7 /\ r # 0
      OBVIOUS
    <2>. QED
      BY <1>5, <2>1, Zenon
  <1>8. \A r \in 0..7 : LongestPath[r] \in F
    <2>. DEFINE T == {r \in 0..7 : LongestPath[r] \in F}
    <2>. HIDE DEF F, none, Longer
    <2>1. 0 \in T /\ \A r \in 1..7 : r - 1 \in T => r \in T
      BY <1>2, <1>6, <1>7
    <2>. HIDE DEF T
    <2>2. 0..7 \subseteq T
      BY <2>1, InductionUpTo
    <2>. QED
      BY <2>2 DEF T
  <1>9. \A s \in S : LongestPath[0][s] = <<>>
    BY <1>6
  <1>10. \A r \in 1..7, s \in S : LongestPath[r][s] = FirstLongest(PathsFrom(s, LongestPath[r - 1]))
    BY <1>7
  <1>. QED
    BY <1>8, <1>9, <1>10

(* No chain of the same bound is longer.                                   *)
NoneLonger(jb, s, r, path) ==
  \A q \in PathsOf(jb) : ChainOf(jb, s, q) /\ Len(q) <= r => Len(q) <= Len(path)

(* Which of two chains of one length is met first.                         *)
ChainBefore(q, path) ==
  \E n \in 1..Len(q) : (\A m \in 1..(n - 1) : q[m] = path[m]) /\ AliasLess(q[n], path[n])

NoneBefore(jb, s, path) ==
  \A q \in PathsOf(jb) : ChainOf(jb, s, q) /\ Len(q) = Len(path) => ~ChainBefore(q, path)

Longest(jb, s, r, path) ==
  /\ path \in PathsOf(jb) /\ Len(path) <= r /\ ChainOf(jb, s, path)
  /\ NoneLonger(jb, s, r, path) /\ NoneBefore(jb, s, path)

LEMMA FirstDifference ==
  ASSUME NEW P, NEW a, NEW b, NEW q \in Seq(P), NEW path \in Seq(P), Len(q) = Len(path),
         a \in P, b \in P, ChainBefore(<<b>> \o q, <<a>> \o path)
  PROVE  AliasLess(b, a) \/ (b = a /\ ChainBefore(q, path))
  <1>. DEFINE k == Len(q)
              bq == <<b>> \o q
              ap == <<a>> \o path
  <1>1. /\ k \in Nat /\ Len(bq) = k + 1 /\ bq[1] = b /\ ap[1] = a
        /\ \A i \in 1..k : bq[i + 1] = q[i] /\ ap[i + 1] = path[i]
    OBVIOUS
  <1>2. PICK n \in 1..Len(bq) : (\A m \in 1..(n - 1) : bq[m] = ap[m]) /\ AliasLess(bq[n], ap[n])
    BY Zenon DEF ChainBefore
  <1>. HIDE DEF k, bq, ap
  <1>3. CASE n = 1
    BY <1>1, <1>2, <1>3
  <1>4. CASE n # 1
    <2>1. n - 1 \in 1..k /\ (n - 1) + 1 = n /\ 1 \in 1..(n - 1)
      BY <1>1, <1>2, <1>4
    <2>2. b = a
      BY <1>1, <1>2, <2>1
    <2>3. ASSUME NEW m \in 1..((n - 1) - 1) PROVE q[m] = path[m]
      <3>1. m \in 1..k /\ m + 1 \in 1..(n - 1)
        BY <1>1, <1>2, <2>1
      <3>. QED
        BY <1>1, <1>2, <3>1
    <2>4. bq[n] = q[n - 1] /\ ap[n] = path[n - 1]
      <3>1. bq[(n - 1) + 1] = q[n - 1] /\ ap[(n - 1) + 1] = path[n - 1]
        BY <1>1, <2>1
      <3>. QED
        BY <2>1, <3>1
    <2>5. AliasLess(q[n - 1], path[n - 1])
      BY <1>2, <2>4
    <2>6. ChainBefore(q, path)
      BY <2>1, <2>3, <2>5 DEF ChainBefore, k
    <2>. QED
      BY <2>2, <2>6
  <1>. QED
    BY <1>3, <1>4

LEMMA LongestStays ==
  ASSUME NEW jb \in JobsOf({"probe"}), NEW s \in StatesOf(jb), NEW r \in Nat, NEW tails \in TailsOf(jb),
         \A t \in StatesOf(jb) : Longest(jb, t, r, tails[t]),
         NEW path \in PathsOf(jb), IsLongerBy(jb, s, tails, path)
  PROVE  Longest(jb, s, r + 1, path)
  <1>. DEFINE A == PairAliases(jb, s)
              Next(a) == jb.absorb[s][a[1]]
              Rest(a) == Behindmost(jb, s, tails, a)
  <1>1. \A a \in A : Next(a) \in StatesOf(jb) /\ Rest(a) = tails[Next(a)] /\ Longest(jb, Next(a), r, Rest(a))
    BY PairAliasesAre DEF Behindmost
  <1>2. \A a \in A : /\ Rest(a) \in PathsOf(jb) /\ Len(Rest(a)) \in Nat /\ Len(Rest(a)) <= r
                     /\ ChainOf(jb, Next(a), Rest(a)) /\ NoneLonger(jb, Next(a), r, Rest(a))
                     /\ NoneBefore(jb, Next(a), Rest(a))
    BY <1>1, LenProperties DEF Longest, PathsOf
  <1>3. ASSUME path = <<>>, A = {} PROVE Longest(jb, s, r + 1, path)
    <2>1. ChainOf(jb, s, path) /\ Len(path) = 0
      BY <1>3 DEF ChainOf
    <2>2. NoneLonger(jb, s, r + 1, path)
      <3>. SUFFICES ASSUME NEW q \in PathsOf(jb), ChainOf(jb, s, q), q # <<>> PROVE FALSE
        BY <2>1 DEF NoneLonger
      <3>. QED
        BY <1>3, ChainSplits
    <2>3. NoneBefore(jb, s, path)
      BY <2>1 DEF NoneBefore, ChainBefore
    <2>. QED
      BY <2>1, <2>2, <2>3 DEF Longest
  <1>4. ASSUME NEW a \in A, path = <<a>> \o Rest(a),
               \A b \in A : /\ Len(Rest(b)) <= Len(Rest(a))
                            /\ AliasLess(b, a) => Len(Rest(b)) < Len(Rest(a))
        PROVE  Longest(jb, s, r + 1, path)
    <2>1. Len(path) = Len(Rest(a)) + 1 /\ (ChainOf(jb, s, path) <=> ChainOf(jb, Next(a), Rest(a)))
      BY <1>2, <1>4, ChainGoesOn
    <2>2. Len(path) <= r + 1 /\ ChainOf(jb, s, path)
      BY <1>2, <2>1
    <2>3. NoneLonger(jb, s, r + 1, path)
      <3>. SUFFICES ASSUME NEW q \in PathsOf(jb), ChainOf(jb, s, q), Len(q) <= r + 1
                    PROVE  Len(q) <= Len(path)
        BY DEF NoneLonger
      <3>1. CASE q = <<>>
        BY <1>2, <2>1, <3>1
      <3>2. CASE q # <<>>
        <4>1. PICK b \in A, tail \in PathsOf(jb) : q = <<b>> \o tail /\ ChainOf(jb, Next(b), tail)
          BY <3>2, ChainSplits
        <4>2. Len(q) = Len(tail) + 1 /\ Len(tail) \in Nat
          BY <4>1, ChainGoesOn, LenProperties DEF PathsOf
        <4>3. Len(tail) <= r
          BY <4>2
        <4>4. Len(tail) <= Len(Rest(b))
          BY <1>2, <4>1, <4>3 DEF NoneLonger
        <4>. HIDE DEF A, Next, Rest
        <4>5. Len(Rest(b)) <= Len(Rest(a)) /\ Len(Rest(b)) \in Nat /\ Len(Rest(a)) \in Nat
          BY <1>2, <1>4, Zenon
        <4>. QED
          BY <2>1, <4>2, <4>4, <4>5
      <3>. QED
        BY <3>1, <3>2
    <2>4. NoneBefore(jb, s, path)
      <3>. SUFFICES ASSUME NEW q \in PathsOf(jb), ChainOf(jb, s, q), Len(q) = Len(path), ChainBefore(q, path)
                    PROVE  FALSE
        BY DEF NoneBefore
      <3>1. Len(q) # 0
        BY <1>2, <2>1
      <3>2. q # <<>>
        BY <3>1
      <3>3. PICK b \in A, tail \in PathsOf(jb) : q = <<b>> \o tail /\ ChainOf(jb, Next(b), tail)
        BY <3>2, ChainSplits
      <3>4. Len(q) = Len(tail) + 1 /\ Len(tail) \in Nat /\ Len(Rest(a)) \in Nat
        BY <1>2, <3>3, ChainGoesOn, LenProperties DEF PathsOf
      <3>5. Len(tail) = Len(Rest(a)) /\ Len(tail) <= r
        <4>1. Len(Rest(a)) <= r
          BY <1>2
        <4>. HIDE DEF Rest
        <4>. QED
          BY <2>1, <3>4, <4>1
      <3>6. AliasLess(b, a) \/ (b = a /\ ChainBefore(tail, Rest(a)))
        <4>. DEFINE P == SymbolsOf(jb) \X SymbolsOf(jb)
        <4>1. tail \in Seq(P) /\ Rest(a) \in Seq(P)
          BY <1>2 DEF PathsOf
        <4>2. a \in P /\ b \in P
          BY PairAliasesAre
        <4>3. ChainBefore(<<b>> \o tail, <<a>> \o Rest(a))
          BY <1>4, <3>3
        <4>. HIDE DEF P, Rest, A
        <4>. QED
          BY <3>5, <4>1, <4>2, <4>3, FirstDifference
      <3>7. ~AliasLess(b, a)
        <4>1. Len(tail) <= Len(Rest(b)) /\ Len(Rest(b)) \in Nat
          BY <1>2, <3>3, <3>5 DEF NoneLonger
        <4>. HIDE DEF A, Next, Rest
        <4>2. AliasLess(b, a) => Len(Rest(b)) < Len(Rest(a))
          BY <1>4, Zenon
        <4>. QED
          BY <3>4, <3>5, <4>1, <4>2
      <3>8. b = a => ~ChainBefore(tail, Rest(a))
        BY <1>2, <3>3, <3>5 DEF NoneBefore
      <3>. QED
        BY <3>6, <3>7, <3>8
    <2>. QED
      BY <2>2, <2>3, <2>4 DEF Longest
  <1>. QED
    BY <1>3, <1>4 DEF IsLongerBy

LEMMA LongestPathIsLongest ==
  ASSUME job \in JobsOf({"probe"}), NEW r \in 0..7, NEW s \in StatesOf(job)
  PROVE  Longest(job, s, r, LongestPath[r][s])
  <1>. DEFINE S == StatesOf(job)
              T == {i \in 0..7 : \A t \in S : Longest(job, t, i, LongestPath[i][t])}
  <1>1. 0 \in T
    <2>. SUFFICES ASSUME NEW t \in S PROVE Longest(job, t, 0, LongestPath[0][t])
      OBVIOUS
    <2>1. LongestPath[0][t] = <<>>
      BY LongestPathIs
    <2>2. Longest(job, t, 0, <<>>)
      <3>1. \A q \in PathsOf(job) : Len(q) \in Nat
        BY LenProperties DEF PathsOf
      <3>2. <<>> \in PathsOf(job) /\ Len(<<>>) = 0 /\ ChainOf(job, t, <<>>)
        BY DEF PathsOf, ChainOf
      <3>. QED
        BY <3>1, <3>2 DEF Longest, NoneLonger, NoneBefore, ChainBefore
    <2>. QED
      BY <2>1, <2>2
  <1>2. ASSUME NEW i \in 1..7, i - 1 \in T PROVE i \in T
    <2>. SUFFICES ASSUME NEW t \in S PROVE Longest(job, t, i, LongestPath[i][t])
      OBVIOUS
    <2>. DEFINE tails == LongestPath[i - 1]
                path == LongestPath[i][t]
    <2>1. i - 1 \in 0..7 /\ i - 1 \in Nat /\ (i - 1) + 1 = i
      OBVIOUS
    <2>2. tails \in TailsOf(job) /\ path = FirstLongest(PathsFrom(t, tails))
      BY <2>1, LongestPathIs
    <2>3. \A u \in S : Longest(job, u, i - 1, tails[u])
      BY <1>2
    <2>. HIDE DEF tails, path
    <2>4. path \in PathsOf(job) /\ IsLongerBy(job, t, tails, path)
      BY <2>2, LongerByOne
    <2>5. Longest(job, t, (i - 1) + 1, path)
      BY <2>1, <2>2, <2>3, <2>4, LongestStays
    <2>. QED
      BY <2>1, <2>5 DEF path
  <1>. HIDE DEF T
  <1>3. 0..7 \subseteq T
    BY <1>1, <1>2, InductionUpTo
  <1>. QED
    BY <1>3 DEF T


-----------------------------------------------------------------------------
(* The four messages of a branch.                                          *)
WithOne(l, x, suffix) == l \o <<x>> \o suffix

IsWithOne(m, B, l, x, suffix) ==
  /\ m \in Seq(B) /\ m[Len(l) + 1] = x
  /\ \A n \in 1..Len(l) : m[n] = l[n]

LEMMA OneBehind ==
  ASSUME NEW B, NEW l \in Seq(B), NEW x \in B, NEW suffix \in Seq(B)
  PROVE  /\ IsWithOne(WithOne(l, x, suffix), B, l, x, suffix)
         /\ WithOne(l, x, suffix) = Append(l, x) \o suffix /\ Append(l, x) \in Seq(B)
  <1>. DEFINE longer == Append(l, x)
              m == WithOne(l, x, suffix)
  <1>1. /\ l \o <<x>> = longer /\ longer \in Seq(B) /\ Len(longer) = Len(l) + 1 /\ longer[Len(l) + 1] = x
        /\ \A n \in 1..Len(l) : longer[n] = l[n]
        /\ Len(l) \in Nat
    OBVIOUS
  <1>. HIDE DEF longer
  <1>2. longer \o suffix \in Seq(B) /\ \A n \in 1..(Len(l) + 1) : (longer \o suffix)[n] = longer[n]
    BY <1>1
  <1>3. m = longer \o suffix
    BY <1>1, Zenon DEF WithOne
  <1>4. \A n \in 1..Len(l) : n \in 1..(Len(l) + 1)
    BY <1>1
  <1>5. Len(l) + 1 \in 1..(Len(l) + 1)
    BY <1>1
  <1>. HIDE DEF m
  <1>. QED
    BY <1>1, <1>2, <1>3, <1>4, <1>5 DEF IsWithOne, longer, m

LEMMA BranchesDiffer ==
  ASSUME NEW B, NEW l \in Seq(B), NEW r \in Seq(B), Len(l) = Len(r), NEW x \in B, NEW y \in B,
         NEW suffix \in Seq(B), WithOne(l, x, suffix) = WithOne(r, y, suffix)
  PROVE  l = r /\ x = y
  <1>. DEFINE m == WithOne(l, x, suffix)
              k == Len(l)
  <1>1. k \in Nat /\ Len(r) = k /\ Len(l) = k
    BY LenProperties
  <1>2. IsWithOne(m, B, l, x, suffix)
    BY OneBehind
  <1>3. IsWithOne(WithOne(r, y, suffix), B, r, y, suffix)
    BY OneBehind
  <1>4. IsWithOne(m, B, r, y, suffix)
    BY <1>3
  <1>. HIDE DEF m, k
  <1>5. x = y /\ \A n \in 1..k : l[n] = r[n]
    BY <1>1, <1>2, <1>4 DEF IsWithOne
  <1>6. l = r
    BY <1>1, <1>5, SeqEqual
  <1>. QED
    BY <1>5, <1>6

IsBranch(jb, pair, alias, suffix) ==
  \E n \in 1..Len(jb.pairs) :
    pair = jb.pairs[n] /\ alias \in PairAliases(jb, ForwardBy(jb, pair.left))
      /\ suffix \in Seq(SymbolsOf(jb))

LEMMA BranchIs ==
  ASSUME NEW jb \in JobsOf({"probe"}), NEW pair, NEW alias, NEW suffix, IsBranch(jb, pair, alias, suffix)
  PROVE  /\ BranchMessages(pair, alias, suffix) \in Seq(Seq(SymbolsOf(jb)))
         /\ IsFiniteSet(ToSet(BranchMessages(pair, alias, suffix)))
         /\ Cardinality(ToSet(BranchMessages(pair, alias, suffix))) = 4
         /\ \E s \in StatesOf(jb) :
              \A m \in ToSet(BranchMessages(pair, alias, suffix)) : ForwardBy(jb, m) = s
  <1>. DEFINE B == SymbolsOf(jb)
              S == StatesOf(jb)
              l == pair.left
              r == pair.right
              x == alias[1]
              y == alias[2]
              behind == ForwardBy(jb, l)
              common == jb.absorb[behind][x]
              end == Runs(jb.absorb, common, suffix)
              list == BranchMessages(pair, alias, suffix)
  <1>1. /\ l \in Seq(B) /\ r \in Seq(B) /\ Len(l) = 3 /\ Len(r) = 3 /\ l # r /\ suffix \in Seq(B)
        /\ ForwardBy(jb, l) = ForwardBy(jb, r) /\ behind \in S
    BY ProbePairs DEF IsBranch
  <1>2. x \in B /\ y \in B /\ x # y /\ jb.absorb[behind][x] = jb.absorb[behind][y] /\ common \in S
    BY <1>1, PairAliasesAre DEF IsBranch
  <1>3. IsStep(jb.absorb, S, B) /\ jb.start \in S
    BY ProbeJob DEF IsHash
  <1>. HIDE DEF B, S, l, r, x, y, behind, common
  <1>4. ASSUME NEW m \in {l, r}, NEW z \in {x, y}
        PROVE  WithOne(m, z, suffix) \in Seq(B) /\ ForwardBy(jb, WithOne(m, z, suffix)) = end
    <2>. DEFINE joined == WithOne(m, z, suffix)
                longer == Append(m, z)
    <2>1. m \in Seq(B) /\ z \in B /\ suffix \in Seq(B) /\ ForwardBy(jb, m) = behind
          /\ jb.absorb[behind][z] = common
      BY <1>1, <1>2 DEF behind, common
    <2>2. joined \in Seq(B) /\ joined = longer \o suffix /\ longer \in Seq(B)
      <3>1. IsWithOne(joined, B, m, z, suffix) /\ joined = longer \o suffix /\ longer \in Seq(B)
        BY <2>1, OneBehind
      <3>. HIDE DEF joined, longer
      <3>. QED
        BY <3>1 DEF IsWithOne
    <2>3. Runs(jb.absorb, jb.start, longer) = jb.absorb[Runs(jb.absorb, jb.start, m)][z]
      BY <1>3, <2>1, RunsOn
    <2>4. Runs(jb.absorb, jb.start, longer) = common
      BY <2>1, <2>3 DEF ForwardBy
    <2>. HIDE DEF joined, longer
    <2>5. Runs(jb.absorb, jb.start, longer \o suffix) = Runs(jb.absorb, Runs(jb.absorb, jb.start, longer), suffix)
      BY <1>3, <2>1, <2>2, RunsJoin
    <2>6. ForwardBy(jb, joined) = end
      BY <2>2, <2>4, <2>5 DEF ForwardBy
    <2>. QED
      BY <2>2, <2>6 DEF joined
  <1>5. end \in S
    BY <1>1, <1>2, <1>3, RunsInto
  <1>. HIDE DEF end
  <1>6. list = << WithOne(l, x, suffix), WithOne(l, y, suffix),
                  WithOne(r, x, suffix), WithOne(r, y, suffix) >>
    BY Zenon DEF BranchMessages, l, r, x, y, WithOne
  <1>7. ASSUME NEW m \in {l, r}, NEW n \in {l, r}, NEW z \in {x, y}, NEW w \in {x, y},
               WithOne(m, z, suffix) = WithOne(n, w, suffix)
        PROVE  m = n /\ z = w
    <2>1. m \in Seq(B) /\ n \in Seq(B) /\ Len(m) = Len(n) /\ z \in B /\ w \in B /\ suffix \in Seq(B)
      BY <1>1, <1>2
    <2>2. WithOne(m, z, suffix) = WithOne(n, w, suffix)
      BY <1>7
    <2>. QED
      BY <2>1, <2>2, BranchesDiffer
  <1>. HIDE DEF list
  <1>. DEFINE a == WithOne(l, x, suffix)
              b == WithOne(l, y, suffix)
              c == WithOne(r, x, suffix)
              d == WithOne(r, y, suffix)
  <1>8. a # b /\ a # c /\ a # d /\ b # c /\ b # d /\ c # d
    BY <1>1, <1>2, <1>7
  <1>9. /\ a \in Seq(B) /\ b \in Seq(B) /\ c \in Seq(B) /\ d \in Seq(B)
        /\ ForwardBy(jb, a) = end /\ ForwardBy(jb, b) = end /\ ForwardBy(jb, c) = end /\ ForwardBy(jb, d) = end
    BY <1>4
  <1>10. list = <<a, b, c, d>>
    BY <1>6
  <1>. HIDE DEF a, b, c, d
  <1>11. list \in Seq(Seq(B)) /\ Len(list) = 4 /\ list[1] = a /\ list[2] = b /\ list[3] = c /\ list[4] = d
    BY <1>9, <1>10
  <1>12. AllDiffer(list, 4)
    <2>1. \A n \in 1..4 : n = 1 \/ n = 2 \/ n = 3 \/ n = 4
      OBVIOUS
    <2>. QED
      BY <1>8, <1>11, <2>1 DEF AllDiffer
  <1>13. IsFiniteSet(ToSet(list)) /\ Cardinality(ToSet(list)) = 4 /\ ToSet(list) = {list[n] : n \in 1..4}
    BY <1>11, <1>12, MembersOfList
  <1>14. \A m \in ToSet(list) : ForwardBy(jb, m) = end
    <2>1. \A n \in 1..4 : n = 1 \/ n = 2 \/ n = 3 \/ n = 4
      OBVIOUS
    <2>2. \A n \in 1..4 : ForwardBy(jb, list[n]) = end
      BY <1>9, <1>11, <2>1
    <2>. QED
      BY <1>13, <2>2
  <1>. QED
    BY <1>5, <1>11, <1>13, <1>14 DEF list, B, S

-----------------------------------------------------------------------------
(* The branches, a seed and an alias of its state, and what is counted.    *)
Branches(jb) ==
  {b \in (0..(Len(jb.pairs) - 1)) \X (SymbolsOf(jb) \X SymbolsOf(jb)) :
     b[2] \in PairAliases(jb, CommonAt(jb, b[1]))}

MessagesIn(jb, branches, n) ==
  LET branch == branches[(n \div Len(jb.suffixes)) + 1]
  IN  BranchMessages(jb.pairs[branch[1] + 1], branch[2], jb.suffixes[(n % Len(jb.suffixes)) + 1])

FoldsIn(jb, branches, n) == {FoldedBy(jb, m) : m \in ToSet(MessagesIn(jb, branches, n))}
DigestsIn(jb, branches, n) == {jb.digest[FoldedBy(jb, m)] : m \in ToSet(MessagesIn(jb, branches, n))}

FoldClash(jb, branches) ==
  {n \in Nat : \E a, b \in ToSet(MessagesIn(jb, branches, n)) : a # b /\ FoldedBy(jb, a) = FoldedBy(jb, b)}
DigestClash(jb, branches) ==
  {n \in Nat : \E a, b \in ToSet(MessagesIn(jb, branches, n)) :
                 a # b /\ jb.digest[FoldedBy(jb, a)] = jb.digest[FoldedBy(jb, b)]}

LEMMA BranchIn ==
  ASSUME NEW jb \in JobsOf({"probe"}), NEW branches \in Seq(Branches(jb)),
         NEW n \in 0..(Len(branches) * Len(jb.suffixes) - 1)
  PROVE  /\ n \in Nat
         /\ IsFiniteSet(ToSet(MessagesIn(jb, branches, n)))
         /\ Cardinality(ToSet(MessagesIn(jb, branches, n))) = 4
         /\ \E s \in StatesOf(jb) : \A m \in ToSet(MessagesIn(jb, branches, n)) : ForwardBy(jb, m) = s
  <1>. DEFINE k == Len(branches)
              d == Len(jb.suffixes)
              p == Len(jb.pairs)
              q == n \div d
              r == n % d
              branch == branches[q + 1]
              pair == jb.pairs[branch[1] + 1]
              alias == branch[2]
              suffix == jb.suffixes[r + 1]
              T == Branches(jb)
  <1>1. k \in Nat /\ d \in Nat /\ p \in Nat /\ branches \in Seq(T)
    BY ProbePairs, LenProperties
  <1>2. n \in Nat /\ q \in 0..(k - 1) /\ r \in 0..(d - 1)
    <2>1. n \in 0..(k * d - 1)
      OBVIOUS
    <2>. HIDE DEF k, d
    <2>. QED
      BY <1>1, <2>1, PlaceInTable
  <1>. HIDE DEF q, r
  <1>3. q + 1 \in 1..k /\ r + 1 \in 1..d
    <2>. HIDE DEF k, d
    <2>. QED
      BY <1>1, <1>2
  <1>4. branch \in T
    <2>. HIDE DEF T
    <2>. QED
      BY <1>1, <1>3, ElementOfSeq
  <1>. HIDE DEF branch
  <1>5. branch[1] \in 0..(p - 1) /\ alias \in PairAliases(jb, CommonAt(jb, branch[1]))
    BY <1>4 DEF Branches
  <1>6. branch[1] + 1 \in 1..p
    <2>. HIDE DEF p
    <2>. QED
      BY <1>1, <1>5
  <1>7. suffix \in Seq(SymbolsOf(jb))
    BY <1>3, ProbePairs
  <1>8. IsBranch(jb, pair, alias, suffix)
    BY <1>5, <1>6, <1>7 DEF IsBranch, CommonAt
  <1>. HIDE DEF pair, alias, suffix
  <1>9. /\ IsFiniteSet(ToSet(BranchMessages(pair, alias, suffix)))
        /\ Cardinality(ToSet(BranchMessages(pair, alias, suffix))) = 4
        /\ \E s \in StatesOf(jb) : \A m \in ToSet(BranchMessages(pair, alias, suffix)) : ForwardBy(jb, m) = s
    BY <1>8, BranchIs
  <1>10. MessagesIn(jb, branches, n) = BranchMessages(pair, alias, suffix)
    BY Zenon DEF MessagesIn, pair, alias, suffix, branch, q, r
  <1>. QED
    BY <1>2, <1>9, <1>10

(* The tool compares the number of values with 4.                          *)
LEMMA ClashesIn ==
  ASSUME NEW jb \in JobsOf({"probe"}), NEW branches \in Seq(Branches(jb)),
         NEW n \in 0..(Len(branches) * Len(jb.suffixes) - 1)
  PROVE  /\ Cardinality(FoldsIn(jb, branches, n)) # 4 <=> n \in FoldClash(jb, branches)
         /\ Cardinality(DigestsIn(jb, branches, n)) # 4 <=> n \in DigestClash(jb, branches)
         /\ n \in FoldClash(jb, branches) => n \in DigestClash(jb, branches)
  <1>. DEFINE M == ToSet(MessagesIn(jb, branches, n))
              f == [m \in M |-> FoldedBy(jb, m)]
              g == [m \in M |-> jb.digest[FoldedBy(jb, m)]]
  <1>1. n \in Nat /\ IsFiniteSet(M) /\ Cardinality(M) = 4
    BY BranchIn
  <1>2. /\ {f[m] : m \in M} = FoldsIn(jb, branches, n)
        /\ {g[m] : m \in M} = DigestsIn(jb, branches, n)
    BY DEF FoldsIn, DigestsIn
  <1>3. /\ (\E a, b \in M : a # b /\ f[a] = f[b]) <=> n \in FoldClash(jb, branches)
        /\ (\E a, b \in M : a # b /\ g[a] = g[b]) <=> n \in DigestClash(jb, branches)
    BY <1>1 DEF FoldClash, DigestClash
  <1>4. (\E a, b \in M : a # b /\ f[a] = f[b]) => \E a, b \in M : a # b /\ g[a] = g[b]
    OBVIOUS
  <1>5. DOMAIN f = M /\ DOMAIN g = M
    OBVIOUS
  <1>. HIDE DEF f, g, M
  <1>6. Cardinality({f[m] : m \in M}) # Cardinality(M) <=> \E a, b \in M : a # b /\ f[a] = f[b]
    BY <1>1, <1>5, FewerValues
  <1>7. Cardinality({g[m] : m \in M}) # Cardinality(M) <=> \E a, b \in M : a # b /\ g[a] = g[b]
    BY <1>1, <1>5, FewerValues
  <1>. QED
    BY <1>1, <1>2, <1>3, <1>4, <1>6, <1>7

LEMMA BranchesGrow ==
  ASSUME job \in JobsOf({"probe"}), NEW k \in 0..(Len(job.pairs) - 1),
         NEW branches \in Seq(Branches(job)), NEW list, list = AliasesOf(CommonAt(job, k))
  PROVE  branches \o [n \in DOMAIN list |-> <<k, list[n]>>] \in Seq(Branches(job))
  <1>. DEFINE A == PairAliases(job, CommonAt(job, k))
              P == SymbolsOf(job) \X SymbolsOf(job)
              T == Branches(job)
              p == Len(job.pairs)
              more == [n \in DOMAIN list |-> <<k, list[n]>>]
  <1>1. CommonAt(job, k) \in StatesOf(job) /\ k \in Nat
    BY CommonIs
  <1>2. list \in Seq(A)
    BY <1>1, AliasesListed DEF Lists
  <1>3. A \subseteq P
    BY <1>1, PairAliasesAre
  <1>. HIDE DEF A, P
  <1>4. Len(list) \in Nat /\ DOMAIN list = 1..Len(list) /\ \A n \in 1..Len(list) : list[n] \in A
    BY <1>2, LenProperties, ElementOfSeq
  <1>5. k \in 0..(p - 1)
    OBVIOUS
  <1>. HIDE DEF p
  <1>6. \A a \in A : <<k, a>> \in T
    <2>. SUFFICES ASSUME NEW a \in A PROVE <<k, a>> \in T
      OBVIOUS
    <2>. DEFINE b == <<k, a>>
    <2>1. b \in (0..(p - 1)) \X P /\ b[1] = k /\ b[2] = a
      BY <1>3, <1>5
    <2>. HIDE DEF b
    <2>2. b \in T
      BY <2>1 DEF Branches, A, P, p
    <2>. QED
      BY <2>2 DEF b
  <1>7. more \in [1..Len(list) -> T]
    <2>. HIDE DEF T
    <2>. QED
      BY <1>4, <1>6
  <1>8. more \in Seq(T)
    <2>. HIDE DEF T, more
    <2>. QED
      BY <1>4, <1>7, SeqDef
  <1>. HIDE DEF T, more
  <1>9. branches \in Seq(T)
    BY DEF T
  <1>10. branches \o more \in Seq(T)
    BY <1>8, <1>9
  <1>. QED
    BY <1>10 DEF T, more

-----------------------------------------------------------------------------
(* The messages of the longest path: each alias doubles them.              *)
TwoOf(list, alias, n) == <<Append(list[n], alias[1]), Append(list[n], alias[2])>>

LEMMA DoubledIs ==
  ASSUME NEW B, NEW list \in Seq(Seq(B)), NEW alias \in B \X B
  PROVE  /\ Doubled(list, alias) \in Seq(Seq(B)) /\ Len(Doubled(list, alias)) = 2 * Len(list)
         /\ \A n \in 1..Len(list) :
              /\ Doubled(list, alias)[2 * n - 1] = Append(list[n], alias[1])
              /\ Doubled(list, alias)[2 * n] = Append(list[n], alias[2])
  <1>. DEFINE size == Len(list)
              x == alias[1]
              y == alias[2]
              ss == [n \in DOMAIN list |-> TwoOf(list, alias, n)]
              all == FlattenSeq(ss)
  <1>1. x \in B /\ y \in B /\ size \in Nat /\ DOMAIN list = 1..size
    BY LenProperties
  <1>2. Doubled(list, alias) = all
    BY Zenon DEF Doubled, TwoOf
  <1>3. ASSUME NEW n \in 1..size
        PROVE  /\ TwoOf(list, alias, n) \in Seq(Seq(B)) /\ Len(TwoOf(list, alias, n)) = 2
               /\ TwoOf(list, alias, n)[1] = Append(list[n], alias[1])
               /\ TwoOf(list, alias, n)[2] = Append(list[n], alias[2])
    <2>. DEFINE m == list[n]
    <2>1. m \in Seq(B)
      BY <1>1, ElementOfSeq
    <2>. HIDE DEF m, x, y
    <2>. DEFINE p == Append(m, x)
                q == Append(m, y)
    <2>2. p \in Seq(B) /\ q \in Seq(B)
      BY <1>1, <2>1
    <2>3. TwoOf(list, alias, n) = <<p, q>>
      BY Zenon DEF TwoOf, m, x, y
    <2>4. p = Append(list[n], alias[1]) /\ q = Append(list[n], alias[2])
      BY DEF m, x, y
    <2>. HIDE DEF p, q
    <2>5. <<p, q>> \in Seq(Seq(B)) /\ Len(<<p, q>>) = 2 /\ <<p, q>>[1] = p /\ <<p, q>>[2] = q
      BY <2>2
    <2>. QED
      BY <2>3, <2>4, <2>5, Zenon
  <1>4. \A n \in 1..size : ss[n] = TwoOf(list, alias, n)
    BY <1>1
  <1>5. ss = [n \in 1..size |-> ss[n]]
    BY <1>1
  <1>. HIDE DEF ss, all, size
  <1>6. Sequences(ss, size, Seq(B)) /\ AllPairs(ss, size)
    BY <1>1, <1>3, <1>4, <1>5 DEF Sequences, AllPairs
  <1>7. all \in Seq(Seq(B)) /\ Len(all) = 2 * size /\ PairsInOrder(all, ss, size)
    BY <1>6, FlattenPairs DEF all
  <1>8. \A n \in 1..size : all[2 * n - 1] = ss[n][1] /\ all[2 * n] = ss[n][2]
    BY <1>7 DEF PairsInOrder
  <1>9. \A n \in 1..size : all[2 * n - 1] = Append(list[n], alias[1]) /\ all[2 * n] = Append(list[n], alias[2])
    BY <1>3, <1>4, <1>8
  <1>. QED
    BY <1>2, <1>7, <1>9 DEF size

(* So many different messages of one length with one forward state.        *)
FamilyFits(jb, state, len, list, size) ==
  /\ list \in Seq(Seq(SymbolsOf(jb))) /\ Len(list) = size
  /\ \A n \in 1..size : Len(list[n]) = len /\ ForwardBy(jb, list[n]) = state
  /\ AllDiffer(list, size)

(* A message with one symbol more.                                         *)
IsAppended(m, l, x, len) ==
  Len(m) = len + 1 /\ m[len + 1] = x /\ \A n \in 1..len : m[n] = l[n]

LEMMA AppendedIs ==
  ASSUME NEW B, NEW l \in Seq(B), NEW x \in B, NEW len, Len(l) = len
  PROVE  Append(l, x) \in Seq(B) /\ IsAppended(Append(l, x), l, x, len) /\ len \in Nat
  BY DEF IsAppended

LEMMA AppendedDiffer ==
  ASSUME NEW B, NEW l \in Seq(B), NEW r \in Seq(B), NEW len, Len(l) = len, Len(r) = len,
         NEW x, NEW y, NEW m, IsAppended(m, l, x, len), IsAppended(m, r, y, len)
  PROVE  l = r /\ x = y
  <1>1. x = y /\ \A n \in 1..len : l[n] = r[n]
    BY DEF IsAppended
  <1>2. l = r
    BY <1>1, SeqEqual
  <1>. QED
    BY <1>1, <1>2

LEMMA FamilyGrows ==
  ASSUME NEW jb \in JobsOf({"probe"}), NEW state \in StatesOf(jb), NEW len \in Nat, NEW list, NEW size \in Nat,
         FamilyFits(jb, state, len, list, size), NEW alias \in PairAliases(jb, state)
  PROVE  FamilyFits(jb, jb.absorb[state][alias[1]], len + 1, Doubled(list, alias), 2 * size)
  <1>. DEFINE B == SymbolsOf(jb)
              x == alias[1]
              y == alias[2]
              next == jb.absorb[state][x]
              F == Doubled(list, alias)
  <1>1. /\ list \in Seq(Seq(B)) /\ Len(list) = size /\ AllDiffer(list, size)
        /\ \A n \in 1..size : Len(list[n]) = len /\ ForwardBy(jb, list[n]) = state
    BY DEF FamilyFits
  <1>2. x \in B /\ y \in B /\ x # y /\ jb.absorb[state][y] = next /\ alias = <<x, y>>
        /\ IsStep(jb.absorb, StatesOf(jb), B) /\ jb.start \in StatesOf(jb)
    BY PairAliasesAre, ProbeJob DEF IsHash
  <1>3. alias \in B \X B
    BY <1>2
  <1>. HIDE DEF B
  <1>4. /\ F \in Seq(Seq(B)) /\ Len(F) = 2 * size
        /\ \A n \in 1..size : F[2 * n - 1] = Append(list[n], x) /\ F[2 * n] = Append(list[n], y)
    BY <1>1, <1>3, DoubledIs
  <1>. HIDE DEF F, x, y, next
  <1>5. ASSUME NEW n \in 1..size, NEW z \in {x, y}
        PROVE  /\ list[n] \in Seq(B) /\ IsAppended(Append(list[n], z), list[n], z, len)
               /\ ForwardBy(jb, Append(list[n], z)) = next
    <2>. DEFINE m == list[n]
    <2>1. m \in Seq(B) /\ Len(m) = len /\ ForwardBy(jb, m) = state /\ z \in B /\ jb.absorb[state][z] = next
      <3>1. m \in Seq(B)
        BY <1>1, ElementOfSeq
      <3>2. jb.absorb[state][x] = next
        BY DEF next
      <3>. QED
        BY <1>1, <1>2, <3>1, <3>2
    <2>. HIDE DEF m
    <2>2. IsAppended(Append(m, z), m, z, len)
      BY <2>1, AppendedIs
    <2>3. Runs(jb.absorb, jb.start, Append(m, z)) = jb.absorb[Runs(jb.absorb, jb.start, m)][z]
      BY <1>2, <2>1, RunsOn
    <2>4. ForwardBy(jb, Append(m, z)) = next
      BY <2>1, <2>3 DEF ForwardBy
    <2>. QED
      BY <2>1, <2>2, <2>4 DEF m
  <1>6. \A i \in 1..(2 * size) : \E n \in 1..size : i = 2 * n - 1 \/ i = 2 * n
    <2>. SUFFICES ASSUME NEW i \in 1..(2 * size)
                  PROVE  \E n \in 1..size : i = 2 * n - 1 \/ i = 2 * n
      OBVIOUS
    <2>1. (i + 1) \div 2 \in 1..size
      OBVIOUS
    <2>2. i = 2 * ((i + 1) \div 2) - 1 \/ i = 2 * ((i + 1) \div 2)
      OBVIOUS
    <2>. QED
      BY <2>1, <2>2
  <1>7. ASSUME NEW i \in 1..(2 * size)
        PROVE  \E n \in 1..size : \E z \in {x, y} :
                 F[i] = Append(list[n], z) /\ i = IF z = x THEN 2 * n - 1 ELSE 2 * n
    <2>1. PICK n \in 1..size : i = 2 * n - 1 \/ i = 2 * n
      BY <1>6
    <2>2. CASE i = 2 * n - 1
      BY <1>4, <2>2
    <2>3. CASE i = 2 * n
      BY <1>2, <1>4, <2>3
    <2>. QED
      BY <2>1, <2>2, <2>3
  <1>8. \A i \in 1..(2 * size) : Len(F[i]) = len + 1 /\ ForwardBy(jb, F[i]) = next
    <2>. SUFFICES ASSUME NEW i \in 1..(2 * size)
                  PROVE  Len(F[i]) = len + 1 /\ ForwardBy(jb, F[i]) = next
      OBVIOUS
    <2>1. PICK n \in 1..size : \E z \in {x, y} : F[i] = Append(list[n], z)
      BY <1>7
    <2>2. PICK z \in {x, y} : F[i] = Append(list[n], z)
      BY <2>1
    <2>3. IsAppended(F[i], list[n], z, len) /\ ForwardBy(jb, F[i]) = next
      BY <1>5, <2>2
    <2>. QED
      BY <2>3 DEF IsAppended
  <1>9. ASSUME NEW i \in 1..(2 * size), NEW j \in 1..(2 * size), F[i] = F[j] PROVE i = j
    <2>1. PICK m \in 1..size : \E z \in {x, y} :
            F[i] = Append(list[m], z) /\ i = IF z = x THEN 2 * m - 1 ELSE 2 * m
      BY <1>7
    <2>2. PICK z \in {x, y} : F[i] = Append(list[m], z) /\ i = IF z = x THEN 2 * m - 1 ELSE 2 * m
      BY <2>1
    <2>3. PICK n \in 1..size : \E w \in {x, y} :
            F[j] = Append(list[n], w) /\ j = IF w = x THEN 2 * n - 1 ELSE 2 * n
      BY <1>7
    <2>4. PICK w \in {x, y} : F[j] = Append(list[n], w) /\ j = IF w = x THEN 2 * n - 1 ELSE 2 * n
      BY <2>3
    <2>5. /\ IsAppended(F[i], list[m], z, len) /\ IsAppended(F[i], list[n], w, len)
          /\ list[m] \in Seq(B) /\ list[n] \in Seq(B) /\ Len(list[m]) = len /\ Len(list[n]) = len
      <3>1. IsAppended(F[i], list[m], z, len) /\ list[m] \in Seq(B)
        BY <1>5, <2>2
      <3>2. IsAppended(F[j], list[n], w, len) /\ list[n] \in Seq(B)
        BY <1>5, <2>4
      <3>. QED
        BY <1>1, <1>9, <3>1, <3>2
    <2>6. list[m] = list[n] /\ z = w
      BY <2>5, AppendedDiffer
    <2>7. m = n
      BY <1>1, <2>6 DEF AllDiffer
    <2>. QED
      BY <2>2, <2>4, <2>6, <2>7
  <1>10. FamilyFits(jb, next, len + 1, F, 2 * size)
    BY <1>4, <1>8, <1>9 DEF FamilyFits, AllDiffer, B
  <1>. QED
    BY <1>10 DEF next, F, x

LEMMA FamilyBegins ==
  ASSUME NEW jb \in JobsOf({"probe"}), NEW i \in 0..(Len(jb.pairs) - 1)
  PROVE  /\ <<jb.pairs[i + 1].left, jb.pairs[i + 1].right>> \in Seq(Seq(SymbolsOf(jb)))
         /\ FamilyFits(jb, CommonAt(jb, i), 3, <<jb.pairs[i + 1].left, jb.pairs[i + 1].right>>, 2)
  <1>. DEFINE l == jb.pairs[i + 1].left
              r == jb.pairs[i + 1].right
              B == SymbolsOf(jb)
              list == <<l, r>>
  <1>1. i + 1 \in 1..Len(jb.pairs)
    BY ProbePairs
  <1>2. /\ l \in Seq(B) /\ r \in Seq(B) /\ Len(l) = 3 /\ Len(r) = 3 /\ l # r
        /\ ForwardBy(jb, l) = CommonAt(jb, i) /\ ForwardBy(jb, r) = CommonAt(jb, i)
    BY <1>1, ProbePairs DEF CommonAt
  <1>. HIDE DEF l, r, B
  <1>3. list \in Seq(Seq(B)) /\ Len(list) = 2 /\ list[1] = l /\ list[2] = r
    BY <1>2
  <1>. HIDE DEF list
  <1>4. \A n \in 1..2 : n = 1 \/ n = 2
    OBVIOUS
  <1>5. FamilyFits(jb, CommonAt(jb, i), 3, list, 2)
    BY <1>2, <1>3, <1>4 DEF FamilyFits, AllDiffer, B
  <1>. QED
    BY <1>3, <1>5 DEF list, l, r, B

Families(jb) == [messages : Seq(Seq(SymbolsOf(jb))), state : StatesOf(jb)]

LEMMA ConstructedSteps ==
  ASSUME job \in JobsOf({"probe"}), seen.best_path \in PathsOf(job),
         seen.best_seed_index \in 0..(Len(job.pairs) - 1)
  PROVE  /\ Constructed[0].messages = <<job.pairs[seen.best_seed_index + 1].left,
                                        job.pairs[seen.best_seed_index + 1].right>>
         /\ Constructed[0].state = CommonAt(job, seen.best_seed_index)
         /\ \A n \in 1..Len(seen.best_path) :
              /\ Constructed[n].messages = Doubled(Constructed[n - 1].messages, seen.best_path[n])
              /\ Constructed[n].state = job.absorb[Constructed[n - 1].state][seen.best_path[n][1]]
  <1>. DEFINE seed == job.pairs[seen.best_seed_index + 1]
              path == seen.best_path
              k == Len(path)
              B == SymbolsOf(job)
              S == StatesOf(job)
              T == Families(job)
              first == [messages |-> <<seed.left, seed.right>>, state |-> CommonState(seed)]
              More(t, n) == [messages |-> Doubled(t.messages, path[n]),
                             state |-> AliasState(t.state, path[n])]
              Fits(g) == g = [n \in 0..k |-> IF n = 0 THEN first ELSE More(g[n - 1], n)]
  <1>1. Constructed = CHOOSE g : Fits(g)
    BY Zenon DEF Constructed
  <1>2. k \in Nat /\ \A n \in 1..k : path[n] \in B \X B
    <2>1. path \in Seq(B \X B)
      BY DEF PathsOf
    <2>. QED
      BY <2>1, LenProperties, ElementOfSeq
  <1>3. first \in T /\ CommonState(seed) = CommonAt(job, seen.best_seed_index)
    <2>1. CommonState(seed) = CommonAt(job, seen.best_seed_index)
      BY StatesAre, Zenon DEF CommonState, CommonAt
    <2>2. CommonState(seed) \in S
      BY <2>1, CommonIs
    <2>3. <<seed.left, seed.right>> \in Seq(Seq(B))
      BY FamilyBegins
    <2>. QED
      BY <2>1, <2>2, <2>3 DEF Families
  <1>4. ASSUME NEW n \in 1..k, NEW t \in T PROVE More(t, n) \in T
    <2>1. path[n] \in B \X B /\ t.messages \in Seq(Seq(B)) /\ t.state \in S
      BY <1>2 DEF Families
    <2>2. Doubled(t.messages, path[n]) \in Seq(Seq(B))
      BY <2>1, DoubledIs
    <2>3. AliasState(t.state, path[n]) \in S
      <3>1. job.absorb \in [S -> [B -> S]] /\ path[n][1] \in B
        BY <2>1, ProbeJob DEF IsHash, IsStep
      <3>. HIDE DEF S, B
      <3>. QED
        BY <2>1, <3>1 DEF AliasState
    <2>. QED
      BY <2>2, <2>3 DEF Families
  <1>. HIDE DEF first, More, T, k
  <1>5. \E g : Fits(g)
    <2>. DEFINE step == [n \in 1..k |-> [t \in T |-> More(t, n)]]
    <2>1. step \in [1..k -> [T -> T]]
      BY <1>4
    <2>2. \A n \in 1..k : \A t \in T : step[n][t] = More(t, n)
      OBVIOUS
    <2>. HIDE DEF step
    <2>3. PICK g \in [0..k -> T] : Iterates(g, first, step, k)
      BY <1>2, <1>3, <2>1, RecursionExists
    <2>4. g[0] = first /\ \A n \in 1..k : g[n] = More(g[n - 1], n)
      <3>1. g[0] = first /\ \A n \in 1..k : g[n] = step[n][g[n - 1]]
        BY <2>3 DEF Iterates
      <3>2. \A n \in 1..k : n - 1 \in 0..k
        BY <1>2
      <3>. QED
        BY <2>2, <2>3, <3>1, <3>2
    <2>. DEFINE h == [n \in 0..k |-> IF n = 0 THEN first ELSE More(g[n - 1], n)]
    <2>5. \A n \in 0..k : g[n] = h[n]
      <3>. SUFFICES ASSUME NEW n \in 0..k PROVE g[n] = IF n = 0 THEN first ELSE More(g[n - 1], n)
        OBVIOUS
      <3>1. n = 0 \/ n \in 1..k
        BY <1>2
      <3>2. \A m \in 1..k : m # 0
        OBVIOUS
      <3>. QED
        BY <2>4, <3>1, <3>2
    <2>6. h = [n \in 0..k |-> h[n]]
      OBVIOUS
    <2>. HIDE DEF h
    <2>7. g = h
      <3>1. g = [n \in 0..k |-> g[n]]
        BY <2>3
      <3>. QED
        BY <2>5, <2>6, <3>1
    <2>8. Fits(g)
      BY <2>7, Zenon DEF h
    <2>. QED
      BY <2>8
  <1>6. Fits(Constructed)
    <2>. HIDE DEF Fits
    <2>. QED
      BY <1>1, <1>5, Zenon
  <1>7. Constructed[0] = first /\ \A n \in 1..k : Constructed[n] = More(Constructed[n - 1], n)
    <2>1. 0 \in 0..k /\ \A n \in 1..k : n \in 0..k /\ n # 0
      BY <1>2
    <2>. QED
      BY <1>6, <2>1, Zenon
  <1>8. /\ first.messages = <<seed.left, seed.right>> /\ first.state = CommonState(seed)
        /\ \A t, n : /\ More(t, n).messages = Doubled(t.messages, path[n])
                     /\ More(t, n).state = job.absorb[t.state][path[n][1]]
    BY Zenon DEF first, More, AliasState
  <1>9. /\ Constructed[0].messages = <<seed.left, seed.right>>
        /\ Constructed[0].state = CommonState(seed)
    BY <1>7, <1>8, Zenon
  <1>10. \A n \in 1..k : /\ Constructed[n].messages = Doubled(Constructed[n - 1].messages, path[n])
                         /\ Constructed[n].state = job.absorb[Constructed[n - 1].state][path[n][1]]
    <2>. SUFFICES ASSUME NEW n \in 1..k
                  PROVE  /\ Constructed[n].messages = Doubled(Constructed[n - 1].messages, path[n])
                         /\ Constructed[n].state = job.absorb[Constructed[n - 1].state][path[n][1]]
      OBVIOUS
    <2>. DEFINE t == Constructed[n - 1]
    <2>1. Constructed[n] = More(t, n)
      BY <1>7, Zenon
    <2>. HIDE DEF t
    <2>2. /\ More(t, n).messages = Doubled(t.messages, path[n])
          /\ More(t, n).state = job.absorb[t.state][path[n][1]]
      BY <1>8, Zenon
    <2>. QED
      BY <2>1, <2>2, Zenon DEF t
  <1>11. CommonState(seed) = CommonAt(job, seen.best_seed_index)
    BY <1>3, Zenon
  <1>. HIDE DEF Fits
  <1>. QED
    BY <1>9, <1>10, <1>11, Zenon DEF k

LEMMA ConstructedIs ==
  ASSUME job \in JobsOf({"probe"}), seen.best_path \in PathsOf(job),
         seen.best_seed_index \in 0..(Len(job.pairs) - 1),
         ChainOf(job, CommonAt(job, seen.best_seed_index), seen.best_path)
  PROVE  \E s \in StatesOf(job) :
           /\ Constructed[Len(seen.best_path)].state = s
           /\ FamilyFits(job, s, 3 + Len(seen.best_path), Constructed[Len(seen.best_path)].messages,
                         2 ^ (1 + Len(seen.best_path)))
  <1>. DEFINE path == seen.best_path
              common == CommonAt(job, seen.best_seed_index)
              k == Len(path)
              S == StatesOf(job)
              Messages(n) == Constructed[n].messages
              State(n) == Constructed[n].state
              Fine(n) == /\ State(n) = AlongOf(job, common, path, n)
                         /\ FamilyFits(job, State(n), 3 + n, Messages(n), 2 ^ (1 + n))
              T == {n \in 0..k : Fine(n)}
  <1>1. k \in Nat /\ DOMAIN path = 1..k
    BY LenProperties DEF PathsOf
  <1>2. /\ Messages(0) = <<job.pairs[seen.best_seed_index + 1].left, job.pairs[seen.best_seed_index + 1].right>>
        /\ State(0) = common
        /\ \A n \in 1..k : /\ Messages(n) = Doubled(Messages(n - 1), path[n])
                           /\ State(n) = job.absorb[State(n - 1)][path[n][1]]
    BY ConstructedSteps
  <1>3. common \in S /\ IsHash(job) /\ path \in PathsOf(job)
    BY CommonIs, ProbeJob
  <1>4. FamilyFits(job, common, 3, Messages(0), 2)
    BY <1>2, FamilyBegins
  <1>5. \A n \in 1..k : path[n] \in PairAliases(job, AlongOf(job, common, path, n - 1))
    BY <1>1 DEF ChainOf
  <1>. HIDE DEF path, common, k, Messages, State
  <1>6. /\ AlongOf(job, common, path, 0) = common
        /\ \A n \in 0..k : AlongOf(job, common, path, n) \in S
        /\ \A n \in 1..k : AlongOf(job, common, path, n) = job.absorb[AlongOf(job, common, path, n - 1)][path[n][1]]
    BY <1>3, AlongOn DEF k
  <1>7. 0 \in T
    <2>1. 3 + 0 = 3 /\ 2 ^ (1 + 0) = 2
      <3>1. 2 ^ 0 = 1 /\ 0 \in Nat
        OBVIOUS
      <3>2. 2 ^ (0 + 1) = 2 * 2 ^ 0
        BY PowerDoubles
      <3>3. 1 + 0 = 0 + 1
        OBVIOUS
      <3>. QED
        BY <3>1, <3>2, <3>3
    <2>2. FamilyFits(job, State(0), 3 + 0, Messages(0), 2 ^ (1 + 0))
      BY <1>2, <1>4, <2>1
    <2>. QED
      BY <1>1, <1>2, <1>6, <2>2
  <1>8. ASSUME NEW n \in 1..k, n - 1 \in T PROVE n \in T
    <2>. DEFINE before == State(n - 1)
                size == 2 ^ (1 + (n - 1))
                alias == path[n]
    <2>1. n - 1 \in 0..k /\ n \in 0..k /\ (3 + (n - 1)) + 1 = 3 + n /\ 3 + (n - 1) \in Nat
          /\ 1 + (n - 1) \in Nat /\ (1 + (n - 1)) + 1 = 1 + n
      BY <1>1
    <2>2. before = AlongOf(job, common, path, n - 1)
          /\ FamilyFits(job, before, 3 + (n - 1), Messages(n - 1), size)
      BY <1>8
    <2>3. before \in S /\ alias \in PairAliases(job, before)
      BY <1>5, <1>6, <2>1, <2>2
    <2>4. size \in Nat /\ 2 ^ ((1 + (n - 1)) + 1) = 2 * size
      BY <2>1, PowerDoubles
    <2>5. 2 ^ (1 + n) = 2 * size
      BY <2>1, <2>4
    <2>6. Messages(n) = Doubled(Messages(n - 1), alias) /\ State(n) = job.absorb[before][alias[1]]
      BY <1>2
    <2>. HIDE DEF before, size, alias
    <2>7. FamilyFits(job, job.absorb[before][alias[1]], (3 + (n - 1)) + 1, Doubled(Messages(n - 1), alias), 2 * size)
      BY <2>1, <2>2, <2>3, <2>4, FamilyGrows DEF S
    <2>8. FamilyFits(job, State(n), 3 + n, Messages(n), 2 ^ (1 + n))
      BY <2>1, <2>5, <2>6, <2>7
    <2>9. State(n) = AlongOf(job, common, path, n)
      BY <1>6, <2>2, <2>6 DEF alias
    <2>. QED
      BY <2>1, <2>8, <2>9
  <1>. HIDE DEF T
  <1>9. 0..k \subseteq T
    BY <1>1, <1>7, <1>8, InductionUpTo
  <1>10. Fine(k)
    <2>1. k \in 0..k
      BY <1>1
    <2>. QED
      BY <1>9, <2>1 DEF T
  <1>11. State(k) \in S
    <2>1. k \in 0..k
      BY <1>1
    <2>. QED
      BY <1>6, <1>10, <2>1
  <1>12. State(k) = Constructed[Len(seen.best_path)].state /\ Messages(k) = Constructed[Len(seen.best_path)].messages
         /\ k = Len(seen.best_path)
    BY DEF State, Messages, k, path
  <1>. QED
    BY <1>10, <1>11, <1>12 DEF S

-----------------------------------------------------------------------------
(* The invariant.                                                          *)
ProbeSeen(jb) ==
  [stage : {"seeds", "branches"}, branches : Seq(Branches(jb)), best_path : PathsOf(jb),
   best_seed_index : Nat, constructed : Seq(Seq(SymbolsOf(jb))), forward_equal : BOOLEAN]

ProbeCounters ==
  [extension_cases : Nat, foldback_collision_cases : Nat, digest_collision_cases : Nat,
   seeds_with_next_symbol_alias : Nat, maximum_collision_levels : Nat]

(* The path kept is the longest behind the first k seeds, and the first of *)
(* its length.                                                             *)
NoneAsLong(jb, s, path) == \A q \in PathsOf(jb) : ChainOf(jb, s, q) => Len(q) # Len(path)

BestOf(jb, k, path, index) ==
  /\ path \in PathsOf(jb) /\ Len(path) <= jb.max_levels - 1
  /\ jb.pairs # <<>> =>
       index \in 0..(Len(jb.pairs) - 1) /\ ChainOf(jb, CommonAt(jb, index), path)
  /\ \A n \in 0..(k - 1) : NoneLonger(jb, CommonAt(jb, n), jb.max_levels - 1, path)
  /\ index \in Nat /\ (\A n \in 0..(index - 1) : NoneAsLong(jb, CommonAt(jb, n), path))
  /\ NoneBefore(jb, CommonAt(jb, index), path)

CountedOf(jb, branches, k, c) ==
  /\ c.extension_cases = k
  /\ c.foldback_collision_cases = Cardinality(UpTo(FoldClash(jb, branches), k))
  /\ c.digest_collision_cases = Cardinality(UpTo(DigestClash(jb, branches), k))

WrittenOf(jb, path, constructed, forward_equal) ==
  forward_equal /\ Cardinality(ToSet(constructed)) = 2 ^ (1 + Len(path))

ProbeInv ==
  /\ job \in JobsOf({"probe"}) /\ pc \in {"scan", "done"} /\ at \in Nat
  /\ seen \in ProbeSeen(job) /\ counters \in ProbeCounters
  /\ seen.stage = "seeds" =>
       /\ pc = "scan" /\ at <= Len(job.pairs)
       /\ BestOf(job, at, seen.best_path, seen.best_seed_index)
       /\ CountedOf(job, seen.branches, 0, counters)
  /\ seen.stage = "branches" =>
       /\ at <= Len(seen.branches) * Len(job.suffixes)
       /\ BestOf(job, Len(job.pairs), seen.best_path, seen.best_seed_index)
       /\ CountedOf(job, seen.branches, at, counters)
  /\ pc = "done" =>
       /\ counters.maximum_collision_levels = 1 + Len(seen.best_path)
       /\ job.pairs # <<>> => WrittenOf(job, seen.best_path, seen.constructed, seen.forward_equal)

LEMMA BestStays ==
  ASSUME job \in JobsOf({"probe"}), NEW k \in 0..(Len(job.pairs) - 1), NEW path, NEW index,
         BestOf(job, k, path, index), NEW new, new = LongestPath[job.max_levels - 1][CommonAt(job, k)]
  PROVE  BestOf(job, k + 1, IF Len(new) > Len(path) THEN new ELSE path,
                            IF Len(new) > Len(path) THEN k ELSE index)
  <1>. DEFINE r == job.max_levels - 1
              common == CommonAt(job, k)
  <1>1. r \in 0..7 /\ common \in StatesOf(job) /\ k \in Nat /\ Len(job.pairs) \in Nat
    BY ProbeJob, ProbePairs, CommonIs
  <1>2. Longest(job, common, r, new)
    BY <1>1, LongestPathIsLongest
  <1>3. /\ new \in PathsOf(job) /\ Len(new) <= r /\ ChainOf(job, common, new) /\ Len(new) \in Nat
        /\ NoneLonger(job, common, r, new) /\ NoneBefore(job, common, new)
    BY <1>2, LenProperties DEF Longest, PathsOf
  <1>4. /\ path \in PathsOf(job) /\ Len(path) <= r /\ Len(path) \in Nat
        /\ job.pairs # <<>> => index \in 0..(Len(job.pairs) - 1) /\ ChainOf(job, CommonAt(job, index), path)
        /\ \A n \in 0..(k - 1) : NoneLonger(job, CommonAt(job, n), r, path)
        /\ index \in Nat /\ (\A n \in 0..(index - 1) : NoneAsLong(job, CommonAt(job, n), path))
        /\ NoneBefore(job, CommonAt(job, index), path)
    BY LenProperties DEF BestOf, PathsOf
  <1>5. \A q \in PathsOf(job) : Len(q) \in Nat
    BY LenProperties DEF PathsOf
  <1>. HIDE DEF r
  <1>6. \A n \in 0..((k + 1) - 1) : n \in 0..(k - 1) \/ n = k
    BY <1>1
  <1>7. CASE Len(new) > Len(path)
    <2>1. \A n \in 0..(k - 1) : NoneLonger(job, CommonAt(job, n), r, new)
      <3>. SUFFICES ASSUME NEW n \in 0..(k - 1) PROVE NoneLonger(job, CommonAt(job, n), r, new)
        OBVIOUS
      <3>1. NoneLonger(job, CommonAt(job, n), r, path)
        BY <1>4
      <3>. QED
        BY <1>3, <1>4, <1>5, <1>7, <3>1 DEF NoneLonger
    <2>2. \A n \in 0..((k + 1) - 1) : NoneLonger(job, CommonAt(job, n), r, new)
      BY <1>3, <1>6, <2>1 DEF common
    <2>3. \A n \in 0..(k - 1) : NoneAsLong(job, CommonAt(job, n), new)
      <3>. SUFFICES ASSUME NEW n \in 0..(k - 1), NEW q \in PathsOf(job), ChainOf(job, CommonAt(job, n), q),
                           Len(q) = Len(new)
                    PROVE  FALSE
        BY DEF NoneAsLong
      <3>1. Len(q) <= Len(path)
        BY <1>3, <1>4 DEF NoneLonger
      <3>. QED
        BY <1>3, <1>4, <1>7, <3>1
    <2>4. BestOf(job, k + 1, new, k)
      BY <1>1, <1>3, <2>2, <2>3 DEF BestOf, r, common
    <2>. QED
      BY <1>7, <2>4
  <1>8. CASE ~(Len(new) > Len(path))
    <2>1. NoneLonger(job, common, r, path)
      BY <1>3, <1>4, <1>5, <1>8 DEF NoneLonger
    <2>2. \A n \in 0..((k + 1) - 1) : NoneLonger(job, CommonAt(job, n), r, path)
      BY <1>4, <1>6, <2>1 DEF common
    <2>3. BestOf(job, k + 1, path, index)
      BY <1>4, <2>2 DEF BestOf, r
    <2>. QED
      BY <1>8, <2>3
  <1>. QED
    BY <1>7, <1>8

LEMMA NoneCountedOf ==
  ASSUME NEW jb, NEW branches, NEW c
  PROVE  CountedOf(jb, branches, 0, c) <=>
           c.extension_cases = 0 /\ c.foldback_collision_cases = 0 /\ c.digest_collision_cases = 0
  <1>1. /\ Cardinality(UpTo(FoldClash(jb, branches), 0)) = 0
        /\ Cardinality(UpTo(DigestClash(jb, branches), 0)) = 0
    BY OneMoreIn
  <1>. QED
    BY <1>1, Zenon DEF CountedOf

LEMMA ProbeStarts == ProbeInit => ProbeInv
  <1>. SUFFICES ASSUME ProbeInit PROVE ProbeInv
    OBVIOUS
  <1>1. /\ job \in JobsOf({"probe"}) /\ pc = "scan" /\ at = 0
        /\ seen = [stage |-> "seeds", branches |-> <<>>, best_path |-> <<>>, best_seed_index |-> 0,
                   constructed |-> <<>>, forward_equal |-> TRUE]
        /\ counters = [extension_cases |-> 0, foldback_collision_cases |-> 0, digest_collision_cases |-> 0,
                       seeds_with_next_symbol_alias |-> 0, maximum_collision_levels |-> 0]
    BY Zenon DEF ProbeInit, Start
  <1>2. <<>> \in PathsOf(job) /\ <<>> \in Seq(Branches(job)) /\ <<>> \in Seq(Seq(SymbolsOf(job))) /\ 0 \in Nat
    BY DEF PathsOf
  <1>3. seen \in ProbeSeen(job)
    BY <1>1, <1>2 DEF ProbeSeen
  <1>4. counters \in ProbeCounters
    BY <1>1 DEF ProbeCounters
  <1>5. seen.stage = "seeds" /\ seen.best_path = <<>> /\ seen.best_seed_index = 0
    BY <1>1
  <1>6. Len(job.pairs) \in Nat /\ (job.pairs # <<>> => 0 \in 0..(Len(job.pairs) - 1)) /\ 0 <= Len(job.pairs)
    BY <1>1, ProbePairs
  <1>7. BestOf(job, 0, <<>>, 0)
    <2>1. Len(<<>>) = 0 /\ 0 <= job.max_levels - 1
      BY <1>1, ProbeJob
    <2>2. \A s : ChainOf(job, s, <<>>)
      BY DEF ChainOf
    <2>3. \A n \in 0..(0 - 1) : NoneLonger(job, CommonAt(job, n), job.max_levels - 1, <<>>)
      OBVIOUS
    <2>4. \A s : NoneBefore(job, s, <<>>)
      BY DEF NoneBefore, ChainBefore
    <2>5. 0 \in Nat /\ \A n \in 0..(0 - 1) : NoneAsLong(job, CommonAt(job, n), <<>>)
      OBVIOUS
    <2>. QED
      BY <1>2, <1>6, <2>1, <2>2, <2>3, <2>4, <2>5 DEF BestOf
  <1>8. CountedOf(job, seen.branches, 0, counters)
    <2>1. counters.extension_cases = 0 /\ counters.foldback_collision_cases = 0 /\ counters.digest_collision_cases = 0
      BY <1>1
    <2>. QED
      BY <2>1, NoneCountedOf
  <1>. QED
    BY <1>1, <1>2, <1>3, <1>4, <1>5, <1>6, <1>7, <1>8 DEF ProbeInv

LEMMA SeedKeeps ==
  ASSUME ProbeInv, SeedStep
  PROVE  ProbeInv'
  <1>. DEFINE common == CommonAt(job, at)
              path == LongestPath[job.max_levels - 1][common]
              longer == Len(path) > Len(seen.best_path)
              list == AliasesOf(common)
              more == [n \in DOMAIN list |-> <<at, list[n]>>]
              branches == seen.branches \o more
              best == IF longer THEN path ELSE seen.best_path
              index == IF longer THEN at ELSE seen.best_seed_index
  <1>1. /\ job \in JobsOf({"probe"}) /\ pc = "scan" /\ at \in Nat /\ at < Len(job.pairs)
        /\ seen \in ProbeSeen(job) /\ counters \in ProbeCounters /\ seen.stage = "seeds"
        /\ BestOf(job, at, seen.best_path, seen.best_seed_index)
        /\ CountedOf(job, seen.branches, 0, counters)
    BY DEF ProbeInv, SeedStep, Tool
  <1>2. job' = job /\ pc' = pc /\ counters' = counters /\ at' = at + 1
    BY DEF SeedStep
  <1>3. CommonState(job.pairs[at + 1]) = common
    BY StatesAre, Zenon DEF CommonState, CommonAt
  <1>4. seen' = [seen EXCEPT !.branches = branches, !.best_path = best, !.best_seed_index = index]
    BY <1>3, Zenon DEF SeedStep
  <1>5. Len(job.pairs) \in Nat
    BY <1>1, ProbePairs
  <1>6. at \in 0..(Len(job.pairs) - 1) /\ at + 1 \in Nat /\ at + 1 <= Len(job.pairs)
    BY <1>1, <1>5
  <1>7. branches \in Seq(Branches(job))
    <2>1. seen.branches \in Seq(Branches(job))
      BY <1>1 DEF ProbeSeen
    <2>. HIDE DEF list
    <2>2. list = AliasesOf(CommonAt(job, at))
      BY DEF list
    <2>. QED
      BY <1>1, <1>6, <2>1, <2>2, BranchesGrow
  <1>. HIDE DEF path, branches, list, more
  <1>8. BestOf(job, at + 1, best, index)
    BY <1>1, <1>6, BestStays DEF path
  <1>9. best \in PathsOf(job) /\ index \in Nat
    <2>1. best \in PathsOf(job)
      BY <1>8 DEF BestOf
    <2>2. index \in Nat
      BY <1>1 DEF ProbeSeen
    <2>. QED
      BY <2>1, <2>2
  <1>. HIDE DEF best, index
  <1>10. seen' = [stage |-> seen.stage, branches |-> branches, best_path |-> best,
                  best_seed_index |-> index, constructed |-> seen.constructed,
                  forward_equal |-> seen.forward_equal]
    BY <1>1, <1>4 DEF ProbeSeen
  <1>11. /\ seen.stage \in {"seeds", "branches"} /\ seen.constructed \in Seq(Seq(SymbolsOf(job)))
         /\ seen.forward_equal \in BOOLEAN
    BY <1>1 DEF ProbeSeen
  <1>12. seen' \in ProbeSeen(job)
    BY <1>7, <1>9, <1>10, <1>11 DEF ProbeSeen
  <1>13. seen'.stage = "seeds" /\ seen'.best_path = best /\ seen'.best_seed_index = index
    BY <1>1, <1>10
  <1>14. CountedOf(job, seen'.branches, 0, counters)
    BY <1>1, NoneCountedOf
  <1>. QED
    BY <1>1, <1>2, <1>6, <1>8, <1>12, <1>13, <1>14 DEF ProbeInv

LEMMA EndSeedsKeeps ==
  ASSUME ProbeInv, EndSeeds
  PROVE  ProbeInv'
  <1>1. /\ job \in JobsOf({"probe"}) /\ pc = "scan" /\ at = Len(job.pairs)
        /\ seen \in ProbeSeen(job) /\ counters \in ProbeCounters
        /\ BestOf(job, at, seen.best_path, seen.best_seed_index)
        /\ CountedOf(job, seen.branches, 0, counters)
    BY DEF ProbeInv, EndSeeds, Tool
  <1>2. job' = job /\ pc' = pc /\ counters' = counters /\ at' = 0
        /\ seen' = [seen EXCEPT !.stage = "branches"]
    BY DEF EndSeeds
  <1>3. /\ seen' \in ProbeSeen(job) /\ seen'.stage = "branches" /\ seen'.branches = seen.branches
        /\ seen'.best_path = seen.best_path /\ seen'.best_seed_index = seen.best_seed_index
    BY <1>1, <1>2 DEF ProbeSeen
  <1>4. 0 <= Len(seen.branches) * Len(job.suffixes)
    <2>1. Len(seen.branches) \in Nat /\ Len(job.suffixes) \in Nat
      BY <1>1, ProbePairs, LenProperties DEF ProbeSeen
    <2>. DEFINE x == Len(seen.branches)
                y == Len(job.suffixes)
    <2>. HIDE DEF x, y
    <2>2. x \in Nat /\ y \in Nat => 0 <= x * y
      OBVIOUS
    <2>. QED
      BY <2>1, <2>2 DEF x, y
  <1>. QED
    BY <1>1, <1>2, <1>3, <1>4 DEF ProbeInv

LEMMA MessagesAre ==
  /\ \A n : MessagesOf(n) = MessagesIn(job, seen.branches, n)
  /\ \A n : UniqueFoldbackStates(MessagesOf(n)) = Cardinality(FoldsIn(job, seen.branches, n))
  /\ \A n : UniqueDigests(MessagesOf(n)) = Cardinality(DigestsIn(job, seen.branches, n))
  <1>1. \A n : MessagesOf(n) = MessagesIn(job, seen.branches, n)
    BY Zenon DEF MessagesOf, MessagesIn, SuffixOf
  <1>2. \A n : UniqueFoldbackStates(MessagesOf(n)) = Cardinality(FoldsIn(job, seen.branches, n))
    BY <1>1, StatesAre, Zenon DEF UniqueFoldbackStates, FoldsIn
  <1>3. \A n : UniqueDigests(MessagesOf(n)) = Cardinality(DigestsIn(job, seen.branches, n))
    BY <1>1, StatesAre, Zenon DEF UniqueDigests, DigestsIn, DigestOf
  <1>. QED
    BY <1>1, <1>2, <1>3

ExtensionAdded(c, f, d) ==
  [c EXCEPT !.extension_cases = @ + 1,
            !.foldback_collision_cases = @ + f,
            !.digest_collision_cases = @ + d]

LEMMA ExtensionAdds ==
  ASSUME NEW c \in ProbeCounters, NEW f \in Nat, NEW d \in Nat
  PROVE  /\ ExtensionAdded(c, f, d) \in ProbeCounters
         /\ ExtensionAdded(c, f, d).extension_cases = c.extension_cases + 1
         /\ ExtensionAdded(c, f, d).foldback_collision_cases = c.foldback_collision_cases + f
         /\ ExtensionAdded(c, f, d).digest_collision_cases = c.digest_collision_cases + d
  <1>1. ExtensionAdded(c, f, d) =
          [extension_cases |-> c.extension_cases + 1,
           foldback_collision_cases |-> c.foldback_collision_cases + f,
           digest_collision_cases |-> c.digest_collision_cases + d,
           seeds_with_next_symbol_alias |-> c.seeds_with_next_symbol_alias,
           maximum_collision_levels |-> c.maximum_collision_levels]
    <2>1. ExtensionAdded(c, f, d) =
            [c EXCEPT !.extension_cases = @ + 1,
                      !.foldback_collision_cases = @ + f,
                      !.digest_collision_cases = @ + d]
      BY Zenon DEF ExtensionAdded
    <2>. QED
      BY <2>1 DEF ProbeCounters
  <1>2. /\ c.extension_cases \in Nat /\ c.foldback_collision_cases \in Nat
        /\ c.digest_collision_cases \in Nat /\ c.seeds_with_next_symbol_alias \in Nat
        /\ c.maximum_collision_levels \in Nat
    BY DEF ProbeCounters
  <1>3. ExtensionAdded(c, f, d) \in ProbeCounters
    BY <1>1, <1>2 DEF ProbeCounters
  <1>. QED
    BY <1>1, <1>3

LEMMA ExtensionKeeps ==
  ASSUME ProbeInv, Extension
  PROVE  ProbeInv'
  <1>. DEFINE branches == seen.branches
              f == Count(Cardinality(FoldsIn(job, branches, at)) # 4)
              d == Count(Cardinality(DigestsIn(job, branches, at)) # 4)
              most == Len(branches) * Len(job.suffixes)
  <1>1. /\ job \in JobsOf({"probe"}) /\ pc = "scan" /\ at \in Nat /\ at < most
        /\ seen \in ProbeSeen(job) /\ counters \in ProbeCounters /\ seen.stage = "branches"
        /\ BestOf(job, Len(job.pairs), seen.best_path, seen.best_seed_index)
        /\ CountedOf(job, branches, at, counters)
    BY DEF ProbeInv, Extension, Tool, Extensions
  <1>2. job' = job /\ pc' = pc /\ seen' = seen /\ at' = at + 1
    BY DEF Extension
  <1>3. counters' = ExtensionAdded(counters, f, d)
    <2>1. counters' = [counters EXCEPT
            !.extension_cases = @ + 1,
            !.foldback_collision_cases = @ + Count(UniqueFoldbackStates(MessagesOf(at)) # 4),
            !.digest_collision_cases = @ + Count(UniqueDigests(MessagesOf(at)) # 4)]
      BY Zenon DEF Extension
    <2>. QED
      BY <2>1, MessagesAre, Zenon DEF ExtensionAdded
  <1>4. branches \in Seq(Branches(job)) /\ most \in Nat
    <2>1. branches \in Seq(Branches(job))
      BY <1>1 DEF ProbeSeen
    <2>2. Len(branches) \in Nat /\ Len(job.suffixes) \in Nat
      BY <1>1, <2>1, ProbePairs, LenProperties
    <2>. DEFINE x == Len(branches)
                y == Len(job.suffixes)
    <2>. HIDE DEF x, y
    <2>3. x \in Nat /\ y \in Nat => x * y \in Nat
      OBVIOUS
    <2>. QED
      BY <2>1, <2>2, <2>3 DEF x, y
  <1>5. at \in 0..(most - 1) /\ at + 1 \in Nat /\ at + 1 <= most
    <2>. HIDE DEF most
    <2>. QED
      BY <1>1, <1>4
  <1>6. f = Count(at \in FoldClash(job, branches)) /\ d = Count(at \in DigestClash(job, branches))
        /\ f \in Nat /\ d \in Nat
    <2>1. /\ Cardinality(FoldsIn(job, branches, at)) # 4 <=> at \in FoldClash(job, branches)
          /\ Cardinality(DigestsIn(job, branches, at)) # 4 <=> at \in DigestClash(job, branches)
      BY <1>1, <1>4, <1>5, ClashesIn
    <2>. QED
      BY <2>1 DEF Count
  <1>. HIDE DEF f, d, branches, most
  <1>7. /\ counters' \in ProbeCounters
        /\ counters'.extension_cases = counters.extension_cases + 1
        /\ counters'.foldback_collision_cases = counters.foldback_collision_cases + f
        /\ counters'.digest_collision_cases = counters.digest_collision_cases + d
    <2>. DEFINE new == ExtensionAdded(counters, f, d)
    <2>1. /\ new \in ProbeCounters
          /\ new.extension_cases = counters.extension_cases + 1
          /\ new.foldback_collision_cases = counters.foldback_collision_cases + f
          /\ new.digest_collision_cases = counters.digest_collision_cases + d
      BY <1>1, <1>6, ExtensionAdds
    <2>. HIDE DEF new
    <2>2. counters' = new
      BY <1>3 DEF new
    <2>. QED
      BY <2>1, <2>2
  <1>8. /\ Cardinality(UpTo(FoldClash(job, branches), at + 1))
             = Cardinality(UpTo(FoldClash(job, branches), at)) + f
        /\ Cardinality(UpTo(DigestClash(job, branches), at + 1))
             = Cardinality(UpTo(DigestClash(job, branches), at)) + d
    BY <1>1, <1>6, OneMoreIn
  <1>9. CountedOf(job, branches, at + 1, counters')
    BY <1>1, <1>7, <1>8 DEF CountedOf
  <1>10. seen.stage # "seeds" /\ pc # "done"
    BY <1>1
  <1>. QED
    BY <1>1, <1>2, <1>5, <1>7, <1>9, <1>10 DEF ProbeInv, branches, most

LEMMA ReportKeeps ==
  ASSUME ProbeInv, Report
  PROVE  ProbeInv'
  <1>. DEFINE k == Len(seen.best_path)
              written == Constructed[k].messages
              equal == \A m \in ToSet(written) : Forward(m) = Constructed[k].state
  <1>1. /\ job \in JobsOf({"probe"}) /\ pc = "scan" /\ at \in Nat
        /\ seen \in ProbeSeen(job) /\ counters \in ProbeCounters /\ seen.stage = "branches"
        /\ at <= Len(seen.branches) * Len(job.suffixes)
        /\ BestOf(job, Len(job.pairs), seen.best_path, seen.best_seed_index)
        /\ CountedOf(job, seen.branches, at, counters)
    BY DEF ProbeInv, Report, Tool
  <1>2. job' = job /\ pc' = "done" /\ at' = at
    BY DEF Report
  <1>3. counters' = [counters EXCEPT !.seeds_with_next_symbol_alias = Len(seen.branches),
                                     !.maximum_collision_levels = 1 + k]
    BY Zenon DEF Report
  <1>4. seen.best_path \in PathsOf(job) /\ k \in Nat /\ Len(seen.branches) \in Nat
    BY <1>1, LenProperties DEF ProbeSeen, PathsOf
  <1>5. /\ counters' \in ProbeCounters /\ counters'.maximum_collision_levels = 1 + k
        /\ counters'.extension_cases = counters.extension_cases
        /\ counters'.foldback_collision_cases = counters.foldback_collision_cases
        /\ counters'.digest_collision_cases = counters.digest_collision_cases
    <2>. HIDE DEF k
    <2>1. counters' =
            [extension_cases |-> counters.extension_cases,
             foldback_collision_cases |-> counters.foldback_collision_cases,
             digest_collision_cases |-> counters.digest_collision_cases,
             seeds_with_next_symbol_alias |-> Len(seen.branches),
             maximum_collision_levels |-> 1 + k]
      BY <1>1, <1>3 DEF ProbeCounters
    <2>2. /\ counters.extension_cases \in Nat /\ counters.foldback_collision_cases \in Nat
          /\ counters.digest_collision_cases \in Nat /\ 1 + k \in Nat
      BY <1>1, <1>4 DEF ProbeCounters
    <2>3. counters' \in ProbeCounters
      BY <1>4, <2>1, <2>2 DEF ProbeCounters
    <2>. QED
      BY <2>1, <2>3
  <1>6. CountedOf(job, seen.branches, at, counters')
    BY <1>1, <1>5 DEF CountedOf
  <1>7. CASE job.pairs = <<>>
    <2>1. seen' = seen
      BY <1>7, Zenon DEF Report
    <2>. QED
      BY <1>1, <1>2, <1>5, <1>6, <1>7, <2>1 DEF ProbeInv
  <1>8. CASE job.pairs # <<>>
    <2>1. seen' = [seen EXCEPT !.constructed = written, !.forward_equal = equal]
      BY <1>8, Zenon DEF Report
    <2>2. /\ seen.best_seed_index \in 0..(Len(job.pairs) - 1)
          /\ ChainOf(job, CommonAt(job, seen.best_seed_index), seen.best_path)
      BY <1>1, <1>8 DEF BestOf
    <2>3. PICK s \in StatesOf(job) :
            Constructed[k].state = s /\ FamilyFits(job, s, 3 + k, written, 2 ^ (1 + k))
      BY <1>1, <1>4, <2>2, ConstructedIs
    <2>4. /\ written \in Seq(Seq(SymbolsOf(job))) /\ Len(written) = 2 ^ (1 + k)
          /\ \A n \in 1..Len(written) : ForwardBy(job, written[n]) = s
          /\ AllDiffer(written, Len(written))
      <3>. HIDE DEF written
      <3>. QED
        BY <2>3 DEF FamilyFits
    <2>5. ToSet(written) = {written[n] : n \in 1..Len(written)} /\ Cardinality(ToSet(written)) = Len(written)
      <3>. HIDE DEF written
      <3>. QED
        BY <2>4, MembersOfList
    <2>6. equal
      <3>1. \A m \in ToSet(written) : ForwardBy(job, m) = s
        <4>. HIDE DEF written
        <4>. QED
          BY <2>4, <2>5
      <3>. QED
        BY <2>3, <3>1, StatesAre, Zenon
    <2>. HIDE DEF written, equal
    <2>7. seen' = [stage |-> seen.stage, branches |-> seen.branches, best_path |-> seen.best_path,
                   best_seed_index |-> seen.best_seed_index, constructed |-> written,
                   forward_equal |-> equal]
      BY <1>1, <2>1 DEF ProbeSeen
    <2>8. /\ seen.stage \in {"seeds", "branches"} /\ seen.branches \in Seq(Branches(job))
          /\ seen.best_seed_index \in Nat /\ equal \in BOOLEAN
      BY <1>1, <2>6 DEF ProbeSeen
    <2>9. seen' \in ProbeSeen(job)
      BY <1>4, <2>4, <2>7, <2>8 DEF ProbeSeen
    <2>10. /\ seen'.stage = seen.stage /\ seen'.branches = seen.branches
           /\ seen'.best_path = seen.best_path /\ seen'.best_seed_index = seen.best_seed_index
           /\ seen'.constructed = written
      BY <2>7
    <2>11. seen'.forward_equal
      BY <2>6, <2>7, Zenon
    <2>12. WrittenOf(job, seen'.best_path, seen'.constructed, seen'.forward_equal)
      <3>1. Cardinality(ToSet(seen'.constructed)) = 2 ^ (1 + Len(seen'.best_path))
        BY <2>4, <2>5, <2>10
      <3>. QED
        BY <2>11, <3>1, Zenon DEF WrittenOf
    <2>13. pc' \in {"scan", "done"} /\ seen'.stage # "seeds"
      BY <1>1, <1>2, <2>10
    <2>14. /\ at' <= Len(seen'.branches) * Len(job'.suffixes)
           /\ BestOf(job', Len(job'.pairs), seen'.best_path, seen'.best_seed_index)
           /\ CountedOf(job', seen'.branches, at', counters')
      BY <1>1, <1>2, <1>6, <2>10
    <2>15. job' \in JobsOf({"probe"}) /\ at' \in Nat /\ seen' \in ProbeSeen(job') /\ counters' \in ProbeCounters
      BY <1>1, <1>2, <1>5, <2>9
    <2>16. counters'.maximum_collision_levels = 1 + Len(seen'.best_path)
      BY <1>5, <2>10
    <2>17. job'.pairs # <<>> => WrittenOf(job', seen'.best_path, seen'.constructed, seen'.forward_equal)
      BY <1>2, <2>12, Zenon DEF WrittenOf
    <2>. QED
      BY <2>13, <2>14, <2>15, <2>16, <2>17, Zenon DEF ProbeInv
  <1>. QED
    BY <1>7, <1>8

LEMMA ProbeStays == ProbeInv /\ [ProbeNext]_vars => ProbeInv'
  <1>. SUFFICES ASSUME ProbeInv, [ProbeNext]_vars PROVE ProbeInv'
    OBVIOUS
  <1>1. CASE UNCHANGED vars
    BY <1>1 DEF vars, ProbeInv
  <1>. QED
    BY <1>1, SeedKeeps, EndSeedsKeeps, ExtensionKeeps, ReportKeeps DEF ProbeNext

-----------------------------------------------------------------------------
(* The parts of ProbeExact.                                                *)
LEMMA BranchesAreExact ==
  ASSUME ProbeInv, seen.stage = "branches", NEW n \in 0..(at - 1)
  PROVE  /\ Cardinality(ToSet(MessagesOf(n))) = 4
         /\ Cardinality({Forward(m) : m \in ToSet(MessagesOf(n))}) = 1
         /\ n \in Nat
         /\ (n \in FoldClash(job, seen.branches) => n \in DigestClash(job, seen.branches))
         /\ n \in FoldClash(job, seen.branches) <=>
              \E a, b \in ToSet(MessagesOf(n)) : a # b /\ FoldbackState(a) = FoldbackState(b)
  <1>. DEFINE branches == seen.branches
              most == Len(branches) * Len(job.suffixes)
              M == ToSet(MessagesIn(job, branches, n))
  <1>1. job \in JobsOf({"probe"}) /\ at \in Nat /\ at <= most /\ branches \in Seq(Branches(job))
    BY DEF ProbeInv, ProbeSeen
  <1>2. n \in 0..(most - 1)
    <2>1. most \in Nat
      <3>1. Len(branches) \in Nat /\ Len(job.suffixes) \in Nat
        BY <1>1, ProbePairs, LenProperties
      <3>. DEFINE x == Len(branches)
                  y == Len(job.suffixes)
      <3>. HIDE DEF x, y
      <3>2. x \in Nat /\ y \in Nat => x * y \in Nat
        OBVIOUS
      <3>. QED
        BY <3>1, <3>2 DEF x, y
    <2>. HIDE DEF most
    <2>. QED
      BY <1>1, <2>1
  <1>. HIDE DEF branches
  <1>3. /\ n \in Nat /\ IsFiniteSet(M) /\ Cardinality(M) = 4
        /\ \E s \in StatesOf(job) : \A m \in M : ForwardBy(job, m) = s
    BY <1>1, <1>2, BranchIn
  <1>4. n \in FoldClash(job, branches) => n \in DigestClash(job, branches)
    BY <1>1, <1>2, ClashesIn
  <1>5. n \in FoldClash(job, branches) <=>
          \E a, b \in M : a # b /\ FoldedBy(job, a) = FoldedBy(job, b)
    BY <1>3 DEF FoldClash
  <1>6. ToSet(MessagesOf(n)) = M
    BY MessagesAre, Zenon DEF branches
  <1>. HIDE DEF M
  <1>7. {Forward(m) : m \in M} = {ForwardBy(job, m) : m \in M}
    BY StatesAre, Zenon
  <1>8. Cardinality({ForwardBy(job, m) : m \in M}) = 1
    <2>1. PICK s : \A m \in M : ForwardBy(job, m) = s
      BY <1>3
    <2>2. M # {}
      BY <1>3, FS_EmptySet
    <2>3. {ForwardBy(job, m) : m \in M} = {s}
      BY <2>1, <2>2
    <2>. QED
      BY <2>3, FS_Singleton
  <1>9. (\E a, b \in M : a # b /\ FoldedBy(job, a) = FoldedBy(job, b))
          <=> \E a, b \in M : a # b /\ FoldbackState(a) = FoldbackState(b)
    BY StatesAre, Zenon
  <1>. QED
    BY <1>3, <1>4, <1>5, <1>6, <1>7, <1>8, <1>9, Zenon DEF branches

LEMMA ProbeCountsAreExact ==
  ASSUME ProbeInv, seen.stage = "branches"
  PROVE  /\ counters.extension_cases = at
         /\ counters.foldback_collision_cases <= counters.digest_collision_cases
         /\ counters.foldback_collision_cases
              = Cardinality({n \in 0..(at - 1) :
                  \E a, b \in ToSet(MessagesOf(n)) : a # b /\ FoldbackState(a) = FoldbackState(b)})
  <1>. DEFINE folds == FoldClash(job, seen.branches)
              digests == DigestClash(job, seen.branches)
              met == {n \in 0..(at - 1) :
                        \E a, b \in ToSet(MessagesOf(n)) : a # b /\ FoldbackState(a) = FoldbackState(b)}
  <1>1. at \in Nat /\ counters.extension_cases = at
        /\ counters.foldback_collision_cases = Cardinality(UpTo(folds, at))
        /\ counters.digest_collision_cases = Cardinality(UpTo(digests, at))
    BY DEF ProbeInv, CountedOf
  <1>2. UpTo(folds, at) = met
    <2>1. \A n \in 0..(at - 1) : n \in folds <=>
            \E a, b \in ToSet(MessagesOf(n)) : a # b /\ FoldbackState(a) = FoldbackState(b)
      BY BranchesAreExact
    <2>. HIDE DEF folds
    <2>. QED
      BY <2>1, Zenon DEF UpTo
  <1>3. UpTo(folds, at) \subseteq UpTo(digests, at)
    <2>1. \A n \in 0..(at - 1) : n \in folds => n \in digests
      BY BranchesAreExact
    <2>. HIDE DEF folds, digests
    <2>. QED
      BY <2>1, Zenon DEF UpTo
  <1>. HIDE DEF folds, digests
  <1>4. IsFiniteSet(UpTo(digests, at))
    BY <1>1, OneMoreIn
  <1>5. Cardinality(UpTo(folds, at)) <= Cardinality(UpTo(digests, at))
    BY <1>3, <1>4, FS_Subset
  <1>6. counters.foldback_collision_cases <= counters.digest_collision_cases
    BY <1>1, <1>5
  <1>7. counters.foldback_collision_cases = Cardinality(met)
    BY <1>1, <1>2, Zenon
  <1>. QED
    BY <1>1, <1>6, <1>7, Zenon

LEMMA ChainsAre == \A state, path : Chain(state, path) <=> ChainOf(job, state, path)
  BY StatesAre, Zenon DEF Chain, ChainOf, SymbolAliases, PairAliases, AlongOf, Firsts

LEMMA BestIsFirst ==
  ASSUME ProbeInv, pc = "done", job.pairs # <<>>, NEW n \in 0..seen.best_seed_index,
         NEW path \in [1..Len(seen.best_path) -> SymbolsOf(job) \X SymbolsOf(job)],
         Chain(CommonState(job.pairs[n + 1]), path)
  PROVE  n = seen.best_seed_index /\ ~MetBefore(path, seen.best_path)
  <1>. DEFINE best == seen.best_path
              k == Len(best)
              index == seen.best_seed_index
              P == SymbolsOf(job) \X SymbolsOf(job)
  <1>1. /\ job \in JobsOf({"probe"}) /\ seen \in ProbeSeen(job)
        /\ BestOf(job, Len(job.pairs), best, index)
    BY DEF ProbeInv, ProbeSeen
  <1>2. /\ best \in Seq(P) /\ k \in Nat /\ index \in Nat
        /\ \A m \in 0..(index - 1) : NoneAsLong(job, CommonAt(job, m), best)
        /\ NoneBefore(job, CommonAt(job, index), best)
    BY <1>1, LenProperties DEF BestOf, PathsOf
  <1>3. CommonState(job.pairs[n + 1]) = CommonAt(job, n)
    BY StatesAre, Zenon DEF CommonState, CommonAt
  <1>4. ChainOf(job, CommonAt(job, n), path)
    BY <1>3, ChainsAre, Zenon
  <1>5. path \in Seq(P) /\ Len(path) = k /\ DOMAIN path = 1..k
    <2>1. path \in [1..k -> P]
      OBVIOUS
    <2>. HIDE DEF k, P
    <2>2. path \in Seq(P)
      BY <1>2, <2>1, SeqDef
    <2>. QED
      BY <1>2, <2>1, <2>2, LenProperties
  <1>6. path \in PathsOf(job)
    BY <1>5 DEF PathsOf
  <1>7. n = index
    <2>1. n \notin 0..(index - 1)
      BY <1>2, <1>4, <1>5, <1>6 DEF NoneAsLong
    <2>. QED
      BY <1>2, <2>1
  <1>8. ~ChainBefore(path, best)
    BY <1>2, <1>4, <1>5, <1>6, <1>7 DEF NoneBefore
  <1>9. ASSUME MetBefore(path, best) PROVE ChainBefore(path, best)
    <2>. HIDE DEF best, k, P
    <2>1. PICK m \in 1..k : /\ \A i \in 1..(m - 1) : path[i] = best[i]
                            /\ path[m][2] <= best[m][2]
                            /\ path[m][2] = best[m][2] => path[m][1] < best[m][1]
      BY <1>5, <1>9 DEF MetBefore
    <2>2. path[m] \in P /\ best[m] \in P
      BY <1>2, <1>5, <2>1, ElementOfSeq DEF k
    <2>3. path[m][2] \in Nat /\ best[m][2] \in Nat
      BY <1>1, <2>2, ProbeJob DEF P
    <2>4. AliasLess(path[m], best[m])
      BY <2>1, <2>3 DEF AliasLess
    <2>. QED
      BY <1>5, <2>1, <2>4 DEF ChainBefore
  <1>. QED
    BY <1>7, <1>8, <1>9

LEMMA ProbeIsFirst == ProbeInv => FirstChain
  <1>. SUFFICES ASSUME ProbeInv, pc = "done", job.pairs # <<>>, NEW n \in 0..seen.best_seed_index,
                       NEW path \in [1..Len(seen.best_path)
                            -> (DOMAIN job.absorb[job.start]) \X (DOMAIN job.absorb[job.start])],
                       Chain(CommonState(job.pairs[n + 1]), path)
                PROVE  n = seen.best_seed_index /\ ~MetBefore(path, seen.best_path)
    BY Zenon DEF FirstChain
  <1>1. path \in [1..Len(seen.best_path) -> SymbolsOf(job) \X SymbolsOf(job)]
    BY Zenon DEF SymbolsOf
  <1>. QED
    BY <1>1, BestIsFirst

LEMMA NoChainIsLonger ==
  ASSUME ProbeInv, seen.stage = "branches", Len(seen.best_path) < job.max_levels - 1,
         NEW pair \in ToSet(job.pairs),
         NEW path \in [1..(Len(seen.best_path) + 1) -> SymbolsOf(job) \X SymbolsOf(job)],
         ChainOf(job, CommonState(pair), path)
  PROVE  FALSE
  <1>. DEFINE k == Len(seen.best_path)
              r == job.max_levels - 1
              P == SymbolsOf(job) \X SymbolsOf(job)
  <1>1. job \in JobsOf({"probe"}) /\ seen.best_path \in PathsOf(job)
        /\ \A n \in 0..(Len(job.pairs) - 1) : NoneLonger(job, CommonAt(job, n), r, seen.best_path)
    BY DEF ProbeInv, ProbeSeen, BestOf
  <1>2. k \in Nat /\ r \in 0..7
    BY <1>1, LenProperties, ProbeJob DEF PathsOf
  <1>3. PICK n \in 1..Len(job.pairs) : pair = job.pairs[n]
    BY <1>1, ProbePairs DEF ToSet
  <1>4. n - 1 \in 0..(Len(job.pairs) - 1) /\ (n - 1) + 1 = n
    BY <1>1, <1>3, ProbePairs
  <1>5. CommonState(pair) = CommonAt(job, n - 1)
    BY <1>3, <1>4, StatesAre, Zenon DEF CommonState, CommonAt
  <1>6. path \in PathsOf(job) /\ Len(path) = k + 1
    <2>1. k + 1 \in Nat
      BY <1>2
    <2>. HIDE DEF k, P
    <2>2. path \in [1..(k + 1) -> P]
      BY DEF k, P
    <2>3. path \in Seq(P)
      BY <2>1, <2>2, SeqDef
    <2>4. Len(path) = k + 1
      BY <2>1, <2>2, <2>3, LenProperties
    <2>. QED
      BY <2>3, <2>4 DEF PathsOf, P
  <1>7. NoneLonger(job, CommonAt(job, n - 1), r, seen.best_path)
    BY <1>1, <1>4
  <1>8. ChainOf(job, CommonAt(job, n - 1), path)
    BY <1>5
  <1>. HIDE DEF r
  <1>9. k + 1 <= r
    BY <1>2 DEF r
  <1>10. Len(path) <= k
    BY <1>6, <1>7, <1>8, <1>9 DEF NoneLonger
  <1>. HIDE DEF k
  <1>. QED
    BY <1>2, <1>6, <1>10

LEMMA ProbeIsProbeExact == ProbeInv => ProbeExact
  <1>. DEFINE k == Len(seen.best_path)
              P == (DOMAIN job.absorb[job.start]) \X (DOMAIN job.absorb[job.start])
              NoLonger == \A pair \in ToSet(job.pairs) :
                            ~\E path \in [1..(k + 1) -> P] : Chain(CommonState(pair), path)
  <1>. SUFFICES ASSUME ProbeInv, seen.stage = "branches" PROVE ProbeExact
    BY Zenon DEF ProbeExact
  <1>1. \A n \in 0..(at - 1) :
          /\ Cardinality(ToSet(MessagesOf(n))) = 4
          /\ Cardinality({Forward(m) : m \in ToSet(MessagesOf(n))}) = 1
    BY BranchesAreExact
  <1>2. /\ counters.extension_cases = at
        /\ counters.foldback_collision_cases <= counters.digest_collision_cases
        /\ counters.foldback_collision_cases
             = Cardinality({n \in 0..(at - 1) :
                 \E a, b \in ToSet(MessagesOf(n)) : a # b /\ FoldbackState(a) = FoldbackState(b)})
    BY ProbeCountsAreExact
  <1>3. job.pairs # <<>> => Chain(CommonState(job.pairs[seen.best_seed_index + 1]), seen.best_path)
    <2>1. job.pairs # <<>> => ChainOf(job, CommonAt(job, seen.best_seed_index), seen.best_path)
      BY DEF ProbeInv, BestOf
    <2>2. CommonState(job.pairs[seen.best_seed_index + 1]) = CommonAt(job, seen.best_seed_index)
      BY StatesAre, Zenon DEF CommonState, CommonAt
    <2>. QED
      BY <2>1, <2>2, ChainsAre, Zenon
  <1>4. pc = "done" /\ job.pairs # <<>> =>
          /\ counters.maximum_collision_levels = 1 + k
          /\ WrittenOf(job, seen.best_path, seen.constructed, seen.forward_equal)
    BY Zenon DEF ProbeInv
  <1>5. pc = "done" /\ job.pairs # <<>> =>
          /\ seen.forward_equal
          /\ Cardinality(ToSet(seen.constructed)) = 2 ^ counters.maximum_collision_levels
    BY <1>4, Zenon DEF WrittenOf
  <1>6. k < job.max_levels - 1 => NoLonger
    <2>. SUFFICES ASSUME k < job.max_levels - 1, NEW pair \in ToSet(job.pairs),
                         NEW path \in [1..(k + 1) -> P], Chain(CommonState(pair), path)
                  PROVE  FALSE
      OBVIOUS
    <2>1. ChainOf(job, CommonState(pair), path)
      BY ChainsAre, Zenon
    <2>2. path \in [1..(Len(seen.best_path) + 1) -> SymbolsOf(job) \X SymbolsOf(job)]
      BY Zenon DEF SymbolsOf
    <2>. QED
      BY <2>1, <2>2, NoChainIsLonger
  <1>. QED
    BY <1>1, <1>2, <1>3, <1>5, <1>6, Zenon DEF ProbeExact

(* What multicollision_probe reports holds at every step: behind each      *)
(* seed and alias the four messages are different and have one forward     *)
(* state, the cases counted are those with two equal states, no case has   *)
(* more digests than states, and the messages written out are 2^levels     *)
(* different ones with one forward state, of the longest chain of aliases  *)
(* behind any seed.                                                        *)
THEOREM ProbeIsExact == ProbeSpec => []ProbeExact
  <1>1. ProbeSpec => []ProbeInv
    BY ProbeStarts, ProbeStays, PTL DEF ProbeSpec
  <1>. QED
    BY <1>1, ProbeIsProbeExact, PTL

(* The chain whose messages multicollision_probe writes out is the first   *)
(* of its length (FirstChain): behind no seed before its own is a chain as *)
(* long, and of those behind its own it is the one whose second symbols,   *)
(* and then first ones, come earliest, for every hash and every number of  *)
(* levels.                                                                 *)
THEOREM ChainIsFirst == ProbeSpec => []FirstChain
  <1>1. ProbeSpec => []ProbeInv
    BY ProbeStarts, ProbeStays, PTL DEF ProbeSpec
  <1>. QED
    BY <1>1, ProbeIsFirst, PTL

=============================================================================
