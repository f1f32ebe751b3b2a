----------------------------- MODULE FirstSeen -----------------------------
(***************************************************************************)
(* The collision searches that keep what they have seen in tables and look *)
(* each new item up before they add it: tools/predecessor_enumerator.cpp,  *)
(* phase_collision.cpp, transition_collision.cpp, truncated_collision.cpp  *)
(* and truncated_campaign.cpp.                                             *)
(*                                                                         *)
(* One item - a transition, a message or a sequence of symbols - is one    *)
(* step.  What the hash makes of an item is left open, but for what        *)
(* follows from the order of its phases: behind the foldback, messages of  *)
(* one length that agree go on agreeing.                                   *)
(***************************************************************************)
EXTENDS Tools

CONSTANT States   (* internal states, serialized where they are keys      *)

(* behind: the state behind each prefix message; prefix_bytes hold as many *)
(* different ones as it has values.                                        *)
ASSUME PredecessorJobsAssumption ==
  \A jb \in JobsOf({"predecessor"}) :
    /\ jb.prefixes \in Nat /\ jb.symbols \in Nat \ {0} /\ jb.values \in Nat \ {0}
    /\ jb.behind \in [0..(jb.values - 1) -> States]
    /\ jb.absorb \in [States -> [0..(jb.symbols - 1) -> States]]

Phases == <<"AfterForward", "AfterFoldback", "AfterDiagonalClosure", "AfterOrbitClosure", "Final">>

ASSUME PhaseJobsAssumption ==
  \A jb \in JobsOf({"phase"}) :
    /\ jb.domain \in Nat
    /\ jb.forward \in [0..(jb.domain - 1) -> States]
    /\ jb.folded \in [0..(jb.domain - 1) -> States]
    /\ DOMAIN jb.fingerprint = States
    /\ \A f \in {jb.diagonal, jb.orbit, jb.final, jb.digest} : DOMAIN f = States

(* value: for each trial, what is looked up of each item.                  *)
ASSUME FirstHitJobsAssumption ==
  \A jb \in JobsOf({"transition", "truncated", "campaign"}) :
    /\ jb.limit \in Nat /\ (jb.tool # "truncated" => jb.limit > 0)
    /\ Len(jb.value) > 0 /\ (jb.tool # "campaign" => Len(jb.value) = 1)

(* seen holds the tables, name |-> key |-> entry.  outcomes are those of   *)
(* the trials so far: no items, or the first two items that agree; the     *)
(* other searches are one trial.                                           *)

-----------------------------------------------------------------------------
(* predecessor_enumerator                                                  *)

(* Transition number n: the symbols of one prefix after the other.  A      *)
(* prefix is reduced to what the bytes of its message hold.                *)
Source(n) == job.behind[(n \div job.symbols) % job.values]
Symbol(n) == n % job.symbols
Target(n) == job.absorb[Source(n)][Symbol(n)]

Predecessor ==
  /\ Tool("predecessor") /\ at < job.prefixes * job.symbols
  /\ LET table == seen["targets"]
         key   == Target(at)
         count == IF key \in DOMAIN table THEN table[key].count + 1 ELSE 1
         first == IF key \in DOMAIN table THEN table[key].first ELSE at
     IN  /\ seen' = [seen EXCEPT !["targets"] =
                       [k \in DOMAIN table \cup {key} |->
                          IF k = key THEN [first |-> first, count |-> count] ELSE table[k]]]
         /\ counters' = [collision_targets  |-> counters.collision_targets + Count(count = 2),
                         extra_predecessors |-> counters.extra_predecessors + Count(count > 1),
                         max_indegree       |-> Max({counters.max_indegree, count})]
  /\ at' = at + 1
  /\ UNCHANGED <<job, pc, outcomes>>

EndPredecessor ==
  /\ Tool("predecessor") /\ at = job.prefixes * job.symbols
  /\ Leave("done")

-----------------------------------------------------------------------------
(* phase_collision                                                         *)

Folded(n) == job.folded[n]
Diagonal(n) == job.diagonal[Folded(n)]
Orbit(n) == job.orbit[Diagonal(n)]
Final(n) == job.final[Orbit(n)]

(* The state of message n at a checkpoint.                                 *)
CheckpointState(phase, n) ==
  CASE phase = "AfterForward"         -> job.forward[n]
    [] phase = "AfterFoldback"        -> Folded(n)
    [] phase = "AfterDiagonalClosure" -> Diagonal(n)
    [] phase = "AfterOrbitClosure"    -> Orbit(n)
    [] phase = "Final"                -> Final(n)

(* The digest is made from the state behind the orbit while it is squeezed.*)
Digest(n) == job.digest[Orbit(n)]

Fingerprint(phase, n) == job.fingerprint[CheckpointState(phase, n)]

(* seen[fingerprint].counters                                              *)
Bucket(phase, n) ==
  IF Fingerprint(phase, n) \in DOMAIN seen[phase] THEN seen[phase][Fingerprint(phase, n)] ELSE <<>>

(* Seeded fault: what shares the fingerprint is taken for equal.           *)
CollidesByFingerprint(phase, n) == Bucket(phase, n) # <<>>

Collides(phase, n) ==
  \E m \in ToSet(Bucket(phase, n)) : CheckpointState(phase, m) = CheckpointState(phase, n)

(* One message: its five checkpoints and its digest.  The message joins    *)
(* its bucket whether it collides or not.                                  *)
PhaseMessage ==
  /\ Tool("phase") /\ at < job.domain
  /\ seen' = [table \in DOMAIN seen |->
       IF table = "digest" THEN seen[table] \cup {Digest(at)}
       ELSE [fp \in DOMAIN seen[table] \cup {Fingerprint(table, at)} |->
               IF fp = Fingerprint(table, at) THEN Append(Bucket(table, at), at)
                                              ELSE seen[table][fp]]]
  /\ counters' = [table \in DOMAIN counters |->
       counters[table] + Count(IF table = "digest" THEN Digest(at) \in seen[table]
                                                   ELSE Collides(table, at))]
  /\ at' = at + 1
  /\ UNCHANGED <<job, pc, outcomes>>

EndPhase ==
  /\ Tool("phase") /\ at = job.domain
  /\ Leave("done")

-----------------------------------------------------------------------------
(* transition_collision, truncated_collision and each trial of             *)
(* truncated_campaign stop at the first item whose value has been seen.    *)

Trials == {"transition", "truncated", "campaign"}

Value(n) == job.value[Len(outcomes) + 1][n]

(* The value is new: it is seen from now on.                               *)
Miss ==
  /\ pc = "scan" /\ job.tool \in Trials
  /\ at < job.limit /\ Value(at) \notin DOMAIN seen["first"]
  /\ seen' = [seen EXCEPT !["first"] =
                [v \in DOMAIN @ \cup {Value(at)} |-> IF v = Value(at) THEN at ELSE @[v]]]
  /\ at' = at + 1
  /\ UNCHANGED <<job, pc, counters, outcomes>>

(* The trial is over; the campaign starts the next with an empty table.    *)
EndTrial(outcome) ==
  /\ outcomes' = Append(outcomes, outcome)
  /\ IF Len(outcomes') < Len(job.value)
     THEN at' = 0 /\ seen' = [table \in {"first"} |-> Empty] /\ UNCHANGED pc
     ELSE pc' = "done" /\ UNCHANGED <<at, seen>>
  /\ UNCHANGED job

Hit ==
  /\ pc = "scan" /\ job.tool \in Trials
  /\ at < job.limit /\ Value(at) \in DOMAIN seen["first"]
  /\ EndTrial(<<seen["first"][Value(at)], at>>)
  /\ counters' = [found   |-> counters.found + 1,
                  total   |-> counters.total + at + 1,
                  minimum |-> Min({counters.minimum, at + 1}),
                  maximum |-> Max({counters.maximum, at + 1})]

Censored ==
  /\ pc = "scan" /\ job.tool \in Trials /\ at = job.limit
  /\ EndTrial(<<>>)
  /\ UNCHANGED counters

-----------------------------------------------------------------------------
(* The least minimum is above every number of messages.                    *)
ZeroCounters ==
  CASE job.tool = "predecessor" ->
         [collision_targets |-> 0, extra_predecessors |-> 0, max_indegree |-> 1]
    [] job.tool = "phase" -> [table \in ToSet(Phases) \cup {"digest"} |-> 0]
    [] job.tool \in Trials ->
         [found |-> 0, total |-> 0, minimum |-> job.limit + 1, maximum |-> 0]

EmptyTables ==
  CASE job.tool = "predecessor" -> [table \in {"targets"} |-> Empty]
    [] job.tool = "phase" -> [table \in ToSet(Phases) \cup {"digest"} |->
                                IF table = "digest" THEN {} ELSE Empty]
    [] job.tool \in Trials -> [table \in {"first"} |-> Empty]

TableExitCode ==
  CASE job.tool = "predecessor" -> IF counters.extra_predecessors = 0 THEN 0 ELSE 1
    [] job.tool = "transition"  -> IF outcomes = <<<<>>>> THEN 0 ELSE 1
    [] OTHER                    -> 0

TableInit ==
  /\ job \in JobsOf({"predecessor", "phase"} \cup Trials)
  /\ Start(EmptyTables, ZeroCounters)

TableNext ==
  \/ Predecessor \/ EndPredecessor
  \/ PhaseMessage \/ EndPhase
  \/ Miss \/ Hit \/ Censored

TableSpec == TableInit /\ [][TableNext]_vars

-----------------------------------------------------------------------------
Scanned == 0..(at - 1)

PredecessorsOf(target) == {n \in Scanned : Target(n) = target}

(* The counters of the predecessor enumeration, kept from one table entry  *)
(* to the next, are at any moment those of the set of transitions so far:  *)
(* how many targets more than one leads to, how many transitions there are *)
(* more than targets, and the most that lead to one.                       *)
PredecessorsCounted ==
  job.tool = "predecessor" =>
    LET targets == {Target(n) : n \in Scanned}
    IN  /\ counters.collision_targets
             = Cardinality({t \in targets : Cardinality(PredecessorsOf(t)) > 1})
        /\ counters.extra_predecessors = at - Cardinality(targets)
        /\ counters.max_indegree
             = Max({1} \cup {Cardinality(PredecessorsOf(t)) : t \in targets})
        /\ \A t \in targets : seen["targets"][t].first = Min(PredecessorsOf(t))

(* A phase has as many collisions as messages more than states, whatever   *)
(* the fingerprints; and behind the foldback collisions never get fewer    *)
(* from phase to phase, nor can the digests have fewer than the orbit.     *)
PhasesCounted ==
  job.tool = "phase" =>
    /\ \A p \in ToSet(Phases) :
         counters[p] = at - Cardinality({CheckpointState(p, n) : n \in Scanned})
    /\ counters["digest"] = at - Cardinality({Digest(n) : n \in Scanned})
    /\ \A m, n \in 2..5 : m < n => counters[Phases[m]] <= counters[Phases[n]]
    /\ counters["AfterOrbitClosure"] <= counters["digest"]

(* A trial ends at the first item that agrees with an earlier one, names   *)
(* the one it agrees with, and is censored only when no two agree; and the *)
(* campaign's sums are those of its trials.                                *)
FirstHits ==
  job.tool \in Trials =>
    /\ \A t \in DOMAIN outcomes :
         LET Agree(m, n) == job.value[t][m] = job.value[t][n]
             pairs == {p \in (0..(job.limit - 1)) \X (0..(job.limit - 1)) :
                         p[1] < p[2] /\ Agree(p[1], p[2])}
         IN  IF outcomes[t] = <<>> THEN pairs = {}
             ELSE outcomes[t] \in pairs /\ \A pair \in pairs : outcomes[t][2] <= pair[2]
    /\ LET found == {t \in DOMAIN outcomes : outcomes[t] # <<>>}
       IN  /\ counters.found = Cardinality(found)
           /\ counters.total = MapThenSumSet(LAMBDA t : outcomes[t][2] + 1, found)
           /\ found # {} =>
                /\ counters.minimum = Min({outcomes[t][2] + 1 : t \in found})
                /\ counters.maximum = Max({outcomes[t][2] + 1 : t \in found})

(* All the counts of all the searches.                                     *)
CountsExact == PredecessorsCounted /\ PhasesCounted /\ FirstHits

(* docs/CRYPTANALYSIS_FRAMEWORK.md:122: the predecessor enumeration        *)
(* measures how many (state, symbol) pairs merge into one next state.      *)
PredecessorsArePairs ==
  job.tool = "predecessor" =>
    \A t \in {Target(n) : n \in Scanned} :
      seen["targets"][t].count
        = Cardinality({<<Source(n), Symbol(n)>> : n \in PredecessorsOf(t)})

=============================================================================
