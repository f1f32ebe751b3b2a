----------------------------- MODULE PoolProofs -----------------------------
(***************************************************************************)
(* The worker pool is safe for any number of items and threads.            *)
(***************************************************************************)
EXTENDS Pool, FiniteSetsExt, FiniteSetTheorems, TLAPS

Exited == {w \in Workers : worker[w] = "exited"}

(* Where the caller is tells which threads there are and which have ended. *)
CallerOK ==
  /\ main = "spawn" => \A w \in Workers : worker[w] # "absent" <=> w < k
  /\ main \in {"join", "over"} => \A w \in Workers : worker[w] # "absent" <=> w < threads
  /\ main = "join" => \A w \in 0..(k - 1) : worker[w] = "exited"
  /\ main = "over" => \A w \in 0..(threads - 1) : worker[w] = "exited"

(* The counter separates the items that are taken from those that are not; *)
(* past the end it counts the threads that have ended.                     *)
CounterOK ==
  /\ \A i \in Items : i < next <=> \/ i \in finished
                                   \/ \E w \in Workers : worker[w] = "work" /\ item[w] = i
  /\ Cardinality(Exited) = IF next <= items THEN 0 ELSE next - items

PoolInv == PoolTypeOK /\ EachItemOnce /\ CallerOK /\ CounterOK

-----------------------------------------------------------------------------
LEMMA ExitedIsFinite == IsFiniteSet(Exited)
  <1>1. IsFiniteSet(Workers)
    BY MaxThreadsAssumption, FS_Interval DEF Workers
  <1>2. Exited \subseteq Workers
    BY DEF Exited
  <1>. QED BY <1>1, <1>2, FS_Subset

(* Threads that do not exist yet have not ended.                           *)
LEMMA ExitedAreThreads ==
  ASSUME PoolTypeOK, CallerOK
  PROVE  Exited \subseteq 0..(threads - 1)
  <1>. SUFFICES ASSUME NEW w \in Exited PROVE w < threads
    BY MaxThreadsAssumption DEF Exited, Workers, PoolTypeOK
  <1>1. w \in Workers /\ worker[w] # "absent"
    BY DEF Exited
  <1>2. CASE main = "spawn"
    BY <1>1, <1>2, MaxThreadsAssumption DEF CallerOK, PoolTypeOK, Workers
  <1>3. CASE main \in {"join", "over"}
    BY <1>1, <1>3 DEF CallerOK
  <1>. QED BY <1>2, <1>3 DEF PoolTypeOK

LEMMA FewerExitedThanThreads ==
  ASSUME PoolTypeOK, CallerOK,
         NEW w \in Workers, worker[w] = "claim"
  PROVE  Cardinality(Exited) < threads
  <1>1. Exited \subseteq (0..(threads - 1)) \ {w}
    BY ExitedAreThreads DEF Exited
  <1>2. w \in 0..(threads - 1)
    <2>1. worker[w] # "absent" /\ w \in Nat
      BY MaxThreadsAssumption DEF Workers
    <2>2. CASE main = "spawn"
      BY <2>1, <2>2, MaxThreadsAssumption DEF CallerOK, PoolTypeOK, Workers
    <2>3. CASE main \in {"join", "over"}
      BY <2>1, <2>3, MaxThreadsAssumption DEF CallerOK, PoolTypeOK, Workers
    <2>. QED BY <2>2, <2>3 DEF PoolTypeOK
  <1>3. threads \in Nat /\ threads > 0
    BY MaxThreadsAssumption DEF PoolTypeOK
  <1>4. IsFiniteSet(0..(threads - 1)) /\ Cardinality(0..(threads - 1)) = threads
    BY <1>3, FS_Interval
  <1>5. /\ IsFiniteSet((0..(threads - 1)) \ {w})
        /\ Cardinality((0..(threads - 1)) \ {w}) = threads - 1
    BY <1>2, <1>4, FS_RemoveElement
  <1>6. Cardinality(Exited) <= threads - 1
    <2>. DEFINE others == (0..(threads - 1)) \ {w}
    <2>1. Cardinality(Exited) <= Cardinality(others)
      <3>. HIDE DEF others
      <3>. QED BY <1>1, <1>5, FS_Subset DEF others
    <2>. QED BY <1>5, <2>1
  <1>7. Cardinality(Exited) \in Nat
    BY ExitedIsFinite, FS_CardinalityType
  <1>. QED BY <1>3, <1>6, <1>7

-----------------------------------------------------------------------------
LEMMA PoolInitEstablishesInv == PoolInit => PoolInv
  <1>. SUFFICES ASSUME PoolInit PROVE PoolInv
    OBVIOUS
  <1>. USE MaxThreadsAssumption DEF PoolInit
  <1>1. PoolTypeOK
    BY DEF PoolTypeOK
  <1>2. EachItemOnce
    BY DEF EachItemOnce
  <1>3. CallerOK
    BY DEF CallerOK, Workers
  <1>4. CounterOK
    <2>1. Exited = {}
      BY DEF Exited
    <2>2. Cardinality(Exited) = 0
      BY <2>1, FS_EmptySet
    <2>. QED BY <2>2 DEF CounterOK, Items
  <1>. QED BY <1>1, <1>2, <1>3, <1>4 DEF PoolInv

LEMMA StutterKeepsPoolInv == PoolInv /\ UNCHANGED poolVars => PoolInv'
  BY DEF PoolInv, poolVars, PoolTypeOK, EachItemOnce, CallerOK, CounterOK, Exited, Workers,
         Items

LEMMA SpawnKeepsPoolInv == PoolInv /\ Spawn => PoolInv'
  <1>. SUFFICES ASSUME PoolInv, Spawn PROVE PoolInv'
    OBVIOUS
  <1>. USE DEF PoolInv, Spawn
  <1>1. k \in Workers /\ worker[k] = "absent"
    BY MaxThreadsAssumption DEF PoolTypeOK, CallerOK, Workers
  <1>2. PoolTypeOK'
    <2>1. k + 1 \in 0..threads
      BY MaxThreadsAssumption DEF PoolTypeOK
    <2>2. worker' \in [Workers -> {"absent", "claim", "work", "exited"}]
      BY <1>1 DEF PoolTypeOK
    <2>. QED BY <2>1, <2>2 DEF PoolTypeOK, Items
  <1>3. \A w \in Workers : worker'[w] = IF w = k THEN "claim" ELSE worker[w]
    BY DEF PoolTypeOK
  <1>4. EachItemOnce'
    <2>1. \A w \in Workers : worker'[w] = "work" => worker[w] = "work"
      BY <1>3
    <2>. QED BY <2>1 DEF EachItemOnce, Items, Workers
  <1>5. CallerOK'
    BY <1>3, MaxThreadsAssumption DEF CallerOK, PoolTypeOK, Workers
  <1>6. CounterOK'
    <2>1. Exited' = Exited
      BY <1>1, <1>3 DEF Exited, Workers
    <2>2. \A w \in Workers : worker'[w] = "work" <=> worker[w] = "work"
      BY <1>1, <1>3
    <2>. QED BY <2>1, <2>2 DEF CounterOK, Items, Workers
  <1>. QED BY <1>2, <1>4, <1>5, <1>6

LEMMA CallerStepsKeepPoolInv == PoolInv /\ (StartJoining \/ Join \/ Leave) => PoolInv'
  <1>. SUFFICES ASSUME PoolInv, StartJoining \/ Join \/ Leave PROVE PoolInv'
    OBVIOUS
  <1>. USE DEF PoolInv
  <1>1. UNCHANGED <<items, threads, next, worker, item, finished>>
    BY DEF StartJoining, Join, Leave
  <1>2. PoolTypeOK'
    BY <1>1 DEF PoolTypeOK, Items, StartJoining, Join, Leave
  <1>3. EachItemOnce' /\ CounterOK'
    BY <1>1 DEF EachItemOnce, CounterOK, Exited, Items, Workers
  <1>4. CallerOK'
    <2>1. CASE StartJoining
      BY <2>1, MaxThreadsAssumption DEF StartJoining, CallerOK, PoolTypeOK, Workers
    <2>2. CASE Join
      BY <2>2, MaxThreadsAssumption DEF Join, CallerOK, PoolTypeOK, Workers
    <2>3. CASE Leave
      BY <2>3, MaxThreadsAssumption DEF Leave, CallerOK, PoolTypeOK, Workers
    <2>. QED BY <2>1, <2>2, <2>3
  <1>. QED BY <1>2, <1>3, <1>4

LEMMA ClaimKeepsPoolInv ==
  ASSUME PoolInv, NEW w \in Workers, Claim(w)
  PROVE  PoolInv'
  <1>. USE DEF PoolInv, Claim
  <1>1. \A v \in Workers :
          /\ worker'[v] = IF v = w THEN (IF next < items THEN "work" ELSE "exited") ELSE worker[v]
          /\ item'[v] = IF v = w THEN next ELSE item[v]
    BY DEF PoolTypeOK
  <1>2. next \in Nat /\ items \in Nat /\ threads \in Nat /\ threads > 0
    BY MaxThreadsAssumption DEF PoolTypeOK
  <1>3. next < items + threads
    <2>1. Cardinality(Exited) < threads
      BY FewerExitedThanThreads
    <2>. QED BY <1>2, <2>1 DEF CounterOK
  <1>4. PoolTypeOK'
    BY <1>2, <1>3 DEF PoolTypeOK, Items
  <1>5. CallerOK'
    BY <1>1, MaxThreadsAssumption DEF CallerOK, PoolTypeOK, Workers
  <1>6. \A v \in Workers : worker[v] = "work" => item[v] \in Items /\ item[v] < next
    BY <1>2 DEF EachItemOnce, CounterOK, Items
  <1>7. next \notin finished
    BY <1>2 DEF CounterOK, PoolTypeOK, Items
  <1>8. EachItemOnce'
    BY <1>1, <1>2, <1>6, <1>7 DEF EachItemOnce, Items, Workers
  <1>9. \A i \in Items' : i < next' <=> \/ i \in finished'
                                        \/ \E v \in Workers : worker'[v] = "work" /\ item'[v] = i
    <2>. SUFFICES ASSUME NEW i \in Items
                  PROVE  i < next + 1 <=> \/ i \in finished
                                          \/ \E v \in Workers : worker'[v] = "work" /\ item'[v] = i
      BY DEF Items
    <2>1. i \in 0..(items - 1)
      BY DEF Items
    <2>2. CASE i = next
      BY <1>1, <1>2, <2>1, <2>2
    <2>3. CASE i # next
      <3>1. i < next + 1 <=> i < next
        BY <1>2, <2>1, <2>3
      <3>2. \A v \in Workers : worker'[v] = "work" /\ item'[v] = i
                               <=> worker[v] = "work" /\ item[v] = i
        BY <1>1, <2>3
      <3>. QED BY <3>1, <3>2 DEF CounterOK
    <2>. QED BY <2>2, <2>3
  <1>10. Cardinality(Exited') = IF next' <= items' THEN 0 ELSE next' - items'
    <2>1. CASE next < items
      <3>1. Exited' = Exited
        BY <1>1, <2>1 DEF Exited, Workers
      <3>. QED BY <1>2, <2>1, <3>1 DEF CounterOK
    <2>2. CASE next >= items
      <3>1. Exited' = Exited \cup {w} /\ w \notin Exited
        BY <1>1, <1>2, <2>2 DEF Exited, Workers
      <3>2. Cardinality(Exited') = Cardinality(Exited) + 1
        BY <3>1, ExitedIsFinite, FS_AddElement
      <3>. QED BY <1>2, <2>2, <3>2 DEF CounterOK
    <2>. QED BY <1>2, <2>1, <2>2
  <1>. QED BY <1>4, <1>5, <1>8, <1>9, <1>10 DEF CounterOK, Workers

LEMMA FinishKeepsPoolInv ==
  ASSUME PoolInv, NEW w \in Workers, Finish(w)
  PROVE  PoolInv'
  <1>. USE DEF PoolInv, Finish
  <1>1. \A v \in Workers : worker'[v] = IF v = w THEN "claim" ELSE worker[v]
    BY DEF PoolTypeOK
  <1>2. item[w] \in Items
    BY DEF EachItemOnce
  <1>3. PoolTypeOK'
    BY <1>2 DEF PoolTypeOK, Items
  <1>4. EachItemOnce'
    BY <1>1 DEF EachItemOnce, Items, Workers
  <1>5. CallerOK'
    BY <1>1, MaxThreadsAssumption DEF CallerOK, PoolTypeOK, Workers
  <1>6. CounterOK'
    <2>1. Exited' = Exited
      BY <1>1 DEF Exited, Workers
    <2>2. \A i \in Items : (i \in finished' \/ \E v \in Workers : worker'[v] = "work" /\ item[v] = i)
                       <=> (i \in finished \/ \E v \in Workers : worker[v] = "work" /\ item[v] = i)
      BY <1>1
    <2>. QED BY <2>1, <2>2 DEF CounterOK, Items, Workers
  <1>. QED BY <1>3, <1>4, <1>5, <1>6

LEMMA PoolNextKeepsInv == PoolInv /\ [PoolNext]_poolVars => PoolInv'
  BY StutterKeepsPoolInv, SpawnKeepsPoolInv, CallerStepsKeepPoolInv, ClaimKeepsPoolInv,
     FinishKeepsPoolInv DEF PoolNext

LEMMA PoolInvHolds == PoolSpec => []PoolInv
  BY PoolInitEstablishesInv, PoolNextKeepsInv, PTL DEF PoolSpec

-----------------------------------------------------------------------------
(* The pool keeps its types; in particular the counter overshoots the      *)
(* items by at most one per thread, for any number of items and threads.   *)
THEOREM PoolTypeInvariant == PoolSpec => []PoolTypeOK
  <1>1. PoolInv => PoolTypeOK
    BY DEF PoolInv
  <1>. QED BY <1>1, PoolInvHolds, PTL

(* No item is claimed by two threads, whatever the interleaving.           *)
THEOREM ItemsAreClaimedOnce == PoolSpec => []EachItemOnce
  <1>1. PoolInv => EachItemOnce
    BY DEF PoolInv
  <1>. QED BY <1>1, PoolInvHolds, PTL

(* Behind the last join every item is done and every thread has ended.     *)
LEMMA OverMeansDone == PoolInv => AllDoneWhenOver
  <1>. SUFFICES ASSUME PoolInv, main = "over"
                PROVE  /\ finished = Items
                       /\ \A w \in Workers : worker[w] \in {"absent", "exited"}
    BY DEF AllDoneWhenOver
  <1>. USE DEF PoolInv
  <1>1. \A w \in Workers : worker[w] \in {"absent", "exited"}
    BY MaxThreadsAssumption DEF CallerOK, PoolTypeOK, Workers
  <1>2. 0 \in Exited
    BY MaxThreadsAssumption DEF CallerOK, PoolTypeOK, Workers, Exited
  <1>3. Cardinality(Exited) # 0
    BY <1>2, ExitedIsFinite, FS_EmptySet
  <1>4. next > items /\ next \in Nat /\ items \in Nat
    BY <1>3, MaxThreadsAssumption DEF CounterOK, PoolTypeOK
  <1>5. Items \subseteq finished
    BY <1>1, <1>4 DEF CounterOK, Items
  <1>. QED BY <1>1, <1>5 DEF PoolTypeOK

THEOREM NothingIsLeftBehind == PoolSpec => []AllDoneWhenOver
  BY OverMeansDone, PoolInvHolds, PTL

-----------------------------------------------------------------------------
(* The tools choose the number of threads with std::min and std::max.      *)

LEMMA MinOfTwo ==
  ASSUME NEW a \in Int, NEW b \in Int
  PROVE  /\ Min({a, b}) \in {a, b}
         /\ Min({a, b}) <= a /\ Min({a, b}) <= b
  <1>1. \E x \in {a, b} : \A y \in {a, b} : x <= y
    <2>1. CASE a <= b
      BY <2>1
    <2>2. CASE b <= a
      BY <2>2
    <2>. QED BY <2>1, <2>2
  <1>. QED BY <1>1 DEF Min

LEMMA MaxOfTwo ==
  ASSUME NEW a \in Int, NEW b \in Int
  PROVE  /\ Max({a, b}) \in {a, b}
         /\ Max({a, b}) >= a /\ Max({a, b}) >= b
  <1>1. \E x \in {a, b} : \A y \in {a, b} : x >= y
    <2>1. CASE a >= b
      BY <2>1
    <2>2. CASE b >= a
      BY <2>2
    <2>. QED BY <2>1, <2>2
  <1>. QED BY <1>1 DEF Max

=============================================================================
