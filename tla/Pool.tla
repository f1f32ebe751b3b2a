-------------------------------- MODULE Pool --------------------------------
(***************************************************************************)
(* The worker pool of the research tools, without the work: the caller     *)
(* starts its threads one after the other, each thread claims the next     *)
(* item from an atomic counter until it gets a number past the end, and    *)
(* the caller joins the threads one after the other.                       *)
(*                                                                         *)
(* alias_catalog.hpp, three_byte_collision.cpp and                         *)
(* independent_suffix_catalog.cpp each have such a pool, written out; the  *)
(* modules of the three build their actions from the ones below and add    *)
(* what the work does.  finished is a history variable: the items whose    *)
(* work is done.                                                           *)
(***************************************************************************)
EXTENDS Integers, FiniteSets

CONSTANT MaxThreads     (* no pool has more threads                        *)

ASSUME MaxThreadsAssumption == MaxThreads \in Nat \ {0}

VARIABLES
  items,          (* the number of items: constant while the pool runs    *)
  threads,        (* the number of threads: constant while the pool runs  *)
  main,           (* where the caller is                                  *)
  k,              (* the counter of its loops over the threads            *)
  next,           (* the atomic counter                                   *)
  worker,         (* where each thread is                                 *)
  item,           (* the number each thread got from the counter last     *)
  finished

poolVars == <<items, threads, main, k, next, worker, item, finished>>

Workers == 0..(MaxThreads - 1)
Items == 0..(items - 1)

PoolInit ==
  /\ items \in Nat /\ threads \in 1..MaxThreads
  /\ main = "spawn" /\ k = 0
  /\ next = 0
  /\ worker = [w \in Workers |-> "absent"]
  /\ item = [w \in Workers |-> 0]
  /\ finished = {}

-----------------------------------------------------------------------------
(* The caller.                                                             *)

(* Seeded fault: the last vector has no thread, but is waited for.         *)
SpawnAllButLast ==
  /\ main = "spawn" /\ k < threads
  /\ worker' = IF k = threads - 1 /\ k > 0 THEN worker ELSE [worker EXCEPT ![k] = "claim"]
  /\ k' = k + 1
  /\ UNCHANGED <<items, threads, main, next, item, finished>>

Spawn ==
  /\ main = "spawn" /\ k < threads
  /\ worker' = [worker EXCEPT ![k] = "claim"]
  /\ k' = k + 1
  /\ UNCHANGED <<items, threads, main, next, item, finished>>

StartJoining ==
  /\ main = "spawn" /\ k = threads
  /\ main' = "join" /\ k' = 0
  /\ UNCHANGED <<items, threads, next, worker, item, finished>>

(* Seeded fault: the caller goes on without waiting for the thread.        *)
JoinWithoutWaiting ==
  /\ main = "join" /\ k < threads
  /\ k' = k + 1
  /\ UNCHANGED <<items, threads, main, next, worker, item, finished>>

Join ==
  /\ main = "join" /\ k < threads /\ worker[k] = "exited"
  /\ k' = k + 1
  /\ UNCHANGED <<items, threads, main, next, worker, item, finished>>

(* The last thread is joined: the caller reads what they have left.        *)
Leave ==
  /\ main = "join" /\ k = threads
  /\ main' = "over"
  /\ UNCHANGED <<items, threads, k, next, worker, item, finished>>

-----------------------------------------------------------------------------
(* A worker thread.                                                        *)

(* Seeded fault: the counter is read and written back in two steps, so the *)
(* number read may be one another thread has got as well.                  *)
ClaimTorn(w) ==
  /\ worker[w] = "claim"
  /\ \E seen \in {next} \cup {item[v] : v \in {u \in Workers : worker[u] = "work"}} :
       /\ next' = seen + 1
       /\ item' = [item EXCEPT ![w] = seen]
       /\ worker' = [worker EXCEPT ![w] = IF seen < items THEN "work" ELSE "exited"]
  /\ UNCHANGED <<items, threads, main, k, finished>>

Claim(w) ==
  /\ worker[w] = "claim"
  /\ next' = next + 1
  /\ item' = [item EXCEPT ![w] = next]
  /\ worker' = [worker EXCEPT ![w] = IF next < items THEN "work" ELSE "exited"]
  /\ UNCHANGED <<items, threads, main, k, finished>>

Finish(w) ==
  /\ worker[w] = "work"
  /\ worker' = [worker EXCEPT ![w] = "claim"]
  /\ finished' = finished \cup {item[w]}
  /\ UNCHANGED <<items, threads, main, k, next, item>>

-----------------------------------------------------------------------------
PoolNext ==
  \/ Spawn \/ StartJoining \/ Join \/ Leave
  \/ \E w \in Workers : Claim(w) \/ Finish(w)

PoolSpec == PoolInit /\ [][PoolNext]_poolVars

(* The values the variables range over.  The counter overshoots the items  *)
(* by one per thread and no further.                                       *)
PoolTypeOK ==
  /\ items \in Nat /\ threads \in 1..MaxThreads
  /\ main \in {"spawn", "join", "over"}
  /\ k \in 0..threads
  /\ next \in 0..(items + threads)
  /\ worker \in [Workers -> {"absent", "claim", "work", "exited"}]
  /\ item \in [Workers -> 0..(items + threads)]
  /\ finished \subseteq Items

(* No item is worked on by two threads, and none again that is finished:   *)
(* however the claims interleave.                                          *)
EachItemOnce ==
  /\ \A v, w \in Workers :
       worker[v] = "work" /\ worker[w] = "work" /\ item[v] = item[w] => v = w
  /\ \A w \in Workers : worker[w] = "work" => item[w] \in Items \ finished

(* When the caller has joined its threads, every item has been worked off  *)
(* and nobody touches the threads' results any more.                       *)
AllDoneWhenOver ==
  main = "over" =>
    /\ finished = Items
    /\ \A w \in Workers : worker[w] \in {"absent", "exited"}

=============================================================================
