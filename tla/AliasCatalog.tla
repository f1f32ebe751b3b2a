---------------------------- MODULE AliasCatalog ----------------------------
(***************************************************************************)
(* all_three_byte_forward_collisions of src/tools/alias_catalog.hpp: a     *)
(* pool whose items are the prefixes.  Each thread collects the aliases it *)
(* finds in a vector of its own; the caller concatenates the vectors, sorts*)
(* the whole and adds the inherited aliases.                               *)
(*                                                                         *)
(* A vector belongs to its thread until that is joined, so the work on one *)
(* prefix is one step, and so is each thing the caller does afterwards.    *)
(***************************************************************************)
EXTENDS Aliases, Pool

CONSTANTS
  Fingerprint,    (* fast_state_fingerprint64, of each state              *)
  Hardware        (* std::thread::hardware_concurrency()                  *)

ASSUME FingerprintAssumption == DOMAIN Fingerprint = States
ASSUME HardwareAssumption == Hardware \in Nat
ASSUME ThreadsAssumption == MaxThreads >= AllPrefixes

VARIABLES
  hash, request,  (* the arguments: constant during an enumeration        *)
  output,         (* per_thread                                           *)
  result,         (* what the caller has collected                        *)
  stage           (* how far the caller has come with it                  *)

catalogueVars == <<hash, request, output, result, stage>>
vars == <<poolVars, catalogueVars>>

-----------------------------------------------------------------------------
(* There are never more threads than prefixes, nor fewer than one.         *)
PrefixCount == Min({request.prefix_count, AllPrefixes})

ThreadCount ==
  Min({IF request.thread_count = 0 THEN Max({1, Hardware}) ELSE request.thread_count,
       Max({1, PrefixCount})})

(* find_symbol_aliases: each symbol is compared with the earlier symbols   *)
(* in the bucket of its fingerprint, in the order they got there.          *)
Candidates(start, symbol) ==
  {prior \in 0..(symbol - 1) :
     Fingerprint[hash.absorb[start][prior]] = Fingerprint[hash.absorb[start][symbol]]}

Earlier(prior, symbol) == prior < symbol

AliasesOfSymbol(start, symbol) ==
  LET same == {prior \in Candidates(start, symbol) :
                 hash.absorb[start][prior] = hash.absorb[start][symbol]}
      hits == InOrder(same, Earlier)
  IN  [n \in DOMAIN hits |-> <<hits[n], symbol>>]

FindSymbolAliases(start) ==
  FlattenSeq([n \in 1..(LastSymbol + 1) |-> AliasesOfSymbol(start, n - 1)])

(* The pairs a worker adds for a prefix.                                   *)
PairsOf(p) ==
  LET aliases == FindSymbolAliases(hash.behind[p])
  IN  [n \in DOMAIN aliases |-> [left |-> <<p, aliases[n][1]>>, right |-> <<p, aliases[n][2]>>]]

(* inherited_three_byte_aliases.                                           *)
InheritedPairs ==
  FlattenSeq([b \in DOMAIN KnownBases |->
    IF hash.behind[KnownBases[b][1]] # hash.behind[KnownBases[b][2]] THEN <<>>
    ELSE [n \in 1..(LastSymbol + 1) |->
            [left |-> <<KnownBases[b][1], n - 1>>, right |-> <<KnownBases[b][2], n - 1>>]]])

-----------------------------------------------------------------------------
(* Seeded fault: the vector holds the aliases of the last prefix only.     *)
WorkOverwriting(w) ==
  /\ Finish(w)
  /\ output' = [output EXCEPT ![w] = PairsOf(item[w])]
  /\ UNCHANGED <<hash, request, result, stage>>

(* A worker appends the aliases of a prefix to its vector.                 *)
Work(w) ==
  /\ Finish(w)
  /\ output' = [output EXCEPT ![w] = @ \o PairsOf(item[w])]
  /\ UNCHANGED <<hash, request, result, stage>>

(* The vectors, in the order of the threads.  (Below, \E only names the    *)
(* sequence that is sorted.)                                               *)
Concatenated == FlattenSeq([n \in 1..threads |-> output[n - 1]])

Collect ==
  /\ main = "over" /\ stage = "collect"
  /\ \E joined \in {Concatenated} : result' = SortedBy(joined, PairBefore)
  /\ stage' = "extend"
  /\ UNCHANGED <<poolVars, hash, request, output>>

(* Seeded fault: the inherited aliases stay at the end.                    *)
ExtendUnsorted ==
  /\ stage = "extend"
  /\ result' = IF request.prefix_count = AllPrefixes THEN result \o InheritedPairs ELSE result
  /\ stage' = "done"
  /\ UNCHANGED <<poolVars, hash, request, output>>

Extend ==
  /\ stage = "extend"
  /\ \E joined \in {IF request.prefix_count = AllPrefixes
                    THEN result \o InheritedPairs ELSE result} :
       result' = SortedBy(joined, PairBefore)
  /\ stage' = "done"
  /\ UNCHANGED <<poolVars, hash, request, output>>

-----------------------------------------------------------------------------
Returned == stage = "done" /\ UNCHANGED vars

Init ==
  /\ hash \in Hashes /\ request \in Requests
  /\ items = PrefixCount /\ threads = ThreadCount
  /\ main = "spawn" /\ k = 0
  /\ next = 0
  /\ worker = [w \in Workers |-> "absent"]
  /\ item = [w \in Workers |-> 0]
  /\ finished = {}
  /\ output = [w \in Workers |-> <<>>]
  /\ result = <<>>
  /\ stage = "collect"

Caller ==
  \/ (Spawn \/ StartJoining \/ Join \/ Leave) /\ UNCHANGED catalogueVars
  \/ Collect
  \/ Extend

Thread(w) ==
  \/ Claim(w) /\ UNCHANGED catalogueVars
  \/ Work(w)

Next == Caller \/ (\E w \in Workers : Thread(w)) \/ Returned

Spec == Init /\ [][Next]_vars

(* The scheduler runs every thread that can run, the caller included.      *)
FairSpec == Spec /\ WF_vars(Caller) /\ \A w \in Workers : WF_vars(Thread(w))

-----------------------------------------------------------------------------
(* How often a pair is found already, or will be by who is working on it.  *)
Found(pair) ==
  Cardinality(UNION {{w} \X {n \in DOMAIN output[w] : output[w][n] = pair} : w \in Workers})
  + Cardinality({w \in Workers : worker[w] = "work" /\ item[w] = pair.left[1]})

(* At any moment of an enumeration, an alias whose prefix the counter has  *)
(* passed is in the vector of exactly one thread or on its way there, and  *)
(* no other is: no interleaving of the threads loses or repeats a pair.    *)
NoneLostOrRepeated ==
  \A pair \in LocalAliases(hash, request) :
    Found(pair) = IF pair.left[1] < next THEN 1 ELSE 0

(* Whatever the threads do, the caller gets what Enumeration promises: all *)
(* the aliases, each once, sorted, at one moment.                          *)
Promised == INSTANCE Enumeration WITH
  delivered <- (stage = "done"),
  catalogue <- (IF stage = "done" THEN result ELSE <<>>)

ImplementsEnumeration == Promised!EnumerationSpec

(* The enumeration ends: every thread gets a number past the end in time,  *)
(* also when there are more threads than prefixes.                         *)
Ends == <>(stage = "done")

=============================================================================
