--------------------------- MODULE SuffixCatalog ---------------------------
(***************************************************************************)
(* tools/independent_suffix_catalog.cpp: for every pair of the catalogue   *)
(* of aliases, one more symbol is appended to each side, independently,    *)
(* and the states behind the foldback are compared.  A pool whose items    *)
(* are the pairs; each thread counts for itself and the caller adds up.    *)
(*                                                                         *)
(* The catalogue is what module Enumeration promises of the pool that      *)
(* makes it (AliasCatalog).  A thread's counters are its own until it is   *)
(* joined, so the work on one pair is one step.                            *)
(***************************************************************************)
EXTENDS Aliases, Pool

CONSTANTS
  Fingerprint,    (* analysis_fingerprint, of each state                  *)
  Hardware        (* std::thread::hardware_concurrency()                  *)

(* hash.folded is the state behind the foldback of a longer message.       *)
ASSUME FoldedAssumption ==
  \A h \in Hashes :
    \A p \in PrefixNumbers, third \in Symbols, suffix \in Symbols :
      h.folded[<<p, third, suffix>>] \in DOMAIN Fingerprint
ASSUME SuffixRequestsAssumption == \A r \in Requests : r.prefix_count \in 1..AllPrefixes
ASSUME HardwareAssumption == Hardware \in Nat
ASSUME ThreadsAssumption ==
  /\ Hardware <= MaxThreads
  /\ \A r \in Requests : r.thread_count <= MaxThreads

VARIABLES
  hash, request,  (* the arguments: constant during a search              *)
  pairs,          (* the catalogue: constant during a search              *)
  counts,         (* per_thread                                           *)
  total           (* the sums, once the caller has made them              *)

suffixVars == <<hash, request, pairs, counts, total>>
vars == <<poolVars, suffixVars>>

-----------------------------------------------------------------------------
ThreadCount ==
  Min({IF request.thread_count = 0 THEN Max({1, Hardware}) ELSE request.thread_count,
       Max({1, Len(pairs)})})

Fields == {"pairs", "cross", "candidates", "exact", "inherited", "local"}

ZeroCounts == [field \in Fields |-> 0]

Folded(message, suffix) == hash.folded[<<message[1], message[2], suffix>>]

(* Pairs of suffixes, left and right, that lead to one state, ...          *)
Merges(pair) ==
  {s \in Symbols \X Symbols : Folded(pair.left, s[1]) = Folded(pair.right, s[2])}

(* ... and those that only look so by their fingerprints.                  *)
Candidates(pair) ==
  {s \in Symbols \X Symbols :
     Fingerprint[Folded(pair.left, s[1])] = Fingerprint[Folded(pair.right, s[2])]}

IsInherited(pair) == pair.left[1] # pair.right[1]

(* What a thread counts for one pair: each right suffix is looked up in    *)
(* the table of the left ones, and compared with what is found there.      *)
CountsOf(pair) ==
  LET exact == Cardinality({s \in Candidates(pair) : s \in Merges(pair)})
  IN  [pairs      |-> 1,
       cross      |-> (LastSymbol + 1) * (LastSymbol + 1),
       candidates |-> Cardinality(Candidates(pair)),
       exact      |-> exact,
       inherited  |-> IF IsInherited(pair) THEN exact ELSE 0,
       local      |-> IF IsInherited(pair) THEN 0 ELSE exact]

(* The counters that count[x] holds for each x of a set, added up.         *)
SumOf(set, count) ==
  [field \in Fields |-> MapThenSumSet(LAMBDA x : count[x][field], set)]

-----------------------------------------------------------------------------
Work(w) ==
  /\ Finish(w)
  /\ counts' = [counts EXCEPT ![w] =
                  [field \in Fields |-> @[field] + CountsOf(pairs[item[w] + 1])[field]]]
  /\ UNCHANGED <<hash, request, pairs, total>>

Total ==
  /\ main = "over" /\ total = <<>>
  /\ total' = <<SumOf(0..(threads - 1), counts)>>
  /\ UNCHANGED <<poolVars, hash, request, pairs, counts>>

Reported == total # <<>> /\ UNCHANGED vars

ExitCode == IF total[1].exact = 0 THEN 0 ELSE 1

Init ==
  /\ hash \in Hashes /\ request \in Requests
  /\ pairs = Catalogue(hash, request)
  /\ items = Len(pairs) /\ threads = ThreadCount
  /\ main = "spawn" /\ k = 0
  /\ next = 0
  /\ worker = [w \in Workers |-> "absent"]
  /\ item = [w \in Workers |-> 0]
  /\ finished = {}
  /\ counts = [w \in Workers |-> ZeroCounts]
  /\ total = <<>>

Caller ==
  \/ (Spawn \/ StartJoining \/ Join \/ Leave) /\ UNCHANGED suffixVars
  \/ Total

Thread(w) ==
  \/ Claim(w) /\ UNCHANGED suffixVars
  \/ Work(w)

Next == Caller \/ (\E w \in Workers : Thread(w)) \/ Reported

Spec == Init /\ [][Next]_vars

-----------------------------------------------------------------------------
CountsOfPairs == [i \in 0..(Len(pairs) - 1) |-> CountsOf(pairs[i + 1])]

(* The counters of the threads together are those of the finished pairs,   *)
(* at any moment.                                                          *)
CountsAddUp == SumOf(Workers, counts) = SumOf(finished, CountsOfPairs)

(* No pair is counted twice or forgotten while the threads run, and the    *)
(* report is about all pairs of the catalogue, whatever the threads did,   *)
(* and says whether any two suffixes merge any two aliases.                *)
TotalExact ==
  /\ CountsAddUp
  /\ total # <<>> =>
       /\ total[1] = SumOf(DOMAIN CountsOfPairs, CountsOfPairs)
       /\ total[1].exact = total[1].inherited + total[1].local
       /\ total[1].exact <= total[1].candidates
       /\ ExitCode = 1 <=> \E i \in DOMAIN pairs : Merges(pairs[i]) # {}

=============================================================================
