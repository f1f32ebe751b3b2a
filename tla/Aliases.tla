------------------------------ MODULE Aliases ------------------------------
(***************************************************************************)
(* Aliases of the forward phase: pairs of three-byte messages that lead to *)
(* one internal state, because their last bytes do (local aliases) or      *)
(* because one of the known pairs of two-byte prefixes does (inherited     *)
(* aliases); see src/tools/alias_catalog.hpp.                              *)
(*                                                                         *)
(* A message is a prefix, the big-endian number of its first two bytes,    *)
(* and a third symbol, so that messages compare like the byte arrays of    *)
(* the program.  The hash is left open: any states behind the prefixes and *)
(* any effect of a symbol on a state.                                      *)
(***************************************************************************)
EXTENDS Orders

CONSTANTS
  AllPrefixes,    (* 65536: the number of prefixes there are              *)
  LastSymbol,     (* 255                                                  *)
  States,         (* the internal states behind two or three bytes        *)
  Hashes,         (* the hashes searched                                  *)
  KnownBases,     (* bases: the known pairs of prefixes                   *)
  Requests        (* the prefix_count and thread_count arguments used     *)

ASSUME AllPrefixesAssumption == AllPrefixes \in Nat \ {0}
ASSUME LastSymbolAssumption == LastSymbol \in Nat

PrefixNumbers == 0..(AllPrefixes - 1)
Symbols == 0..LastSymbol

ASSUME HashesAssumption ==
  \A h \in Hashes : /\ h.behind \in [PrefixNumbers -> States]
                    /\ h.absorb \in [States -> [Symbols -> States]]
ASSUME KnownBasesAssumption ==
  KnownBases \in Seq({base \in PrefixNumbers \X PrefixNumbers : base[1] # base[2]})
ASSUME BasesDifferAssumption ==
  \A m, n \in DOMAIN KnownBases : KnownBases[m] = KnownBases[n] => m = n
ASSUME RequestsAssumption == Requests \subseteq [prefix_count : Nat, thread_count : Nat]

(* The state after a message.                                              *)
After(hash, message) == hash.absorb[hash.behind[message[1]]][message[2]]

MessageBefore(a, b) == a[1] < b[1] \/ (a[1] = b[1] /\ a[2] < b[2])

PairBefore(a, b) ==
  \/ MessageBefore(a.left, b.left)
  \/ a.left = b.left /\ MessageBefore(a.right, b.right)

-----------------------------------------------------------------------------
(* The catalogue, defined by what it holds.                                *)

Enumerated(request) == {p \in PrefixNumbers : p < request.prefix_count}

SymbolPairs == {m \in Symbols \X Symbols : m[1] < m[2]}

LocalAliases(hash, request) ==
  {pair \in {[left |-> <<p, m[1]>>, right |-> <<p, m[2]>>] :
               p \in Enumerated(request), m \in SymbolPairs} :
     After(hash, pair.left) = After(hash, pair.right)}

(* They are listed with a complete enumeration only.                       *)
InheritedAliases(hash, request) ==
  {[left |-> <<base[1], third>>, right |-> <<base[2], third>>] :
     base \in {b \in ToSet(KnownBases) : /\ request.prefix_count = AllPrefixes
                                         /\ hash.behind[b[1]] = hash.behind[b[2]]},
     third \in Symbols}

IsCatalogue(list, hash, request) ==
  /\ ToSet(list) = LocalAliases(hash, request) \cup InheritedAliases(hash, request)
  /\ \A m, n \in DOMAIN list : m < n => PairBefore(list[m], list[n])

Catalogue(hash, request) ==
  InOrder(LocalAliases(hash, request) \cup InheritedAliases(hash, request), PairBefore)

=============================================================================
