-------------------------- MODULE MCSuffixCatalog --------------------------
(***************************************************************************)
(* Two prefixes and three symbols: catalogues of no pair, of local pairs   *)
(* and of local and inherited ones.                                        *)
(***************************************************************************)
EXTENDS SuffixCatalog

CONSTANTS s1, s2, s3

MCStates == {s1, s2, s3}

MCFingerprint == (s1 :> 7) @@ (s2 :> 7) @@ (s3 :> 9)

Absorbing(zero, one, two) == (0 :> zero) @@ (1 :> one) @@ (2 :> two)

Messages == PrefixNumbers \X Symbols \X Symbols

(* Every alias is found, and some pairs of suffixes merge.                 *)
Merging ==
  [behind |-> [p \in PrefixNumbers |-> s1],
   absorb |-> [state \in MCStates |-> Absorbing(s1, s2, s1)],
   folded |-> [m \in Messages |-> IF m[2] + m[3] = 1 THEN s1
                                  ELSE IF m[1] = 0 THEN s2 ELSE s3]]

(* Aliases behind one prefix only, which no pair of suffixes merges.       *)
Separated ==
  [behind |-> (0 :> s1) @@ (1 :> s2),
   absorb |-> (s1 :> Absorbing(s3, s3, s3)) @@ (s2 :> Absorbing(s1, s2, s3))
              @@ (s3 :> Absorbing(s1, s2, s3)),
   folded |-> [m \in Messages |-> IF m[2] = 0 THEN s1 ELSE IF m[2] = 1 THEN s2 ELSE s3]]

(* No aliases at all.                                                      *)
Injective ==
  [behind |-> (0 :> s1) @@ (1 :> s2),
   absorb |-> [state \in MCStates |-> Absorbing(s1, s2, s3)],
   folded |-> [m \in Messages |-> s1]]

MCHashes == {Merging, Separated, Injective}

MCKnownBases == <<<<0, 1>>>>

MCRequests == [prefix_count : {1, 2}, thread_count : {0, 1, 3}]

=============================================================================
