--------------------------- MODULE MCAliasCatalog ---------------------------
(***************************************************************************)
(* Three prefixes, four symbols and three states, two of which share a     *)
(* fingerprint; every number of prefixes up to one more than there are,    *)
(* and fewer threads than prefixes, as many, more, or the default.         *)
(***************************************************************************)
EXTENDS AliasCatalog

CONSTANTS s1, s2, s3

MCStates == {s1, s2, s3}

MCFingerprint == (s1 :> 7) @@ (s2 :> 7) @@ (s3 :> 9)

(* Behind s1 the aliases are met in another order than they are sorted in, *)
(* and two states of one bucket differ.                                    *)
Crossing == (0 :> s1) @@ (1 :> s2) @@ (2 :> s2) @@ (3 :> s1)

Paired == (0 :> s1) @@ (1 :> s2) @@ (2 :> s3) @@ (3 :> s2)

AlwaysS3 == [symbol \in Symbols |-> s3]

MCHashes ==
  { [behind |-> [p \in PrefixNumbers |-> s1],
     absorb |-> (s1 :> Crossing) @@ (s2 :> AlwaysS3) @@ (s3 :> AlwaysS3)],
    [behind |-> (0 :> s2) @@ (1 :> s1) @@ (2 :> s2),
     absorb |-> (s1 :> Paired) @@ (s2 :> AlwaysS3) @@ (s3 :> Crossing)] }

(* The first pair of prefixes leads to one state under both hashes, the    *)
(* second under the first hash only.                                       *)
MCKnownBases == <<<<0, 2>>, <<1, 2>>>>

MCRequests == [prefix_count : {0, 1, 2, 3, 4}, thread_count : {0, 1, 3, 5}]

=============================================================================
