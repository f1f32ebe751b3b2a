---------------------------- MODULE MCPathTools -----------------------------
(***************************************************************************)
(* Few symbols and states.  The beams go three levels and are full on the  *)
(* second or on the third, with distances that are now and then zero or    *)
(* equal; of the family none, some or all levels are written out, and its  *)
(* states and digests are now and then equal.                              *)
(***************************************************************************)
EXTENDS PathTools, TLC

CONSTANTS s1, s2, d1, d2, d3

(* From the last three states no alias is ever reached; the first two go   *)
(* anywhere among themselves and into the others.                          *)
MCStates == {s1, s2, d1, d2, d3}

Rotating == (0 :> d1) @@ (1 :> d2) @@ (2 :> d3)

MCHashes ==
  [behind : {(0 :> s1) @@ (1 :> s2), (0 :> s1) @@ (1 :> s1)},
   absorb : {(s1 :> f) @@ (s2 :> g) @@ [d \in {d1, d2, d3} |-> Rotating] :
               f \in [Symbols -> {s1, s2, d1}], g \in [Symbols -> {s1, s2, d1}]}]

MCKnownBases == <<<<0, 1>>>>

MCRequests == [prefix_count : {2}, thread_count : {0}]

MCOptionSets ==
  [tool : BeamTools, levels : {3}, beam_width : {2, 6}]
    \cup [tool : {"family"}, levels : {2, 3}, materialize_levels : {0, 1, 2, 4}]

Weight(message) == FoldLeft(LAMBDA w, x : (3 * w + x + 1) % 7, 0, message)

(* Two bytes of two bits: states are equal for one pair of messages in     *)
(* seven, and now and then digests are where states are not.               *)
Bits(number) == {b \in ByteBits : (number \div 2 ^ b) % 2 = 1}
TwoBytes(number) == <<Bits(number \div 4), Bits(number % 4)>>

MCDigest(message) == TwoBytes(Weight(message) % 5)
MCFoldbackFrom(forward, message) == TwoBytes(Weight(message))

(* Seven to one: few enough for equal states among eight messages, but not *)
(* among any two.                                                          *)
MCFoldbackState(message) == <<Weight(message), message[2] = 0>>
MCFingerprint(state) == state[1] % 3
MCDigestOf(state) == state[1]

=============================================================================
