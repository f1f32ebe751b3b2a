------------------------------ MODULE MCTools -------------------------------
(***************************************************************************)
(* One run of any of the sequential tools.                                 *)
(***************************************************************************)
EXTENDS FirstSeen, Lsh, DivergentBeam, PrefixPair, Probe, TLC

CONSTANTS s1, s2, s3

-----------------------------------------------------------------------------
(* FirstSeen: few states, and every hash there is on them.                 *)

MCStates == {s1, s2, s3}

(* Four prefixes of two symbols each; three different messages hold them,  *)
(* so that the fourth prefix is the first again.                           *)
PredecessorJobs ==
  [tool : {"predecessor"}, prefixes : {3, 4}, symbols : {2}, values : {3},
   behind : [0..2 -> MCStates],
   absorb : {(s1 :> f) @@ (s2 :> g) @@ (s3 :> [x \in 0..1 |-> s3]) :
               f \in [0..1 -> MCStates], g \in [0..1 -> MCStates]}]

Collapsing == (s1 :> s2) @@ (s2 :> s2) @@ (s3 :> s3)
Turning == (s1 :> s2) @@ (s2 :> s3) @@ (s3 :> s1)

(* Two of the three states share a fingerprint.                            *)
PhaseJobs ==
  [tool : {"phase"}, domain : {4},
   forward : [0..3 -> {s1, s2}], folded : [0..3 -> MCStates],
   diagonal : {Collapsing, Turning}, orbit : {Collapsing, Turning},
   final : {Turning, Collapsing}, digest : {Turning, Collapsing},
   fingerprint : {(s1 :> 7) @@ (s2 :> 7) @@ (s3 :> 9)}]

Values(n) == [0..(n - 1) -> {"v", "w", "x"}]

(* truncated_collision may be told to try nothing.                         *)
TrialJobs(tool, limits) ==
  UNION {[tool : {tool}, limit : {n}, value : {<<v>> : v \in Values(n)}] : n \in limits}
CampaignJobs ==
  [tool : {"campaign"}, limit : {3}, value : {<<v, w>> : v \in Values(3), w \in Values(3)}]

-----------------------------------------------------------------------------
(* Lsh: two or three suffixes on either side, three values, two passes.    *)

(* 0 and 1 are as many bits apart as 0 and 2, but fewer bytes.             *)
Distances ==
  [v \in 0..2 |-> [w \in 0..2 |->
     CASE v = w -> <<0, 0>> [] {v, w} = {0, 1} -> <<1, 1>>
       [] {v, w} = {0, 2} -> <<1, 2>> [] OTHER -> <<2, 1>>]]

(* What the first pass separates the second may not.                       *)
Projections ==
  { <<(0 :> 5) @@ (1 :> 5) @@ (2 :> 6), (0 :> 5) @@ (1 :> 6) @@ (2 :> 5)>>,
    <<(0 :> 5) @@ (1 :> 6) @@ (2 :> 7), (0 :> 5) @@ (1 :> 5) @@ (2 :> 5)>>,
    <<(0 :> 5) @@ (1 :> 6) @@ (2 :> 7)>> }

Side(forwards, last) == [0..last -> [forward : forwards, value : 0..2]]

AllLshJobs ==
  [tool : {"foldback_lsh"}, limit : {3}, forward_equal : BOOLEAN, left : Side({"f"}, 2),
   right : Side({"f"}, 2), project : Projections, distance : {Distances}, wide : {TRUE}]
    \cup [tool : {"digest_lsh"}, limit : {2}, forward_equal : BOOLEAN, left : Side({"f"}, 1),
          right : Side({"f", "g"}, 1), project : Projections, distance : {Distances}, wide : {TRUE}]
    \cup [tool : {"digest_lsh"}, limit : {2}, forward_equal : {FALSE}, left : Side({"f"}, 1),
          right : Side({"f", "g"}, 1), project : {<<(0 :> 5) @@ (1 :> 5) @@ (2 :> 5)>>},
          distance : {Distances}, wide : {FALSE},
          stray : {[left |-> (0 :> 1) @@ (1 :> 2), right |-> (0 :> x) @@ (1 :> y)] :
                     x \in 1..2, y \in 1..2}]

LshJobsOf(tool) == {jb \in AllLshJobs : jb.tool = tool}

-----------------------------------------------------------------------------
(* DivergentBeam: pairs of seeds, over three hashes; forward states and    *)
(* distances are arithmetic on the bytes, so that some pairs share their   *)
(* state and some reach the same digest.                                   *)

ByteSum(message) == FoldLeft(LAMBDA sum, b : sum + b, 0, message)

MCForwardOf(hash, message) ==
  CASE hash = "mixed"  -> (ByteSum(message) + Len(message)) % 4
    [] hash = "narrow" -> IF Len(message) = 1 THEN message[1] ELSE 0
    [] hash = "zero"   -> ByteSum(message) % 7

MCDigestBitsOf(hash, left, right) ==
  CASE hash = "zero" -> (ByteSum(left) + 3 * ByteSum(right)) % 5
    [] OTHER         -> 1 + ((ByteSum(left) * 5 + ByteSum(right)) % 7)

MCForwardBitsOf(hash, left, right) ==
  LET l == MCForwardOf(hash, left)
      r == MCForwardOf(hash, right)
  IN  IF l > r THEN l - r ELSE r - l

DivergentJobs ==
  [tool : {"divergent"}, hash : {"mixed", "narrow", "zero"}, depth : {1, 3}, beam_width : 1..3,
   branch : {2, 3}, left : {<<0>>, <<4>>}, right : {<<b>> : b \in 0..11}]

-----------------------------------------------------------------------------
(* The tools of FoldbackPairs, PrefixPair and Probe: every effect two      *)
(* symbols can have on three states, and three symbols on two, with the    *)
(* pairs of messages that such a hash has.                                 *)

(* States are numbers; 2 and 3 have one cube and differ elsewhere.         *)
MCReturnSymbol(byte, index) ==
  IF index = 1 \/ byte > 1 THEN byte ELSE 1 - byte
MCCubeDistance(v, w) ==
  IF v = w \/ {v, w} = {2, 3} THEN <<0, 0>> ELSE IF {v, w} = {1, 2} THEN <<1, 1>> ELSE <<1, 2>>
MCStateDistance(v, w) == IF v = w THEN 0 ELSE v + w

PairsOf(hash) ==
  LET symbols == DOMAIN hash[1]
      After(message) == hash[hash[hash[1][message[1]]][message[2]]][message[3]]
      Prefix(message) == hash[hash[1][message[1]]][message[2]]
      local == {[left |-> <<0, p, l>>, right |-> <<0, p, r>>, differing_index |-> 2] :
                  p \in symbols, l \in symbols, r \in symbols}
      inherited == {[left |-> <<0, l, t>>, right |-> <<0, r, t>>, differing_index |-> 1] :
                  t \in symbols, l \in symbols, r \in symbols}
      Less(a, b) == Before(a.left \o a.right, b.left \o b.right)
  IN  InOrder({pair \in local : Before(pair.left, pair.right) /\ After(pair.left) = After(pair.right)}
                \cup {pair \in inherited : Before(pair.left, pair.right)
                                             /\ Prefix(pair.left) = Prefix(pair.right)}, Less)

Hashes == [1..3 -> [0..1 -> 1..3]] \cup [1..2 -> [0..2 -> 1..2]]

PairJob(tool, hash, enable, suffixes) ==
  [tool |-> tool, absorb |-> hash, start |-> 1, enable_foldback |-> enable,
   pairs |-> PairsOf(hash), suffixes |-> suffixes]

AwareJobs ==
  {PairJob("aware", hash, TRUE, suffixes) :
       hash \in Hashes, suffixes \in {<<>>, <<<<>>>>, <<<<0>>, <<1>>>>}}
    \cup {PairJob("aware", hash, FALSE, <<<<1>>>>) : hash \in Hashes}

ProfileJobs == {PairJob("profile", hash, TRUE, <<<<>>>>) : hash \in Hashes}

(* Without the family surface the family deltas do not matter.             *)
DualJobs ==
  {[family_surface |-> family # {}, family_deltas |-> family]
     @@ PairJob("dual", hash, TRUE, suffixes) :
       family \in {{}, {1}, {1, 2}}, suffixes \in {<<<<>>>>, <<<<0>>, <<1>>>>}, hash \in Hashes}

MultipathJobs ==
  {[seed_limit |-> 2, suffix_samples |-> samples]
     @@ PairJob("multipath", hash, TRUE, suffixes) :
       samples \in 1..2, suffixes \in {<<<<>>>>, <<<<0>>, <<1>>>>}, hash \in Hashes}

(* Four symbols, two of the states with the aliases {0, 3} and {1, 2}, and *)
(* chains of one length or of different ones behind them.                  *)
Ring == <<0 :> 2 @@ 1 :> 3 @@ 2 :> 3 @@ 3 :> 2, 0 :> 2 @@ 1 :> 3 @@ 2 :> 4 @@ 3 :> 1,
          0 :> 1 @@ 1 :> 1 @@ 2 :> 4 @@ 3 :> 2, 0 :> 4 @@ 1 :> 1 @@ 2 :> 2 @@ 3 :> 3>>
Turned == <<Ring[1], 0 :> 1 @@ 1 :> 1 @@ 2 :> 4 @@ 3 :> 3, Ring[2], Ring[4]>>

(* Chains of up to three aliases, and two states with one digest.          *)
ProbeJobs ==
  {[max_levels |-> levels, digest |-> <<7, 8, 8, 9>>] @@ PairJob("probe", hash, TRUE, <<<<>>>>) :
       levels \in 2..4, hash \in {Ring, Turned}}
  \cup
  {[max_levels |-> levels, digest |-> <<7, 8, 8>>]
     @@ PairJob("probe", hash, TRUE, suffixes) :
       levels \in {1, 3}, suffixes \in {<<>>, <<<<>>>>, <<<<0>>, <<1>>>>}, hash \in [1..3 -> [0..1 -> 1..3]]}

(* Two of the three states share a fingerprint, another two a digest.      *)
PrefixJobsOf(tool) ==
  [tool : {tool}, absorb : [1..3 -> [0..1 -> 1..3]], start : {1},
   enable_foldback : {TRUE}, left_prefix : {<<0>>}, right_prefix : {<<1>>},
   suffixes : {<<>>, <<<<>>>>, <<<<0>>, <<1>>>>}, digest : {<<7, 8, 8>>}, fingerprint : {<<4, 4, 5>>}]

-----------------------------------------------------------------------------
MCJobs ==
  [ predecessor |-> PredecessorJobs, phase |-> PhaseJobs,
    transition |-> TrialJobs("transition", {4}), truncated |-> TrialJobs("truncated", {0, 4}),
    campaign |-> CampaignJobs,
    digest_lsh |-> LshJobsOf("digest_lsh"), foldback_lsh |-> LshJobsOf("foldback_lsh"),
    divergent |-> DivergentJobs,
    aware |-> AwareJobs, profile |-> ProfileJobs, dual |-> DualJobs, multipath |-> MultipathJobs,
    constrained |-> PrefixJobsOf("constrained"), merge |-> PrefixJobsOf("merge"),
    probe |-> ProbeJobs ]

MCPredecessors == [ predecessor |-> PredecessorJobs ]

Init == TableInit \/ LshInit \/ DivergentInit \/ PairInit \/ PrefixInit \/ ProbeInit

Next == TableNext \/ LshNext \/ DivergentNext \/ PairNext \/ PrefixNext \/ ProbeNext \/ Ended

Spec == Init /\ [][Next]_vars

=============================================================================
