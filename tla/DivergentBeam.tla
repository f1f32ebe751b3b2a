--------------------------- MODULE DivergentBeam ----------------------------
(***************************************************************************)
(* tools/divergent_digest_beam.cpp: from a pair of messages with different *)
(* forward states a beam of pairs is extended symbol by symbol, each side  *)
(* by a palette of its own; pairs that come to share a forward state are   *)
(* left out, the rest is sorted by the distance of the digests and cut.    *)
(*                                                                         *)
(* A depth is one step; at is the last depth done.                         *)
(***************************************************************************)
EXTENDS Tools, Orders

CONSTANTS
  ForwardOf(_, _),        (* the forward state of a message, under a hash *)
  DigestBitsOf(_, _, _),  (* the distance of the digests of two messages  *)
  ForwardBitsOf(_, _, _)  (* the distance of their forward states         *)

ASSUME DivergentJobsAssumption ==
  \A jb \in JobsOf({"divergent"}) :
    /\ jb.depth \in 1..32 /\ jb.beam_width \in 1..4096 /\ jb.branch \in 2..32
    /\ jb.left \in Seq(0..255) /\ jb.right \in Seq(0..255)
    /\ Len(jb.left) = Len(jb.right) /\ jb.left # <<>>

Evaluated(left, right) ==
  [left |-> left, right |-> right,
   digest_bits |-> DigestBitsOf(job.hash, left, right),
   forward_bits |-> ForwardBitsOf(job.hash, left, right)]

(* Of two pairs with one digest distance the one whose forward states are  *)
(* further apart comes first.                                              *)
PairLess(a, b) ==
  \/ Before(<<a.digest_bits, b.forward_bits>>, <<b.digest_bits, a.forward_bits>>)
  \/ /\ <<a.digest_bits, a.forward_bits>> = <<b.digest_bits, b.forward_bits>>
     /\ Before(a.left, b.left) \/ (a.left = b.left /\ Before(a.right, b.right))

(* The symbols one side is extended by at a depth.                         *)
Palette(depth, salt) ==
  {(((n * 256) \div job.branch) + depth * 37 + salt) % 256 : n \in 0..(job.branch - 1)}

(* Seeded fault: pairs that share their forward state stay in the beam.    *)
ExpandedAlike(depth) ==
  {Evaluated(Append(seen.beam[n].left, l), Append(seen.beam[n].right, r)) :
     n \in DOMAIN seen.beam, l \in Palette(depth, 19), r \in Palette(depth, 167)}

(* The pairs of a depth, those with one forward state left out.            *)
ExpandedApart(depth) ==
  {pair \in {Evaluated(Append(seen.beam[n].left, l), Append(seen.beam[n].right, r)) :
               n \in DOMAIN seen.beam, l \in Palette(depth, 19), r \in Palette(depth, 167)} :
     ForwardOf(job.hash, pair.left) # ForwardOf(job.hash, pair.right)}

-----------------------------------------------------------------------------
(* The seed is refused when its messages share a forward state.            *)
RefuseSeed ==
  /\ Tool("divergent") /\ seen.beam = <<>>
  /\ ForwardOf(job.hash, job.left) = ForwardOf(job.hash, job.right)
  /\ Leave("error")

Seed ==
  /\ Tool("divergent") /\ seen.beam = <<>>
  /\ ForwardOf(job.hash, job.left) # ForwardOf(job.hash, job.right)
  /\ \E pair \in {Evaluated(job.left, job.right)} :
       /\ seen' = [beam |-> <<pair>>, scored |-> {<<0, pair>>}]
       /\ outcomes' = <<0, pair>>
  /\ counters' = [cumulative_evaluated |-> 1]
  /\ UNCHANGED <<job, pc, at>>

Expanding ==
  /\ Tool("divergent") /\ seen.beam # <<>> /\ at < job.depth
  /\ at > 0 => seen.beam[1].digest_bits # 0

Depth ==
  /\ Expanding
  /\ at' = at + 1
  /\ \E expanded \in {ExpandedApart(at')} :
       /\ expanded # {}
       /\ seen' = [beam   |-> FirstOf(expanded, PairLess, job.beam_width),
                   scored |-> seen.scored \cup {<<at', pair>> : pair \in expanded}]
       /\ counters' = [cumulative_evaluated |-> counters.cumulative_evaluated
                                                 + Cardinality(expanded)]
  /\ outcomes' = IF PairLess(seen'.beam[1], outcomes[2]) THEN <<at', seen'.beam[1]>> ELSE outcomes
  /\ UNCHANGED <<job, pc>>

(* "divergent beam became empty"                                           *)
EmptyBeam == Expanding /\ ExpandedApart(at + 1) = {} /\ Leave("error")

EndDivergent ==
  /\ Tool("divergent") /\ seen.beam # <<>>
  /\ at = job.depth \/ (at > 0 /\ seen.beam[1].digest_bits = 0)
  /\ Leave("done")

DivergentExitCode ==
  IF pc = "error" THEN 2 ELSE IF outcomes[2].digest_bits = 0 THEN 1 ELSE 0

DivergentInit ==
  /\ job \in JobsOf({"divergent"})
  /\ Start([beam |-> <<>>, scored |-> {}], [cumulative_evaluated |-> 0])

DivergentNext == RefuseSeed \/ Seed \/ Depth \/ EmptyBeam \/ EndDivergent

DivergentSpec == DivergentInit /\ [][DivergentNext]_vars

-----------------------------------------------------------------------------
Apart(pair) == ForwardOf(job.hash, pair.left) # ForwardOf(job.hash, pair.right)

(* All pairs ever kept or reported differ in their forward states, as the  *)
(* name of the tool says, each is scored once because a palette has branch *)
(* different symbols, the best one ever scored is reported with its depth  *)
(* though the beam may have dropped its successors, and the exit code is 1 *)
(* just when some pair at all, dropped or not, has equal digests.          *)
StaysDivergent ==
  job.tool = "divergent" /\ seen.beam # <<>> =>
    /\ \A s \in seen.scored : Apart(s[2])
    /\ counters.cumulative_evaluated = Cardinality({<<s[2].left, s[2].right>> : s \in seen.scored})
    /\ Cardinality(Palette(at, 19)) = job.branch /\ Cardinality(Palette(at, 167)) = job.branch
    /\ outcomes \in seen.scored
    /\ \A s \in seen.scored : ~PairLess(s[2], outcomes[2])
    /\ pc = "done" =>
         (DivergentExitCode = 1 <=> \E s \in seen.scored : s[2].digest_bits = 0)
    /\ pc = "error" => \A n \in DOMAIN seen.beam, l \in Palette(at + 1, 19), r \in Palette(at + 1, 167) :
         ForwardOf(job.hash, Append(seen.beam[n].left, l))
           = ForwardOf(job.hash, Append(seen.beam[n].right, r))

=============================================================================
