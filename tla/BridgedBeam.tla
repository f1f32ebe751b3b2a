---------------------------- MODULE BridgedBeam ----------------------------
(***************************************************************************)
(* tools/digest_beam_search.cpp and tools/foldback_beam_search.cpp: along  *)
(* a bridged path every alias doubles the choices of either message.  From *)
(* level to level a beam of pairs is expanded by the four choices, sorted  *)
(* by a distance and cut to its width, and the best pair ever seen is      *)
(* kept.  The tools differ in the distance and in when they stop.          *)
(*                                                                         *)
(* options.tool says which of the two it is.  A level is one step.         *)
(***************************************************************************)
EXTENDS BridgedPath

CONSTANTS
  ByteBits,       (* the bits of a byte: a byte is the set of those that  *)
                  (* are 1                                                *)
  DigestBytes,    (* the length of a digest, ...                          *)
  StateBytes,     (* ... and of a state, in bytes                         *)
  Digest(_),      (* the digest of a message                              *)
  FoldbackFrom(_, _)   (* foldback_from_forward_state_for_research: the   *)
                  (* state of a message behind the foldback that is       *)
                  (* resumed from a forward state                         *)

BeamTools == {"digest", "foldback"}

(* The tools take a width of at most 65536, which nothing here needs.      *)
ASSUME BeamAssumption ==
  \A o \in OptionSets : o.tool \in BeamTools => o.beam_width \in Nat \ {0}

ASSUME BytesAssumption == IsFiniteSet(ByteBits) /\ DigestBytes \in Nat /\ StateBytes \in Nat

VARIABLES
  common,         (* common_forward                                       *)
  beam,           (* the candidates kept, best first                      *)
  best,           (* global_best                                          *)
  best_level,     (* global_best_level                                    *)
  evaluated,      (* cumulative_evaluated (which only the digest beam has)*)
  scored          (* history: all candidates so far, with their level     *)

beamVars == <<common, beam, best, best_level, evaluated, scored>>

-----------------------------------------------------------------------------
(* The distances of digests and of states, of so many bytes.               *)
BitsApart(a, b, bytes) ==
  Cardinality({p \in (1..bytes) \X ByteBits : (p[2] \in a[p[1]]) # (p[2] \in b[p[1]])})

BytesApart(a, b, bytes) == Cardinality({n \in 1..bytes : a[n] # b[n]})

(* pair_key also puts the smaller message first.                           *)
Pair(left, right) ==
  IF Before(right, left) THEN [left |-> right, right |-> left]
                         ELSE [left |-> left, right |-> right]

DigestDistances(pair, forward) ==
  <<BitsApart(Digest(pair.left), Digest(pair.right), DigestBytes),
    BitsApart(FoldbackFrom(forward, pair.left), FoldbackFrom(forward, pair.right), StateBytes)>>

FoldbackDistances(pair, forward) ==
  LET left  == FoldbackFrom(forward, pair.left)
      right == FoldbackFrom(forward, pair.right)
  IN  <<BitsApart(left, right, StateBytes), BytesApart(left, right, StateBytes)>>

(* score_candidate of either tool                                          *)
Score(pair, forward) ==
  [left |-> pair.left, right |-> pair.right,
   distances |-> IF options.tool = "digest" THEN DigestDistances(pair, forward)
                 ELSE FoldbackDistances(pair, forward)]

CandidateLess(a, b) ==
  \/ Before(a.distances, b.distances)
  \/ a.distances = b.distances /\ Before(a.left, b.left)
  \/ a.distances = b.distances /\ a.left = b.left /\ Before(a.right, b.right)

Exact(candidate) == candidate.distances[1] = 0

-----------------------------------------------------------------------------
(* Seeded fault: the bridge is appended behind the alias.                  *)
ExpandedBridgedLate(step) ==
  {pair \in {Pair((beam[n].left \o <<l>>) \o step.bridge, (beam[n].right \o <<r>>) \o step.bridge) :
               n \in DOMAIN beam, l \in {step.left, step.right}, r \in {step.left, step.right}} :
     pair.left # pair.right}

(* The four ways to extend each candidate along the path; equal messages   *)
(* and pairs seen before are left out.                                     *)
Expanded(step) ==
  {pair \in {Pair((beam[n].left \o step.bridge) \o <<l>>, (beam[n].right \o step.bridge) \o <<r>>) :
               n \in DOMAIN beam, l \in {step.left, step.right}, r \in {step.left, step.right}} :
     pair.left # pair.right}

(* Seeded fault: the beam is cut to less than its width.                   *)
CutShort(candidates) ==
  FirstOf(candidates, CandidateLess, Max({1, options.beam_width - 1}))

Cut(candidates) == FirstOf(candidates, CandidateLess, options.beam_width)

-----------------------------------------------------------------------------
(* Level 1 is the seed.                                                    *)
StartBeam ==
  /\ pc = "found" /\ options.tool \in BeamTools
  /\ pc' = "levels"
  /\ level' = 1
  /\ common' = SeedState(seed)
  /\ best' = Score(seeds[seed], common') /\ best_level' = 1
  /\ beam' = <<best'>>
  /\ evaluated' = 1
  /\ scored' = {<<1, best'>>}
  /\ UNCHANGED <<inputVars, seed, stack>>

(* Seeded fault: global_best is what the last level came to.               *)
LevelForgetful ==
  /\ pc = "levels" /\ level < options.levels
  /\ level' = level + 1
  /\ common' = Path[level].common
  /\ \E candidates \in {{Score(pair, common') : pair \in Expanded(Path[level])}} :
       /\ beam' = Cut(candidates)
       /\ evaluated' = evaluated + Cardinality(candidates)
       /\ scored' = scored \cup {<<level', c>> : c \in candidates}
  /\ best' = beam'[1] /\ best_level' = level'
  /\ UNCHANGED <<inputVars, seed, stack, pc>>

(* One level: expand along the path, sort, cut, remember the best.         *)
Level ==
  /\ pc = "levels" /\ level < options.levels
  /\ level' = level + 1
  /\ common' = Path[level].common
  /\ \E candidates \in {{Score(pair, common') : pair \in Expanded(Path[level])}} :
       /\ beam' = Cut(candidates)
       /\ evaluated' = evaluated + Cardinality(candidates)
       /\ scored' = scored \cup {<<level', c>> : c \in candidates}
  /\ IF CandidateLess(beam'[1], best)
     THEN best' = beam'[1] /\ best_level' = level'
     ELSE UNCHANGED <<best, best_level>>
  /\ UNCHANGED <<inputVars, seed, stack, pc>>

(* The digest beam looks for an exact pair behind each level it expanded,  *)
(* the foldback beam before each level, so that an exact seed stops it.    *)
DigestLevel ==
  /\ pc = "levels" /\ options.tool = "digest"
  /\ level > 1 => ~Exact(beam[1])
  /\ Level

FoldbackLevel ==
  /\ pc = "levels" /\ options.tool = "foldback"
  /\ ~Exact(beam[1])
  /\ Level

ReportBeam ==
  /\ pc = "levels"
  /\ \/ level = options.levels
     \/ Exact(beam[1]) /\ (options.tool = "digest" => level > 1)
  /\ pc' = "done"
  /\ UNCHANGED <<inputVars, seed, stack, level, beamVars>>

BeamExitCode == IF pc = "none" \/ Exact(best) THEN 1 ELSE 0

NoCandidate == [left |-> <<>>, right |-> <<>>, distances |-> <<>>]

BeamInit ==
  /\ common = hash.behind[0] /\ beam = <<>>
  /\ best = NoCandidate /\ best_level = 0
  /\ evaluated = 0 /\ scored = {}

BeamNext == StartBeam \/ DigestLevel \/ FoldbackLevel \/ ReportBeam

-----------------------------------------------------------------------------
(* All messages of the beam have the forward state the foldback of the     *)
(* next comparison is resumed from, and no pair is a message twice.  This  *)
(* is what score_candidate takes for granted: it never recomputes it.      *)
SharedForward ==
  \A n \in DOMAIN beam :
    /\ beam[n].left # beam[n].right
    /\ Forward(beam[n].left) = common /\ Forward(beam[n].right) = common

(* The beam has as many candidates as there are pairs, until it is full:   *)
(* nothing is dropped as equal or seen, "beam became empty" is never       *)
(* thrown, and cumulative_evaluated is the number of different pairs       *)
(* compared, on which the generic reference of the report is based.        *)
BeamFull ==
  beam # <<>> =>
    /\ Len(beam) = Min({options.beam_width, 2 ^ (2 * (level - 1))})
    /\ evaluated = Cardinality({<<s[2].left, s[2].right>> : s \in scored})

(* The best pair reported is one that was scored, at its level, and none   *)
(* ever scored is better, cut candidates included.                         *)
BestOfAll ==
  beam # <<>> =>
    /\ <<best_level, best>> \in scored
    /\ \A s \in scored : ~CandidateLess(s[2], best)

=============================================================================
