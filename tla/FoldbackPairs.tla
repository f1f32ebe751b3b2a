--------------------------- MODULE FoldbackPairs ----------------------------
(***************************************************************************)
(* The tools that take pairs of messages with one forward state and ask    *)
(* whether the foldback keeps them apart: tools/foldback_aware_alias.cpp,  *)
(* foldback_separation_profile.cpp, dual_return_alias.cpp and              *)
(* multipath_foldback_sample.cpp.                                          *)
(*                                                                         *)
(* The hash is left open: any effect of a symbol on a state.  The pairs    *)
(* are those of all_three_byte_forward_collisions (module Aliases).        *)
(***************************************************************************)
EXTENDS Tools, Orders

CONSTANTS
  ReturnSymbol(_, _),    (* derive_return_symbol, of a byte and its index *)
  CubeDistance(_, _),    (* of two states, in bits and in bytes           *)
  StateDistance(_, _)    (* operational_state_bit_distance                *)

(* absorb: state -> symbol -> state, from the state start.  enable_        *)
(* foldback is a parameter of the hash; differing_index counts from 0.     *)
Behind(state, symbols) == FoldLeft(LAMBDA s, b : job.absorb[s][b], state, symbols)

Forward(message) == Behind(job.start, message)

(* The symbols of the foldback, the last byte first.                       *)
Returns(message) ==
  [k \in DOMAIN message |->
     ReturnSymbol(message[Len(message) + 1 - k], Len(message) - k)]

FoldbackFrom(state, message) ==
  IF job.enable_foldback THEN Behind(state, Returns(message)) ELSE state

FoldbackState(message) == FoldbackFrom(Forward(message), message)

PairTools == {"aware", "profile", "dual", "multipath"}

(* The messages of a pair, of three bytes each, differ in one.             *)
OneByteApart(pair) ==
  /\ Len(pair.left) = 3 /\ Len(pair.right) = 3 /\ pair.differing_index \in 1..2
  /\ \A n \in 1..3 : (pair.left[n] # pair.right[n]) <=> n = pair.differing_index + 1

(* Of the tools with a limit on the suffixes, dual_return_alias is taken   *)
(* with a limit of 1 or more: with 0 it counts gates and nothing else.     *)
ASSUME PairJobsAssumption ==
  \A jb \in JobsOf(PairTools) :
    /\ jb.enable_foldback \in BOOLEAN /\ (jb.tool # "aware" => jb.suffixes # <<>>)
    /\ \A pair \in ToSet(jb.pairs) : OneByteApart(pair)

(* A symbol takes a state to a state, and the two messages of a pair to    *)
(* one; no pair is listed twice.  Bytes are symbols.                       *)
PairsOfHash(jb) ==
  LET states  == DOMAIN jb.absorb
      symbols == DOMAIN jb.absorb[jb.start]
      Third(message) == jb.absorb[jb.absorb[jb.absorb[jb.start][message[1]]][message[2]]][message[3]]
  IN  /\ jb.start \in states /\ jb.absorb \in [states -> [symbols -> states]]
      /\ Cardinality(symbols) \in Nat /\ symbols = 0..(Cardinality(symbols) - 1)
      /\ jb.pairs \in Seq([left : Seq(symbols), right : Seq(symbols), differing_index : 1..2])
      /\ \A m, n \in DOMAIN jb.pairs :
           jb.pairs[m].left = jb.pairs[n].left /\ jb.pairs[m].right = jb.pairs[n].right => m = n
      /\ \A pair \in ToSet(jb.pairs) : Third(pair.left) = Third(pair.right)
      /\ jb.suffixes \in Seq(Seq(symbols))

(* The distance of two states counts the bits in which they differ.        *)
TellsApart(states) ==
  \A v, w \in states : StateDistance(v, w) \in Nat /\ (StateDistance(v, w) = 0 <=> v = w)

(* What the foldback derives from a byte is a symbol, and from different   *)
(* bytes something different.                                              *)
ASSUME PairHashesAssumption ==
  \A jb \in JobsOf(PairTools) :
    LET states  == DOMAIN jb.absorb
        symbols == DOMAIN jb.absorb[jb.start]
    IN  /\ PairsOfHash(jb)
        /\ \A b \in symbols, k \in 0..2 : ReturnSymbol(b, k) \in symbols
        /\ \A suffix \in ToSet(jb.suffixes), b \in symbols :
             \A k \in 0..(Len(suffix) + 2) : ReturnSymbol(b, k) \in symbols
        /\ \A b, c \in symbols, k \in 1..2 :
             ReturnSymbol(b, k) = ReturnSymbol(c, k) => b = c
        /\ \A v, w \in states : CubeDistance(v, w) \in Seq(Nat)
        /\ TellsApart(states)
        /\ jb.tool = "dual" => jb.family_surface \in BOOLEAN
        /\ jb.tool = "multipath" => jb.seed_limit \in Nat \ {0} /\ jb.suffix_samples \in Nat

(* One pair after the other, with one suffix after the other.              *)
Cases == Len(job.pairs) * Len(job.suffixes)
PairOf(n) == job.pairs[(n \div Len(job.suffixes)) + 1]
SuffixOf(n) == job.suffixes[(n % Len(job.suffixes)) + 1]
LeftMessage(n) == PairOf(n).left \o SuffixOf(n)
RightMessage(n) == PairOf(n).right \o SuffixOf(n)
CommonState(pair) == Forward(pair.left)

(* The nearer of what is kept and what has come.                           *)
Keep(best, distance, left, right) ==
  IF best = <<>> \/ Before(distance, best[1].distance)
  THEN << [distance |-> distance, left |-> left, right |-> right] >> ELSE best

-----------------------------------------------------------------------------
(* foldback_aware_alias: the state in front of the reverse step at which   *)
(* the messages differ is one for both, and computed once.                 *)

(* Seeded fault: the loop stops a symbol early.                            *)
BeforeDifferenceShort(pair, suffix) ==
  Behind(CommonState(pair),
         suffix \o SubSeq(Returns(pair.left \o suffix), 1,
                          Len(suffix) + 1 - pair.differing_index))

(* apply_common_extension_and_reverse, of the state behind the pair.       *)
BeforeDifference(pair, suffix) ==
  Behind(CommonState(pair),
         suffix \o SubSeq(Returns(pair.left \o suffix), 1,
                          Len(suffix) + 2 - pair.differing_index))

Gate(state, message, index) == job.absorb[state][ReturnSymbol(message[index + 1], index)]

AwareCase ==
  /\ Tool("aware") /\ at < Cases
  /\ \E pair \in {PairOf(at)} :
     \E before \in {BeforeDifference(pair, SuffixOf(at))} :
       LET left   == Gate(before, pair.left, pair.differing_index)
           right  == Gate(before, pair.right, pair.differing_index)
           merged == left = right
       IN  /\ counters' =
                [tested |-> counters.tested + 1,
                 return_transition_merges |-> counters.return_transition_merges + Count(merged),
                 full_foldback_merges |-> counters.full_foldback_merges
                   + Count(merged /\ FoldbackState(LeftMessage(at))
                                       = FoldbackState(RightMessage(at)))]
           /\ outcomes' = Keep(outcomes, CubeDistance(left, right),
                               LeftMessage(at), RightMessage(at))
  /\ at' = at + 1
  /\ UNCHANGED <<job, pc, seen>>

EndAware == Tool("aware") /\ at = Cases /\ Leave("done")

-----------------------------------------------------------------------------
(* foldback_separation_profile: both messages of a pair are folded back    *)
(* side by side; a step is one symbol of each.  at counts the pairs done.  *)

HighestDifferingIndex(pair) ==
  Max({n \in DOMAIN pair.left : pair.left[n] # pair.right[n]}) - 1

FreshPair(n) ==
  LET common == IF n < Len(job.pairs) THEN CommonState(job.pairs[n + 1]) ELSE job.start
  IN  [left |-> common, right |-> common, reverse |-> 3,
       first_divergence_step |-> 0, reconverged |-> FALSE]

(* Seeded fault: a later step takes the place of the first.                *)
LastDivergence(equal_before, equal_after) ==
  IF ~equal_after THEN 4 - seen.reverse ELSE seen.first_divergence_step

(* Counted from the last byte, and only the first.                         *)
FirstDivergence(equal_before, equal_after) ==
  IF equal_before /\ ~equal_after /\ seen.first_divergence_step = 0
  THEN 4 - seen.reverse ELSE seen.first_divergence_step

ReverseStep ==
  /\ Tool("profile") /\ at < Len(job.pairs) /\ seen.reverse > 0
  /\ \E pair \in {job.pairs[at + 1]} :
     LET index  == seen.reverse - 1
         left   == Gate(seen.left, pair.left, index)
         right  == Gate(seen.right, pair.right, index)
         before == seen.left = seen.right
         apart  == ReturnSymbol(pair.left[index + 1], index)
                     # ReturnSymbol(pair.right[index + 1], index)
     IN  /\ seen' = [left |-> left, right |-> right, reverse |-> seen.reverse - 1,
                     first_divergence_step |-> FirstDivergence(before, left = right),
                     reconverged |-> seen.reconverged \/ (~before /\ left = right)]
         /\ counters' = [counters EXCEPT
              !.direct_return_aliases = @ + Count(before /\ apart /\ left = right)]
  /\ UNCHANGED <<job, pc, at, outcomes>>

ProfilePair ==
  /\ Tool("profile") /\ at < Len(job.pairs) /\ seen.reverse = 0
  /\ LET step     == seen.first_divergence_step
         expected == 3 - HighestDifferingIndex(job.pairs[at + 1])
     IN  counters' = [counters EXCEPT
           !.never_diverged = @ + Count(step = 0),
           !.first_divergence_at_expected_step = @ + Count(step # 0 /\ step = expected),
           !.delayed_divergence = @ + Count(step # 0 /\ step # expected),
           !.later_reconvergences = @ + Count(seen.reconverged),
           !.final_merges = @ + Count(seen.left = seen.right)]
  /\ seen' = FreshPair(at + 1)
  /\ at' = at + 1
  /\ UNCHANGED <<job, pc, outcomes>>

EndProfile == Tool("profile") /\ at = Len(job.pairs) /\ Leave("done")

-----------------------------------------------------------------------------
(* dual_return_alias: the return symbols are tried on the common state     *)
(* itself, then each suffix on the foldback.                               *)

AbsDelta(a, b) == IF a > b THEN a - b ELSE b - a

(* find_symbol_aliases                                                     *)
SymbolAliases(state) ==
  {p \in (DOMAIN job.absorb[state]) \X (DOMAIN job.absorb[state]) :
     p[1] < p[2] /\ job.absorb[state][p[1]] = job.absorb[state][p[2]]}

FamilyAliases(state) ==
  {alias \in SymbolAliases(state) : AbsDelta(alias[1], alias[2]) \in job.family_deltas}

(* What comes of a pair before its suffixes; seen.least_return is the      *)
(* least distance behind the return symbols.                               *)
DualGate ==
  /\ Tool("dual") /\ at < Cases /\ at % Len(job.suffixes) = 0 /\ ~seen.gate
  /\ \E pair \in {PairOf(at)} :
     LET left  == Gate(CommonState(pair), pair.left, pair.differing_index)
         right == Gate(CommonState(pair), pair.right, pair.differing_index)
     IN  /\ counters' = [counters EXCEPT
              !.return_gate_cases = @ + 1,
              !.direct_return_merges = @ + Count(left = right)]
         /\ seen' = [gate |-> TRUE,
                     least_return |-> Keep(seen.least_return, <<StateDistance(left, right)>>,
                                           pair.left, pair.right)]
  /\ UNCHANGED <<job, pc, at, outcomes>>

(* One suffix, and behind the last one of a pair the family surface.       *)
DualCase ==
  /\ Tool("dual") /\ at < Cases /\ (at % Len(job.suffixes) = 0 => seen.gate)
  /\ \E left \in {FoldbackState(LeftMessage(at))} :
     \E right \in {FoldbackState(RightMessage(at))} :
     LET surface == job.family_surface /\ (at + 1) % Len(job.suffixes) = 0
         aliases == IF surface THEN FamilyAliases(CommonState(PairOf(at))) ELSE {}
     IN  /\ counters' = [counters EXCEPT
              !.full_foldback_merges = @ + Count(left = right),
              !.family_surface_contexts = @ + Count(surface),
              !.family_surface_alias_contexts = @ + Count(aliases # {}),
              !.family_surface_alias_pairs = @ + Cardinality(aliases)]
         /\ outcomes' = Keep(outcomes, <<StateDistance(left, right)>>, <<>>, <<>>)
  /\ seen' = [seen EXCEPT !.gate = FALSE]
  /\ at' = at + 1
  /\ UNCHANGED <<job, pc>>

EndDual == Tool("dual") /\ at = Cases /\ Leave("done")

-----------------------------------------------------------------------------
(* multipath_foldback_sample: each pair as it is, then with a sample of    *)
(* suffixes.  With suffix_bytes = 0 the one suffix is empty, and the pair  *)
(* counts again.  seen.taken is -1 while the pair itself is still to come, *)
(* then the number of suffixes; seen.least is the best of the seed.        *)

Seeds == Min({job.seed_limit, Len(job.pairs)})

SeedPair == job.pairs[at + 1]

Fold(left, right) ==
  [merged |-> FoldbackState(left) = FoldbackState(right),
   distance |-> StateDistance(FoldbackState(left), FoldbackState(right))]

Bare ==
  /\ Tool("multipath") /\ at < Seeds /\ seen.taken = -1
  /\ \E folded \in {Fold(SeedPair.left, SeedPair.right)} :
       /\ counters' = [exact_merges |-> counters.exact_merges + Count(folded.merged)]
       /\ seen' = [taken |-> 0, sampled |-> seen.sampled \cup {<<SeedPair.left, SeedPair.right>>},
                   least |-> Keep(<<>>, <<folded.distance>>, SeedPair.left, SeedPair.right)]
  /\ UNCHANGED <<job, pc, at, outcomes>>

Sample ==
  /\ Tool("multipath") /\ at < Seeds /\ seen.taken \in 0..(job.suffix_samples - 1)
  /\ \E suffix \in ToSet(job.suffixes) :
     LET left  == SeedPair.left \o suffix
         right == SeedPair.right \o suffix
     IN  \E folded \in {Fold(left, right)} :
           /\ counters' = [exact_merges |-> counters.exact_merges + Count(folded.merged)]
           /\ seen' = [taken |-> seen.taken + 1, sampled |-> seen.sampled \cup {<<left, right>>},
                       least |-> Keep(seen.least, <<folded.distance>>, left, right)]
  /\ UNCHANGED <<job, pc, at, outcomes>>

EndSeed ==
  /\ Tool("multipath") /\ at < Seeds /\ seen.taken = job.suffix_samples
  /\ outcomes' = Keep(outcomes, seen.least[1].distance, seen.least[1].left, seen.least[1].right)
  /\ seen' = [seen EXCEPT !.taken = -1, !.least = <<>>]
  /\ at' = at + 1
  /\ UNCHANGED <<job, pc, counters>>

EndMultipath == Tool("multipath") /\ at = Seeds /\ Leave("done")

-----------------------------------------------------------------------------
PairInit ==
  /\ job \in JobsOf(PairTools)
  /\ CASE job.tool = "aware" ->
            Start(<<>>, [tested |-> 0, return_transition_merges |-> 0, full_foldback_merges |-> 0])
       [] job.tool = "profile" ->
            Start(FreshPair(0),
                  [direct_return_aliases |-> 0, never_diverged |-> 0,
                   first_divergence_at_expected_step |-> 0, delayed_divergence |-> 0,
                   later_reconvergences |-> 0, final_merges |-> 0])
       [] job.tool = "dual" ->
            Start([gate |-> FALSE, least_return |-> <<>>],
                  [return_gate_cases |-> 0, direct_return_merges |-> 0,
                   full_foldback_merges |-> 0, family_surface_contexts |-> 0,
                   family_surface_alias_contexts |-> 0, family_surface_alias_pairs |-> 0])
       [] job.tool = "multipath" ->
            Start([taken |-> -1, sampled |-> {}, least |-> <<>>], [exact_merges |-> 0])

PairNext ==
  \/ AwareCase \/ EndAware
  \/ ReverseStep \/ ProfilePair \/ EndProfile
  \/ DualGate \/ DualCase \/ EndDual
  \/ Bare \/ Sample \/ EndSeed \/ EndMultipath

PairSpec == PairInit /\ [][PairNext]_vars

PairExitCode ==
  CASE job.tool = "aware"     -> Count(counters.full_foldback_merges # 0)
    [] job.tool = "profile"   -> Count(counters.final_merges # 0)
    [] job.tool = "dual"      -> Count(counters.full_foldback_merges # 0
                                         \/ counters.direct_return_merges # 0)
    [] job.tool = "multipath" -> Count(counters.exact_merges # 0)

-----------------------------------------------------------------------------
(* The state of a message once its bytes down to an index are folded back. *)
ReturnedTo(message, index) ==
  Behind(Forward(message), SubSeq(Returns(message), 1, Len(message) - index))

FoldedTogether == {n \in 0..(at - 1) : FoldbackState(LeftMessage(n)) = FoldbackState(RightMessage(n))}

(* The state computed once for both messages is that of each: what merges  *)
(* behind it is all that merges at the byte in which the messages differ,  *)
(* and all of it stays merged to the end of the foldback, so that the      *)
(* second count is the first, and no merge is reported that is not one.    *)
AwareExact ==
  job.tool = "aware" =>
    LET At(message, n) == ReturnedTo(message, PairOf(n).differing_index)
        gates == {n \in 0..(at - 1) : At(LeftMessage(n), n) = At(RightMessage(n), n)}
    IN  /\ counters.tested = at
        /\ counters.return_transition_merges = Cardinality(gates)
        /\ counters.full_foldback_merges = counters.return_transition_merges
        /\ PairExitCode = 1 => FoldedTogether # {}
        /\ \A n \in 0..(at - 1) :
             ~Before(CubeDistance(At(LeftMessage(n), n), At(RightMessage(n), n)),
                     outcomes[1].distance)

(* The messages of a pair differ in one byte: they diverge where that byte *)
(* is folded back, or not at all and then by a direct alias, and once they *)
(* meet again they stay together.  No divergence is ever delayed.          *)
ProfileExact ==
  job.tool = "profile" =>
    /\ counters.delayed_divergence = 0
    /\ counters.never_diverged + counters.first_divergence_at_expected_step = at
    /\ seen.reverse = 3 =>
         /\ counters.direct_return_aliases = counters.never_diverged
         /\ counters.final_merges = counters.never_diverged + counters.later_reconvergences
         /\ counters.final_merges
              = Cardinality({n \in 1..at : ReturnedTo(job.pairs[n].left, 0)
                                             = ReturnedTo(job.pairs[n].right, 0)})

(* Every merge behind the foldback counts; one on the common state itself  *)
(* is an alias of that state, and where the last byte is the one that      *)
(* differs it is a merge behind the foldback, too.                         *)
DualExact ==
  job.tool = "dual" =>
    LET entered == {n \in 0..(Cases - 1) :
                      n % Len(job.suffixes) = 0 /\ (n < at \/ (n = at /\ seen.gate))}
        direct  == {n \in entered : Gate(CommonState(PairOf(n)), PairOf(n).left, PairOf(n).differing_index)
                                       = Gate(CommonState(PairOf(n)), PairOf(n).right, PairOf(n).differing_index)}
    IN  /\ counters.full_foldback_merges = Cardinality(FoldedTogether)
        /\ counters.direct_return_merges = Cardinality(direct)
        /\ direct # {} <=> seen.least_return # <<>> /\ seen.least_return[1].distance = <<0>>
        /\ job.suffixes[1] = <<>> =>
             {n \in direct : n < at /\ PairOf(n).differing_index = 2} \subseteq FoldedTogether
        /\ counters.family_surface_contexts = IF job.family_surface THEN at \div Len(job.suffixes) ELSE 0
        /\ pc = "done" /\ job.family_surface
             /\ job.family_deltas = 1..(Cardinality(DOMAIN job.absorb[job.start]) - 1) =>
             counters.direct_return_merges <= counters.family_surface_alias_contexts
        /\ counters.family_surface_alias_contexts <= counters.family_surface_alias_pairs

(* The sample ends with code 1 just when two messages it tried agree, and  *)
(* its least distance is that of what it tried; without suffixes every     *)
(* merge has been counted twice.                                           *)
MultipathExact ==
  job.tool = "multipath" =>
    LET merged == {m \in seen.sampled : FoldbackState(m[1]) = FoldbackState(m[2])}
    IN  /\ PairExitCode = 1 <=> merged # {}
        /\ pc = "done" /\ Seeds > 0 =>
             /\ <<outcomes[1].left, outcomes[1].right>> \in seen.sampled
             /\ \A m \in seen.sampled :
                  outcomes[1].distance[1] <= StateDistance(FoldbackState(m[1]), FoldbackState(m[2]))
        /\ job.suffixes = <<<<>>>> /\ job.suffix_samples = 1 /\ seen.taken = -1 =>
             counters.exact_merges = 2 * Cardinality(merged)

(* Where the foldback separates messages and where it does not, as told by *)
(* the counters and the exit codes of four tools.                          *)
SeparationExact == AwareExact /\ ProfileExact /\ DualExact /\ MultipathExact

=============================================================================
