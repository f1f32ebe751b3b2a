------------------------------- MODULE Probe --------------------------------
(***************************************************************************)
(* tools/multicollision_probe.cpp: from the pairs of three-byte messages   *)
(* with one forward state (seeds) it goes on by symbol aliases; it looks   *)
(* at the four messages behind each seed and each alias, and writes out    *)
(* the messages of the longest chain of aliases.                           *)
(*                                                                         *)
(* A seed is one step, and so are a suffix of a branch and the report.     *)
(***************************************************************************)
EXTENDS FoldbackPairs

(* max_levels; suffixes: those of the domain; digest as in PrefixPair.     *)
ASSUME ProbeJobsAssumption ==
  \A jb \in JobsOf({"probe"}) :
    /\ jb.max_levels \in 1..8 /\ jb.enable_foldback \in BOOLEAN
    /\ DOMAIN jb.digest = DOMAIN jb.absorb
    /\ PairsOfHash(jb) /\ \A pair \in ToSet(jb.pairs) : OneByteApart(pair)

(* Seeded fault: the outer loop is over the first symbol.                  *)
AliasLessByFirst(a, b) == a[1] < b[1] \/ (a[1] = b[1] /\ a[2] < b[2])

(* The outer loop of find_symbol_aliases is over the second symbol, and    *)
(* the first symbols it has met come in their order.                       *)
AliasLess(a, b) == a[2] < b[2] \/ (a[2] = b[2] /\ a[1] < b[1])

AliasesOf(state) == InOrder(SymbolAliases(state), AliasLess)

(* The state both symbols of an alias lead to.                             *)
AliasState(state, alias) == job.absorb[state][alias[1]]

(* longest_path: the first of the longest chains of aliases from a state,  *)
(* remaining long at the most; tails holds them, one shorter, by state.    *)
PathsFrom(state, tails) ==
  [n \in DOMAIN AliasesOf(state) |->
     <<AliasesOf(state)[n]>> \o tails[AliasState(state, AliasesOf(state)[n])]]

FirstLongest(paths) ==
  IF paths = <<>> THEN <<>>
  ELSE paths[Min({n \in DOMAIN paths :
                    \A m \in DOMAIN paths : Len(paths[m]) <= Len(paths[n])})]

LongestPath[remaining \in 0..7] ==
  [state \in DOMAIN job.absorb |->
     IF remaining = 0 THEN <<>>
     ELSE FirstLongest(PathsFrom(state, LongestPath[remaining - 1]))]

(* Seeded fault: the second prefix is given the first symbol twice.        *)
BranchMessagesTwice(seed, alias, suffix) ==
  << seed.left \o <<alias[1]>> \o suffix, seed.left \o <<alias[2]>> \o suffix,
     seed.right \o <<alias[1]>> \o suffix, seed.right \o <<alias[1]>> \o suffix >>

BranchMessages(seed, alias, suffix) ==
  << seed.left \o <<alias[1]>> \o suffix, seed.left \o <<alias[2]>> \o suffix,
     seed.right \o <<alias[1]>> \o suffix, seed.right \o <<alias[2]>> \o suffix >>

DigestOf(message) == job.digest[FoldbackState(message)]

UniqueFoldbackStates(messages) == Cardinality({FoldbackState(m) : m \in ToSet(messages)})
UniqueDigests(messages) == Cardinality({DigestOf(m) : m \in ToSet(messages)})

-----------------------------------------------------------------------------
(* seen.branches: seed index and alias; best_path, best_seed_index.        *)
SeedStep ==
  /\ Tool("probe") /\ seen.stage = "seeds" /\ at < Len(job.pairs)
  /\ LET common  == CommonState(job.pairs[at + 1])
         path    == LongestPath[job.max_levels - 1][common]
         longer  == Len(path) > Len(seen.best_path)
     IN  seen' = [seen EXCEPT
           !.branches = @ \o [n \in DOMAIN AliasesOf(common) |-> <<at, AliasesOf(common)[n]>>],
           !.best_path = IF longer THEN path ELSE @,
           !.best_seed_index = IF longer THEN at ELSE @]
  /\ at' = at + 1
  /\ UNCHANGED <<job, pc, counters, outcomes>>

EndSeeds ==
  /\ Tool("probe") /\ seen.stage = "seeds" /\ at = Len(job.pairs)
  /\ seen' = [seen EXCEPT !.stage = "branches"]
  /\ at' = 0
  /\ UNCHANGED <<job, pc, counters, outcomes>>

Extensions == Len(seen.branches) * Len(job.suffixes)

MessagesOf(n) ==
  LET branch == seen.branches[(n \div Len(job.suffixes)) + 1]
  IN  BranchMessages(job.pairs[branch[1] + 1], branch[2], SuffixOf(n))

(* The closest two of the four messages, the first pair of them.           *)
ClosestOf(best, messages) ==
  LET cube(m, n) == CubeDistance(FoldbackState(messages[m]), FoldbackState(messages[n]))[1]
      pairs == {p \in (DOMAIN messages) \X (DOMAIN messages) : p[1] < p[2]}
      least == {p \in pairs : \A q \in pairs : cube(p[1], p[2]) <= cube(q[1], q[2])}
      first == CHOOSE p \in least : \A q \in least : p = q \/ Before(p, q)
  IN  Keep(best, <<cube(first[1], first[2])>>, messages[first[1]], messages[first[2]])

Extension ==
  /\ Tool("probe") /\ seen.stage = "branches" /\ at < Extensions
  /\ \E messages \in {MessagesOf(at)} :
       /\ counters' = [counters EXCEPT
            !.extension_cases = @ + 1,
            !.foldback_collision_cases = @ + Count(UniqueFoldbackStates(messages) # 4),
            !.digest_collision_cases = @ + Count(UniqueDigests(messages) # 4)]
       /\ outcomes' = ClosestOf(outcomes, messages)
  /\ at' = at + 1
  /\ UNCHANGED <<job, pc, seen>>

(* The messages of the best path, doubled alias by alias, and the state    *)
(* they should all have.                                                   *)
Doubled(messages, alias) ==
  FlattenSeq([n \in DOMAIN messages |->
                <<Append(messages[n], alias[1]), Append(messages[n], alias[2])>>])

Constructed[n \in 0..Len(seen.best_path)] ==
  LET seed == job.pairs[seen.best_seed_index + 1]
  IN  IF n = 0 THEN [messages |-> <<seed.left, seed.right>>, state |-> CommonState(seed)]
      ELSE [messages |-> Doubled(Constructed[n - 1].messages, seen.best_path[n]),
            state    |-> AliasState(Constructed[n - 1].state, seen.best_path[n])]

(* What is printed at the end; counters.seeds_with_next_symbol_alias is    *)
(* the number of branches, as in the tool.                                 *)
Report ==
  /\ Tool("probe") /\ seen.stage = "branches" /\ at = Extensions
  /\ pc' = "done"
  /\ counters' = [counters EXCEPT
       !.seeds_with_next_symbol_alias = Len(seen.branches),
       !.maximum_collision_levels = 1 + Len(seen.best_path)]
  /\ seen' = IF job.pairs = <<>> THEN seen
             ELSE [seen EXCEPT !.constructed = Constructed[Len(seen.best_path)].messages,
                               !.forward_equal =
                                  \A m \in ToSet(Constructed[Len(seen.best_path)].messages) :
                                    Forward(m) = Constructed[Len(seen.best_path)].state]
  /\ UNCHANGED <<job, at, outcomes>>

ProbeInit ==
  /\ job \in JobsOf({"probe"})
  /\ Start([stage |-> "seeds", branches |-> <<>>, best_path |-> <<>>, best_seed_index |-> 0,
            constructed |-> <<>>, forward_equal |-> TRUE],
           [extension_cases |-> 0, foldback_collision_cases |-> 0, digest_collision_cases |-> 0,
            seeds_with_next_symbol_alias |-> 0, maximum_collision_levels |-> 0])

ProbeNext == SeedStep \/ EndSeeds \/ Extension \/ Report

ProbeSpec == ProbeInit /\ [][ProbeNext]_vars

-----------------------------------------------------------------------------
(* A chain of aliases from a state: each begins where the one before ends. *)
Chain(state, path) ==
  \A n \in DOMAIN path :
    path[n] \in SymbolAliases(Behind(state, [m \in 1..(n - 1) |-> path[m][1]]))

(* The four messages of a branch have one forward state and are different  *)
(* messages, so that each case counted is a real collision, and no case    *)
(* has more digests than states; the messages written out are 2^levels     *)
(* different ones with one forward state, and no chain of aliases behind   *)
(* any seed is longer than theirs.                                         *)
ProbeExact ==
  job.tool = "probe" /\ seen.stage = "branches" =>
    /\ \A n \in 0..(at - 1) :
         /\ Cardinality(ToSet(MessagesOf(n))) = 4
         /\ Cardinality({Forward(m) : m \in ToSet(MessagesOf(n))}) = 1
    /\ counters.extension_cases = at
    /\ counters.foldback_collision_cases <= counters.digest_collision_cases
    /\ counters.foldback_collision_cases
         = Cardinality({n \in 0..(at - 1) :
             \E a, b \in ToSet(MessagesOf(n)) : a # b /\ FoldbackState(a) = FoldbackState(b)})
    /\ job.pairs # <<>> =>
         Chain(CommonState(job.pairs[seen.best_seed_index + 1]), seen.best_path)
    /\ pc = "done" /\ job.pairs # <<>> =>
         /\ seen.forward_equal
         /\ Cardinality(ToSet(seen.constructed)) = 2 ^ counters.maximum_collision_levels
         /\ Len(seen.best_path) < job.max_levels - 1 =>
              \A pair \in ToSet(job.pairs) :
                ~\E path \in [1..(Len(seen.best_path) + 1)
                               -> (DOMAIN job.absorb[job.start]) \X (DOMAIN job.absorb[job.start])] :
                   Chain(CommonState(pair), path)

(* Which of two chains of one length the loops meet first: at the first    *)
(* alias in which they differ, the one whose second symbol comes earlier,  *)
(* and with the same second symbol the one with the earlier first symbol.  *)
MetBefore(path, other) ==
  \E n \in DOMAIN path :
    /\ \A m \in 1..(n - 1) : path[m] = other[m]
    /\ path[n][2] <= other[n][2]
    /\ path[n][2] = other[n][2] => path[n][1] < other[n][1]

(* The chain written out is the first of its length: no seed before its    *)
(* own has a chain as long, and of the chains as long behind its own seed  *)
(* it is the one that the nested loops, each over all symbols and with a   *)
(* search of its own behind every alias, meet first.                       *)
FirstChain ==
  job.tool = "probe" /\ pc = "done" /\ job.pairs # <<>> =>
    \A n \in 0..seen.best_seed_index,
       path \in [1..Len(seen.best_path)
                  -> (DOMAIN job.absorb[job.start]) \X (DOMAIN job.absorb[job.start])] :
      Chain(CommonState(job.pairs[n + 1]), path) =>
        n = seen.best_seed_index /\ ~MetBefore(path, seen.best_path)

=============================================================================
