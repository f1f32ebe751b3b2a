------------------------ MODULE SuffixCatalogProofs ------------------------
(***************************************************************************)
(* The catalogue of independent suffixes is a run of the worker pool, and  *)
(* the sums the caller makes of the threads' counters are those of the     *)
(* pairs: for every hash, every catalogue and every number of threads.     *)
(***************************************************************************)
EXTENDS SuffixCatalog, PoolProofs, InductionTheorems, SequenceTheorems

(* There is at least one thread, and never more than the pool has room     *)
(* for.                                                                    *)
LEMMA ThreadCountType ==
  ASSUME request \in Requests, Len(pairs) \in Nat
  PROVE  ThreadCount \in 1..MaxThreads
  <1>. DEFINE wanted == IF request.thread_count = 0 THEN Max({1, Hardware})
                        ELSE request.thread_count
              useful == Max({1, Len(pairs)})
  <1>1. /\ request.thread_count \in Nat /\ request.thread_count <= MaxThreads
        /\ Hardware \in Nat /\ Hardware <= MaxThreads /\ MaxThreads \in Nat \ {0}
    BY RequestsAssumption, HardwareAssumption, ThreadsAssumption, MaxThreadsAssumption
  <1>2. Max({1, Hardware}) \in {1, Hardware} /\ Max({1, Hardware}) >= 1
    <2>1. 1 \in Int /\ Hardware \in Int
      BY <1>1
    <2>. QED
      BY <2>1, MaxOfTwo, Zenon
  <1>3. wanted \in 1..MaxThreads
    BY <1>1, <1>2
  <1>4. useful \in Int /\ useful >= 1
    <2>1. 1 \in Int /\ Len(pairs) \in Int
      OBVIOUS
    <2>2. useful \in {1, Len(pairs)} /\ useful >= 1
      BY <2>1, MaxOfTwo, Zenon
    <2>. QED
      BY <2>1, <2>2
  <1>5. ThreadCount = Min({wanted, useful})
    BY DEF ThreadCount
  <1>. HIDE DEF wanted, useful
  <1>6. Min({wanted, useful}) \in {wanted, useful} /\ Min({wanted, useful}) <= wanted
    <2>1. wanted \in Int /\ useful \in Int
      BY <1>3, <1>4
    <2>. QED
      BY <2>1, MinOfTwo, Zenon
  <1>. QED
    BY <1>1, <1>3, <1>4, <1>5, <1>6

LEMMA AliasesAreFinite ==
  ASSUME request \in Requests
  PROVE  IsFiniteSet(LocalAliases(hash, request) \cup InheritedAliases(hash, request))
  <1>1. IsFiniteSet(Symbols) /\ IsFiniteSet(PrefixNumbers)
    BY LastSymbolAssumption, AllPrefixesAssumption, FS_Interval DEF Symbols, PrefixNumbers
  <1>2. IsFiniteSet(Enumerated(request)) /\ IsFiniteSet(SymbolPairs)
    <2>1. IsFiniteSet(Symbols \X Symbols)
      BY <1>1, FS_Product
    <2>. QED
      BY <1>1, <2>1, FS_Subset DEF Enumerated, SymbolPairs
  <1>3. IsFiniteSet(LocalAliases(hash, request))
    <2>. DEFINE made == [p \in Enumerated(request) \X SymbolPairs |->
                           [left |-> <<p[1], p[2][1]>>, right |-> <<p[1], p[2][2]>>]]
                all == {made[p] : p \in Enumerated(request) \X SymbolPairs}
    <2>1. IsFiniteSet(Enumerated(request) \X SymbolPairs)
      BY <1>2, FS_Product
    <2>2. made \in Surjection(Enumerated(request) \X SymbolPairs, all)
      BY DEF Surjection
    <2>3. IsFiniteSet(all)
      <3>. HIDE DEF made, all
      <3>. QED
        BY <2>1, <2>2, FS_Surjection
    <2>4. LocalAliases(hash, request) \subseteq all
      <3>. SUFFICES ASSUME NEW p \in Enumerated(request), NEW m \in SymbolPairs
                    PROVE  [left |-> <<p, m[1]>>, right |-> <<p, m[2]>>] \in all
        <4>. HIDE DEF all
        <4>. QED
          BY DEF LocalAliases
      <3>1. <<p, m>> \in Enumerated(request) \X SymbolPairs
        OBVIOUS
      <3>2. made[<<p, m>>] = [left |-> <<p, m[1]>>, right |-> <<p, m[2]>>]
        BY <3>1
      <3>3. made[<<p, m>>] \in all
        BY <3>1
      <3>. QED
        BY <3>2, <3>3
    <2>. HIDE DEF all
    <2>. QED
      BY <2>3, <2>4, FS_Subset
  <1>4. IsFiniteSet(InheritedAliases(hash, request))
    <2>. DEFINE made == [p \in (DOMAIN KnownBases) \X Symbols |->
                           [left |-> <<KnownBases[p[1]][1], p[2]>>,
                            right |-> <<KnownBases[p[1]][2], p[2]>>]]
                all == {made[p] : p \in (DOMAIN KnownBases) \X Symbols}
    <2>1. IsFiniteSet(DOMAIN KnownBases)
      <3>1. DOMAIN KnownBases = 1..Len(KnownBases) /\ Len(KnownBases) \in Nat
        BY KnownBasesAssumption, LenProperties
      <3>. QED
        BY <3>1, FS_Interval
    <2>2. IsFiniteSet((DOMAIN KnownBases) \X Symbols)
      BY <1>1, <2>1, FS_Product
    <2>3. made \in Surjection((DOMAIN KnownBases) \X Symbols, all)
      BY DEF Surjection
    <2>4. IsFiniteSet(all)
      <3>. HIDE DEF made, all
      <3>. QED
        BY <2>2, <2>3, FS_Surjection
    <2>5. InheritedAliases(hash, request) \subseteq all
      <3>. SUFFICES ASSUME NEW base \in ToSet(KnownBases), NEW third \in Symbols
                    PROVE  [left |-> <<base[1], third>>, right |-> <<base[2], third>>] \in all
        <4>. HIDE DEF all
        <4>. QED
          BY DEF InheritedAliases
      <3>1. PICK n \in DOMAIN KnownBases : KnownBases[n] = base
        BY DEF ToSet
      <3>2. <<n, third>> \in (DOMAIN KnownBases) \X Symbols
        OBVIOUS
      <3>3. made[<<n, third>>] = [left |-> <<base[1], third>>, right |-> <<base[2], third>>]
        BY <3>1, <3>2
      <3>4. made[<<n, third>>] \in all
        BY <3>2
      <3>. QED
        BY <3>3, <3>4
    <2>. HIDE DEF all
    <2>. QED
      BY <2>4, <2>5, FS_Subset
  <1>. QED
    BY <1>3, <1>4, FS_Union

LEMMA InitIsPoolInit == Init => PoolInit /\ DOMAIN pairs = 1..Len(pairs)
  <1>. SUFFICES ASSUME Init PROVE PoolInit /\ DOMAIN pairs = 1..Len(pairs)
    OBVIOUS
  <1>. DEFINE all == LocalAliases(hash, request) \cup InheritedAliases(hash, request)
              values == {pairs[n] : n \in DOMAIN pairs}
  <1>1. request \in Requests
    BY DEF Init
  <1>2. Cardinality(all) \in Nat
    BY <1>1, AliasesAreFinite, FS_CardinalityType
  <1>3. DOMAIN pairs = 1..Cardinality(all) /\ pairs = [n \in DOMAIN pairs |-> pairs[n]]
    <2>. DEFINE Place(x) == Cardinality({y \in all : PairBefore(y, x)})
                Nth(n) == CHOOSE x \in all : Place(x) = n - 1
    <2>1. pairs = InOrder(all, PairBefore)
      BY DEF Init, Catalogue
    <2>. HIDE DEF all
    <2>2. pairs = [n \in 1..Cardinality(all) |-> Nth(n)]
      BY <2>1, Zenon DEF InOrder
    <2>. HIDE DEF Nth
    <2>. QED
      BY <2>2
  <1>4. pairs \in Seq(values)
    <2>1. pairs \in [1..Cardinality(all) -> values]
      BY <1>3
    <2>. HIDE DEF all, values
    <2>. QED
      BY <1>2, <2>1, SeqDef
  <1>5. Len(pairs) \in Nat /\ DOMAIN pairs = 1..Len(pairs)
    <2>. HIDE DEF values
    <2>. QED
      BY <1>4, LenProperties
  <1>6. ThreadCount \in 1..MaxThreads
    BY <1>1, <1>5, ThreadCountType
  <1>. QED
    BY <1>5, <1>6 DEF Init, PoolInit

LEMMA NextIsPoolNext == [Next]_vars => [PoolNext]_poolVars
  <1>. SUFFICES ASSUME [Next]_vars PROVE [PoolNext]_poolVars
    OBVIOUS
  <1>1. CASE Caller
    BY <1>1 DEF Caller, Total, PoolNext
  <1>2. ASSUME NEW w \in Workers, Thread(w) PROVE PoolNext
    BY <1>2 DEF Thread, Work, PoolNext
  <1>3. CASE UNCHANGED vars
    BY <1>3 DEF vars
  <1>. QED
    BY <1>1, <1>2, <1>3 DEF Next, Reported

(* The search implements the pool: what the pool promises for any work, it *)
(* keeps.                                                                  *)
THEOREM SuffixesImplementPool == Spec => PoolSpec
  <1>1. Init => PoolInit
    BY InitIsPoolInit
  <1>. QED
    BY <1>1, NextIsPoolNext, PTL DEF Spec, PoolSpec

(* No pair is searched by two threads, and behind the last join every pair *)
(* has been searched and no thread counts any more.                        *)
THEOREM PairsAreSearchedOnce == Spec => [](EachItemOnce /\ AllDoneWhenOver)
  BY SuffixesImplementPool, ItemsAreClaimedOnce, NothingIsLeftBehind, PTL

-----------------------------------------------------------------------------
(* The operator that adds up, by what it returns.                          *)

(* The values of one counter.                                              *)
Of(count, set, field) == [x \in set |-> count[x][field]]

(* Counters added to others.                                               *)
Added(more, sum) == [field \in Fields |-> more[field] + sum[field]]

LEMMA SumByField ==
  ASSUME NEW S, IsFiniteSet(S), NEW count, \A x \in S : \A f \in Fields : count[x][f] \in Int
  PROVE  /\ SumOf(S, count) = [field \in Fields |-> SumOver(Of(count, S, field), S)]
         /\ \A field \in Fields : SumOver(Of(count, S, field), S) \in Int
  <1>. SUFFICES ASSUME NEW field \in Fields
                PROVE  /\ MapThenSumSet(LAMBDA x : count[x][field], S)
                            = SumOver(Of(count, S, field), S)
                       /\ SumOver(Of(count, S, field), S) \in Int
    BY Zenon DEF SumOf
  <1>. DEFINE values == Of(count, S, field)
              Adds(h) == h = [s \in SUBSET S |->
                                    IF s = {} THEN 0
                                    ELSE count[Some(s)][field] + h[s \ {Some(s)}]]
              iter == CHOOSE h : Adds(h)
  <1>1. \A x \in S : values[x] = count[x][field] /\ values[x] \in Int
    BY DEF Of
  <1>. HIDE DEF values
  <1>2. PICK g \in [SUBSET S -> Int] : Sums(g, values, S)
    BY <1>1, SumsExist
  <1>3. \A s \in (SUBSET S) \ {{}} : Some(s) \in S
    BY SomeIsMember
  <1>4. Adds(g)
    <2>1. \A s \in SUBSET S :
            g[s] = IF s = {} THEN 0 ELSE count[Some(s)][field] + g[s \ {Some(s)}]
      BY <1>1, <1>2, <1>3 DEF Sums
    <2>. QED
      BY <1>2, <2>1
  <1>5. Adds(iter)
    BY <1>4, Zenon
  <1>6. MapThenSumSet(LAMBDA x : count[x][field], S) = iter[S]
    BY Zenon DEF MapThenSumSet, MapThenFoldSet, Some
  <1>. HIDE DEF iter
  <1>7. Sums(iter, values, S)
    <2>1. \A s \in SUBSET S :
            iter[s] = IF s = {} THEN 0 ELSE count[Some(s)][field] + iter[s \ {Some(s)}]
      BY <1>5
    <2>. QED
      BY <1>1, <1>3, <2>1 DEF Sums
  <1>8. SumOver(values, S) = iter[S] /\ iter[S] \in Int
    BY <1>1, <1>7, SumIs
  <1>. QED
    BY <1>6, <1>8 DEF values

(* One more member adds its counters.                                      *)
LEMMA SumOfOneMore ==
  ASSUME NEW S, IsFiniteSet(S), NEW z, z \notin S, NEW count,
         \A x \in S \cup {z} : \A f \in Fields : count[x][f] \in Int
  PROVE  SumOf(S \cup {z}, count) = Added(count[z], SumOf(S, count))
  <1>. DEFINE more == S \cup {z}
  <1>1. IsFiniteSet(more)
    BY FS_AddElement
  <1>2. \A field \in Fields :
          SumOver(Of(count, more, field), more)
            = count[z][field] + SumOver(Of(count, S, field), S)
    <2>. SUFFICES ASSUME NEW field \in Fields
                  PROVE  SumOver(Of(count, more, field), more)
                           = count[z][field] + SumOver(Of(count, S, field), S)
      OBVIOUS
    <2>. DEFINE values == Of(count, more, field)
                fewer == Of(count, S, field)
    <2>1. /\ \A x \in S \cup {z} : values[x] \in Int /\ values[x] = count[x][field]
          /\ \A x \in S : fewer[x] \in Int /\ fewer[x] = values[x]
      BY DEF Of
    <2>. HIDE DEF values, fewer
    <2>2. SumOver(values, S \cup {z}) = values[z] + SumOver(values, S)
      BY <2>1, SumTakesIn
    <2>3. SumOver(fewer, S) = SumOver(values, S)
      BY <2>1, SameSum
    <2>. QED
      BY <2>1, <2>2, <2>3 DEF values, fewer
  <1>3. SumOf(more, count) = [field \in Fields |-> SumOver(Of(count, more, field), more)]
    BY <1>1, SumByField
  <1>4. SumOf(S, count) = [field \in Fields |-> SumOver(Of(count, S, field), S)]
    BY SumByField
  <1>. QED
    BY <1>2, <1>3, <1>4 DEF Added

(* Raising the counters of one member raises the sums by as much.          *)
LEMMA SumOfRaised ==
  ASSUME NEW S, IsFiniteSet(S), NEW count, NEW raised, NEW z \in S, NEW d,
         \A x \in S : \A f \in Fields : count[x][f] \in Int,
         \A f \in Fields : d[f] \in Int /\ raised[z][f] = count[z][f] + d[f],
         \A x \in S \ {z} : raised[x] = count[x]
  PROVE  SumOf(S, raised) = Added(d, SumOf(S, count))
  <1>1. \A x \in S : \A f \in Fields : raised[x][f] \in Int
    <2>. SUFFICES ASSUME NEW x \in S, NEW f \in Fields PROVE raised[x][f] \in Int
      OBVIOUS
    <2>1. CASE x = z
      <3>1. count[z][f] \in Int /\ d[f] \in Int /\ raised[z][f] = count[z][f] + d[f]
        OBVIOUS
      <3>. QED
        BY <2>1, <3>1
    <2>2. CASE x # z
      BY <2>2
    <2>. QED
      BY <2>1, <2>2
  <1>2. \A field \in Fields :
          SumOver(Of(raised, S, field), S) = d[field] + SumOver(Of(count, S, field), S)
    <2>. SUFFICES ASSUME NEW field \in Fields
                  PROVE  SumOver(Of(raised, S, field), S)
                           = d[field] + SumOver(Of(count, S, field), S)
      OBVIOUS
    <2>. DEFINE new == Of(raised, S, field)
                old == Of(count, S, field)
                more == d[field]
    <2>1. /\ \A x \in S : old[x] \in Int
          /\ new[z] = old[z] + more /\ more \in Int
          /\ \A x \in S \ {z} : new[x] = old[x]
      BY DEF Of
    <2>2. SumOver(old, S) \in Int
      BY SumByField
    <2>. HIDE DEF new, old, more
    <2>3. SumOver(new, S) = SumOver(old, S) + more
      BY <2>1, SumRaised
    <2>4. SumOver(new, S) = more + SumOver(old, S)
      BY <2>1, <2>2, <2>3
    <2>. QED
      BY <2>4 DEF new, old, more
  <1>3. SumOf(S, raised) = [field \in Fields |-> SumOver(Of(raised, S, field), S)]
    BY <1>1, SumByField
  <1>4. SumOf(S, count) = [field \in Fields |-> SumOver(Of(count, S, field), S)]
    BY SumByField
  <1>. QED
    BY <1>2, <1>3, <1>4 DEF Added

(* Members that count nothing may be left out.                             *)
LEMMA SumOfCounting ==
  ASSUME NEW S, IsFiniteSet(S), NEW R \in SUBSET S, NEW count,
         \A x \in S : \A f \in Fields : count[x][f] \in Int,
         \A x \in S \ R : \A f \in Fields : count[x][f] = 0
  PROVE  SumOf(S, count) = SumOf(R, count)
  <1>1. IsFiniteSet(R)
    BY FS_Subset
  <1>2. \A field \in Fields :
          SumOver(Of(count, S, field), S) = SumOver(Of(count, R, field), R)
    <2>. SUFFICES ASSUME NEW field \in Fields
                  PROVE  SumOver(Of(count, S, field), S) = SumOver(Of(count, R, field), R)
      OBVIOUS
    <2>. DEFINE values == Of(count, S, field)
                fewer == Of(count, R, field)
    <2>1. /\ \A x \in S : values[x] \in Int
          /\ \A x \in S \ R : values[x] = 0
          /\ \A x \in R : fewer[x] \in Int /\ fewer[x] = values[x]
      BY DEF Of
    <2>. HIDE DEF values, fewer
    <2>2. SumOver(values, S) = SumOver(values, R)
      BY <2>1, SumOfRest
    <2>3. SumOver(fewer, R) = SumOver(values, R)
      BY <1>1, <2>1, SameSum
    <2>. QED
      BY <2>2, <2>3 DEF values, fewer
  <1>3. SumOf(S, count) = [field \in Fields |-> SumOver(Of(count, S, field), S)]
    BY SumByField
  <1>4. SumOf(R, count) = [field \in Fields |-> SumOver(Of(count, R, field), R)]
    BY <1>1, SumByField
  <1>. QED
    BY <1>2, <1>3, <1>4

-----------------------------------------------------------------------------
(* What is counted for one pair.                                           *)

LEMMA WhatIsCounted ==
  ASSUME NEW pair
  PROVE  /\ CountsOf(pair) \in [Fields -> Nat]
         /\ CountsOf(pair).exact = CountsOf(pair).inherited + CountsOf(pair).local
         /\ CountsOf(pair).exact <= CountsOf(pair).candidates
         /\ CountsOf(pair).exact = 0 <=> Merges(pair) = {}
  <1>. DEFINE found == Candidates(pair)
              same == {s \in found : s \in Merges(pair)}
              exact == Cardinality(same)
  <1>1. IsFiniteSet(found)
    <2>1. IsFiniteSet(Symbols)
      BY LastSymbolAssumption, FS_Interval DEF Symbols
    <2>2. IsFiniteSet(Symbols \X Symbols)
      BY <2>1, FS_Product
    <2>3. found \subseteq Symbols \X Symbols
      BY DEF Candidates
    <2>. QED
      BY <2>2, <2>3, FS_Subset
  <1>2. same = Merges(pair)
    BY DEF Candidates, Merges
  <1>3. CountsOf(pair) = [pairs      |-> 1,
                          cross      |-> (LastSymbol + 1) * (LastSymbol + 1),
                          candidates |-> Cardinality(found),
                          exact      |-> exact,
                          inherited  |-> IF IsInherited(pair) THEN exact ELSE 0,
                          local      |-> IF IsInherited(pair) THEN 0 ELSE exact]
    BY Zenon DEF CountsOf
  <1>4. same \subseteq found
    OBVIOUS
  <1>. HIDE DEF found, same
  <1>5. /\ Cardinality(found) \in Nat /\ exact \in Nat /\ exact <= Cardinality(found)
        /\ exact = 0 <=> same = {}
    <2>1. IsFiniteSet(same) /\ exact <= Cardinality(found)
      BY <1>1, <1>4, FS_Subset
    <2>. QED
      BY <1>1, <2>1, FS_CardinalityType, FS_EmptySet
  <1>6. (LastSymbol + 1) * (LastSymbol + 1) \in Nat
    BY LastSymbolAssumption
  <1>. DEFINE crossed == (LastSymbol + 1) * (LastSymbol + 1)
              candidates == Cardinality(found)
  <1>. HIDE DEF exact, crossed, candidates
  <1>7. CountsOf(pair) = [pairs      |-> 1,
                          cross      |-> crossed,
                          candidates |-> candidates,
                          exact      |-> exact,
                          inherited  |-> IF IsInherited(pair) THEN exact ELSE 0,
                          local      |-> IF IsInherited(pair) THEN 0 ELSE exact]
    BY <1>3 DEF crossed, candidates
  <1>8. crossed \in Nat /\ candidates \in Nat /\ exact \in Nat /\ exact <= candidates
    BY <1>5, <1>6 DEF crossed, candidates
  <1>9. CountsOf(pair) \in [Fields -> Nat]
    BY <1>7, <1>8 DEF Fields
  <1>10. /\ CountsOf(pair).exact = CountsOf(pair).inherited + CountsOf(pair).local
         /\ CountsOf(pair).exact <= CountsOf(pair).candidates
         /\ CountsOf(pair).exact = exact
    BY <1>7, <1>8
  <1>. QED
    BY <1>2, <1>5, <1>9, <1>10

LEMMA CountsOfPairsType ==
  /\ DOMAIN CountsOfPairs = 0..(Len(pairs) - 1)
  /\ \A i \in DOMAIN CountsOfPairs : CountsOfPairs[i] = CountsOf(pairs[i + 1])
  /\ \A i \in DOMAIN CountsOfPairs : CountsOfPairs[i] \in [Fields -> Nat]
  <1>1. /\ DOMAIN CountsOfPairs = 0..(Len(pairs) - 1)
        /\ \A i \in DOMAIN CountsOfPairs : CountsOfPairs[i] = CountsOf(pairs[i + 1])
    BY DEF CountsOfPairs
  <1>. QED
    BY <1>1, WhatIsCounted

(* The report, once the sums have been made of the right pairs.            *)
LEMMA ReportIsExact ==
  ASSUME Len(pairs) \in Nat, DOMAIN pairs = 1..Len(pairs),
         total = <<SumOf(DOMAIN CountsOfPairs, CountsOfPairs)>>
  PROVE  /\ total[1].exact = total[1].inherited + total[1].local
         /\ total[1].exact <= total[1].candidates
         /\ ExitCode = 1 <=> \E i \in DOMAIN pairs : Merges(pairs[i]) # {}
  <1>. DEFINE all == DOMAIN CountsOfPairs
              Column(field) == Of(CountsOfPairs, all, field)
              exact == Column("exact")
              inherited == Column("inherited")
              local == Column("local")
              candidates == Column("candidates")
  <1>1. IsFiniteSet(all)
    BY CountsOfPairsType, FS_Interval
  <1>2. \A i \in all : \A field \in Fields : CountsOfPairs[i][field] \in Nat
    BY CountsOfPairsType
  <1>3. total[1] = [field \in Fields |-> SumOver(Column(field), all)]
    <2>1. \A i \in all : \A field \in Fields : CountsOfPairs[i][field] \in Int
      BY <1>2
    <2>2. SumOf(all, CountsOfPairs) = [field \in Fields |-> SumOver(Column(field), all)]
      BY <1>1, <2>1, SumByField
    <2>. QED
      BY <2>2
  <1>4. /\ total[1].exact = SumOver(exact, all)
        /\ total[1].inherited = SumOver(inherited, all)
        /\ total[1].local = SumOver(local, all)
        /\ total[1].candidates = SumOver(candidates, all)
    <2>. HIDE DEF all
    <2>. QED
      BY <1>3 DEF Fields
  <1>5. \A i \in all :
          /\ exact[i] \in Nat /\ inherited[i] \in Nat /\ local[i] \in Nat /\ candidates[i] \in Nat
          /\ exact[i] = inherited[i] + local[i]
          /\ exact[i] <= candidates[i]
          /\ exact[i] = 0 <=> Merges(pairs[i + 1]) = {}
    <2>. SUFFICES ASSUME NEW i \in all
                  PROVE  /\ exact[i] \in Nat /\ inherited[i] \in Nat
                         /\ local[i] \in Nat /\ candidates[i] \in Nat
                         /\ exact[i] = inherited[i] + local[i]
                         /\ exact[i] <= candidates[i]
                         /\ exact[i] = 0 <=> Merges(pairs[i + 1]) = {}
      BY Zenon
    <2>1. /\ exact[i] = CountsOfPairs[i].exact
          /\ inherited[i] = CountsOfPairs[i].inherited
          /\ local[i] = CountsOfPairs[i].local
          /\ candidates[i] = CountsOfPairs[i].candidates
      BY DEF Of
    <2>2. CountsOfPairs[i] = CountsOf(pairs[i + 1])
      BY CountsOfPairsType
    <2>3. {"exact", "inherited", "local", "candidates"} \subseteq Fields
      BY DEF Fields
    <2>. HIDE DEF all, Column, exact, inherited, local, candidates
    <2>. QED
      BY <1>2, <2>1, <2>2, <2>3, WhatIsCounted
  <1>. HIDE DEF all, exact, inherited, local, candidates
  <1>6. SumOver(exact, all) = SumOver(inherited, all) + SumOver(local, all)
    <2>1. \A i \in all : inherited[i] \in Int /\ local[i] \in Int
                         /\ exact[i] = inherited[i] + local[i]
      BY <1>5
    <2>. QED
      BY <1>1, <2>1, SumOfSums
  <1>7. SumOver(exact, all) <= SumOver(candidates, all)
    <2>1. \A i \in all : exact[i] \in Nat /\ candidates[i] \in Nat /\ exact[i] <= candidates[i]
      BY <1>5
    <2>. QED
      BY <1>1, <2>1, SumsCompare
  <1>8. SumOver(exact, all) = 0 <=> \A i \in all : exact[i] = 0
    BY <1>1, <1>5, SumOfZeros
  <1>9. (\A i \in all : exact[i] = 0) <=> \A i \in DOMAIN pairs : Merges(pairs[i]) = {}
    <2>1. \A i \in all : i + 1 \in DOMAIN pairs
      BY CountsOfPairsType DEF all
    <2>2. \A i \in DOMAIN pairs : i - 1 \in all /\ (i - 1) + 1 = i
      BY CountsOfPairsType DEF all
    <2>. QED
      BY <1>5, <2>1, <2>2
  <1>10. ExitCode = 1 <=> total[1].exact # 0
    BY DEF ExitCode
  <1>. QED
    BY <1>4, <1>6, <1>7, <1>8, <1>9, <1>10

-----------------------------------------------------------------------------
(* The invariant: threads that do not exist have counted nothing, so the   *)
(* sum over those there are is the sum over all.                           *)
SuffixInv ==
  /\ PoolInv
  /\ items = Len(pairs) /\ DOMAIN pairs = 1..items
  /\ counts \in [Workers -> [Fields -> Nat]]
  /\ \A w \in Workers : worker[w] = "absent" => counts[w] = ZeroCounts
  /\ CountsAddUp
  /\ total # <<>> => /\ main = "over"
                     /\ total = <<SumOf(DOMAIN CountsOfPairs, CountsOfPairs)>>

LEMMA WorkersAreFinite == IsFiniteSet(Workers)
  BY MaxThreadsAssumption, FS_Interval DEF Workers

LEMMA InitEstablishesSuffixInv == Init => SuffixInv
  <1>. SUFFICES ASSUME Init PROVE SuffixInv
    OBVIOUS
  <1>1. PoolInv /\ items = Len(pairs) /\ DOMAIN pairs = 1..items
    BY InitIsPoolInit, PoolInitEstablishesInv DEF Init
  <1>2. counts = [w \in Workers |-> ZeroCounts] /\ finished = {} /\ total = <<>>
    BY DEF Init
  <1>3. counts \in [Workers -> [Fields -> Nat]]
    BY <1>2 DEF ZeroCounts
  <1>4. CountsAddUp
    <2>1. \A w \in Workers : \A field \in Fields : counts[w][field] \in Int
                                                   /\ counts[w][field] = 0
      BY <1>2 DEF ZeroCounts
    <2>2. SumOf(Workers, counts) = SumOf({}, counts)
      BY <2>1, WorkersAreFinite, SumOfCounting
    <2>3. SumOf({}, counts) = [field \in Fields |-> 0]
      <3>1. SumOf({}, counts) = [field \in Fields |-> SumOver(Of(counts, {}, field), {})]
        BY FS_EmptySet, SumByField
      <3>. QED
        BY <3>1, SumOverNone
    <2>4. SumOf({}, CountsOfPairs) = [field \in Fields |-> 0]
      <3>1. SumOf({}, CountsOfPairs)
              = [field \in Fields |-> SumOver(Of(CountsOfPairs, {}, field), {})]
        BY FS_EmptySet, SumByField
      <3>. QED
        BY <3>1, SumOverNone
    <2>. QED
      BY <1>2, <2>2, <2>3, <2>4 DEF CountsAddUp
  <1>. QED
    BY <1>1, <1>2, <1>3, <1>4 DEF SuffixInv

LEMMA WorkKeepsSuffixInv ==
  ASSUME SuffixInv, PoolInv', NEW w \in Workers, Work(w)
  PROVE  SuffixInv'
  <1>. DEFINE i == item[w]
              d == CountsOf(pairs[i + 1])
  <1>1. /\ worker[w] = "work" /\ finished' = finished \cup {i}
        /\ counts' = [counts EXCEPT ![w] = [field \in Fields |-> @[field] + d[field]]]
        /\ worker' = [worker EXCEPT ![w] = "claim"]
        /\ UNCHANGED <<hash, request, pairs, total, items, main>>
    BY DEF Work, Finish
  <1>2. i \in Items /\ i \notin finished /\ finished \subseteq Items
    BY <1>1 DEF SuffixInv, PoolInv, EachItemOnce, PoolTypeOK
  <1>3. CountsOfPairs' = CountsOfPairs
    BY <1>1, ZenonT(30) DEF CountsOfPairs, CountsOf, Candidates, Merges, Folded, IsInherited
  <1>4. DOMAIN CountsOfPairs = Items
    BY CountsOfPairsType DEF SuffixInv, Items
  <1>5. CountsOfPairs[i] = d /\ d \in [Fields -> Nat]
    <2>1. i \in DOMAIN CountsOfPairs
      BY <1>2, <1>4
    <2>. QED
      BY <2>1, CountsOfPairsType, WhatIsCounted
  <1>6. IsFiniteSet(finished)
    <2>1. items \in Nat
      BY DEF SuffixInv, PoolInv, PoolTypeOK
    <2>2. IsFiniteSet(Items)
      BY <2>1, FS_Interval DEF Items
    <2>. QED
      BY <1>2, <2>2, FS_Subset
  <1>. HIDE DEF i, d
  <1>7. counts' \in [Workers -> [Fields -> Nat]]
    BY <1>1, <1>5 DEF SuffixInv
  <1>8. \A v \in Workers : worker'[v] = "absent" => counts'[v] = ZeroCounts
    <2>. SUFFICES ASSUME NEW v \in Workers, worker'[v] = "absent"
                  PROVE  counts'[v] = ZeroCounts
      OBVIOUS
    <2>1. v # w /\ worker[v] = "absent"
      BY <1>1 DEF SuffixInv, PoolInv, PoolTypeOK
    <2>. QED
      BY <1>1, <2>1 DEF SuffixInv
  <1>9. SumOf(Workers, counts') = Added(d, SumOf(Workers, counts))
    <2>1. \A v \in Workers : \A f \in Fields : counts[v][f] \in Int
      BY DEF SuffixInv
    <2>2. \A f \in Fields : d[f] \in Int /\ counts'[w][f] = counts[w][f] + d[f]
      BY <1>1, <1>5 DEF SuffixInv
    <2>3. \A v \in Workers \ {w} : counts'[v] = counts[v]
      BY <1>1 DEF SuffixInv
    <2>. QED
      BY <2>1, <2>2, <2>3, WorkersAreFinite, SumOfRaised
  <1>10. SumOf(finished', CountsOfPairs)
           = Added(d, SumOf(finished, CountsOfPairs))
    <2>1. \A x \in finished \cup {i} : \A f \in Fields : CountsOfPairs[x][f] \in Int
      <3>1. \A x \in finished \cup {i} : x \in DOMAIN CountsOfPairs
        BY <1>2, <1>4
      <3>. QED
        BY <3>1, CountsOfPairsType
    <2>2. SumOf(finished \cup {i}, CountsOfPairs)
            = Added(CountsOfPairs[i], SumOf(finished, CountsOfPairs))
      BY <1>2, <1>6, <2>1, SumOfOneMore, Zenon
    <2>. QED
      BY <1>1, <1>5, <2>2
  <1>11. CountsAddUp'
    BY <1>3, <1>9, <1>10 DEF SuffixInv, CountsAddUp
  <1>. QED
    BY <1>1, <1>3, <1>7, <1>8, <1>11 DEF SuffixInv

LEMMA TotalKeepsSuffixInv ==
  ASSUME SuffixInv, PoolInv', Total
  PROVE  SuffixInv'
  <1>1. /\ main = "over" /\ total' = <<SumOf(0..(threads - 1), counts)>>
        /\ UNCHANGED <<poolVars, hash, request, pairs, counts>>
    BY DEF Total
  <1>2. CountsOfPairs' = CountsOfPairs
    BY <1>1 DEF CountsOfPairs, CountsOf, Candidates, Merges, Folded, IsInherited
  <1>3. SumOf(Workers, counts) = SumOf(0..(threads - 1), counts)
    <2>1. 0..(threads - 1) \in SUBSET Workers
      BY MaxThreadsAssumption DEF SuffixInv, PoolInv, PoolTypeOK, Workers
    <2>2. \A w \in Workers : \A f \in Fields : counts[w][f] \in Int
      BY DEF SuffixInv
    <2>3. \A w \in Workers \ (0..(threads - 1)) : \A f \in Fields : counts[w][f] = 0
      <3>1. \A w \in Workers \ (0..(threads - 1)) : worker[w] = "absent"
        BY <1>1, MaxThreadsAssumption
           DEF SuffixInv, PoolInv, PoolTypeOK, CallerOK, Workers
      <3>. QED
        BY <3>1 DEF SuffixInv, ZeroCounts
    <2>. QED
      BY <2>1, <2>2, <2>3, WorkersAreFinite, SumOfCounting
  <1>4. finished = DOMAIN CountsOfPairs
    <2>1. finished = Items
      BY <1>1, OverMeansDone DEF SuffixInv, AllDoneWhenOver
    <2>. QED
      BY <2>1, CountsOfPairsType DEF SuffixInv, Items
  <1>5. total' = <<SumOf(DOMAIN CountsOfPairs, CountsOfPairs)>>
    BY <1>1, <1>3, <1>4 DEF SuffixInv, CountsAddUp
  <1>. QED
    BY <1>1, <1>2, <1>5 DEF SuffixInv, CountsAddUp, poolVars, Workers

LEMMA OthersKeepSuffixInv ==
  ASSUME SuffixInv, PoolInv', UNCHANGED suffixVars, UNCHANGED <<items, finished>>,
         main = "over" => main' = "over",
         \A w \in Workers : worker'[w] = "absent" => worker[w] = "absent"
  PROVE  SuffixInv'
  <1>1. CountsOfPairs' = CountsOfPairs
    BY DEF suffixVars, CountsOfPairs, CountsOf, Candidates, Merges, Folded, IsInherited
  <1>2. CountsAddUp'
    BY <1>1 DEF SuffixInv, CountsAddUp, suffixVars
  <1>. QED
    BY <1>1, <1>2 DEF SuffixInv, suffixVars

LEMMA NextKeepsSuffixInv == SuffixInv /\ [Next]_vars => SuffixInv'
  <1>. SUFFICES ASSUME SuffixInv, [Next]_vars PROVE SuffixInv'
    OBVIOUS
  <1>1. PoolInv'
    BY NextIsPoolNext, PoolNextKeepsInv DEF SuffixInv
  <1>2. CASE (Spawn \/ StartJoining \/ Join \/ Leave) /\ UNCHANGED suffixVars
    <2>1. UNCHANGED <<items, finished>> /\ (main = "over" => main' = "over")
      BY <1>2 DEF Spawn, StartJoining, Join, Leave
    <2>2. \A w \in Workers : worker'[w] = "absent" => worker[w] = "absent"
      BY <1>2 DEF Spawn, StartJoining, Join, Leave, SuffixInv, PoolInv, PoolTypeOK
    <2>. QED
      BY <1>1, <1>2, <2>1, <2>2, OthersKeepSuffixInv
  <1>3. CASE Total
    BY <1>1, <1>3, TotalKeepsSuffixInv
  <1>4. ASSUME NEW w \in Workers, Claim(w), UNCHANGED suffixVars PROVE SuffixInv'
    <2>1. UNCHANGED <<items, finished, main>>
      BY <1>4 DEF Claim
    <2>2. \A v \in Workers : worker'[v] = "absent" => worker[v] = "absent"
      BY <1>4 DEF Claim, SuffixInv, PoolInv, PoolTypeOK
    <2>. QED
      BY <1>1, <1>4, <2>1, <2>2, OthersKeepSuffixInv
  <1>5. ASSUME NEW w \in Workers, Work(w) PROVE SuffixInv'
    BY <1>1, <1>5, WorkKeepsSuffixInv
  <1>6. CASE UNCHANGED vars
    BY <1>1, <1>6, OthersKeepSuffixInv DEF vars, poolVars
  <1>. QED
    BY <1>2, <1>3, <1>4, <1>5, <1>6 DEF Next, Caller, Thread, Reported

(* Whatever the schedule, the threads' counters are at any moment those of *)
(* the pairs finished, and the report is that of the whole catalogue: the  *)
(* exact counts are split into inherited and local ones and bounded by the *)
(* candidates, and the exit code says whether any suffixes merge any pair. *)
THEOREM TotalsAreExact == Spec => []TotalExact
  <1>1. SuffixInv => TotalExact
    <2>. SUFFICES ASSUME SuffixInv PROVE TotalExact
      OBVIOUS
    <2>1. Len(pairs) \in Nat /\ DOMAIN pairs = 1..Len(pairs)
      BY DEF SuffixInv, PoolInv, PoolTypeOK
    <2>2. total # <<>> => total = <<SumOf(DOMAIN CountsOfPairs, CountsOfPairs)>>
      BY DEF SuffixInv
    <2>3. ASSUME total # <<>>
          PROVE  /\ total[1] = SumOf(DOMAIN CountsOfPairs, CountsOfPairs)
                 /\ total[1].exact = total[1].inherited + total[1].local
                 /\ total[1].exact <= total[1].candidates
                 /\ ExitCode = 1 <=> \E i \in DOMAIN pairs : Merges(pairs[i]) # {}
      <3>1. total = <<SumOf(DOMAIN CountsOfPairs, CountsOfPairs)>>
        BY <2>2, <2>3
      <3>2. total[1] = SumOf(DOMAIN CountsOfPairs, CountsOfPairs)
        BY <3>1
      <3>. QED
        BY <2>1, <3>1, <3>2, ReportIsExact, Zenon
    <2>4. CountsAddUp
      BY DEF SuffixInv
    <2>. QED
      BY <2>3, <2>4 DEF TotalExact
  <1>. QED
    BY <1>1, InitEstablishesSuffixInv, NextKeepsSuffixInv, PTL DEF Spec

=============================================================================
