------------------------- MODULE AliasCatalogProofs -------------------------
(***************************************************************************)
(* The enumeration of aliases is a run of the worker pool and implements   *)
(* what it promises its caller, for every hash, every number of prefixes   *)
(* and every number of threads asked for.                                  *)
(***************************************************************************)
EXTENDS AliasCatalog, PoolProofs, InductionTheorems

(* There is at least one thread, and never more than the pool has room     *)
(* for.                                                                    *)
LEMMA CountsType ==
  ASSUME request \in Requests
  PROVE  PrefixCount \in Nat /\ ThreadCount \in 1..MaxThreads
  <1>1. request.prefix_count \in Nat /\ request.thread_count \in Nat
    BY RequestsAssumption
  <1>2. AllPrefixes \in Nat \ {0} /\ MaxThreads \in Nat /\ MaxThreads >= AllPrefixes
    BY AllPrefixesAssumption, ThreadsAssumption, MaxThreadsAssumption
  <1>3. PrefixCount \in Nat /\ PrefixCount <= AllPrefixes
    <2>1. request.prefix_count \in Int /\ AllPrefixes \in Int
      BY <1>1, <1>2
    <2>2. /\ PrefixCount \in {request.prefix_count, AllPrefixes}
          /\ PrefixCount <= AllPrefixes
      BY <2>1, MinOfTwo, Zenon DEF PrefixCount
    <2>. QED BY <1>1, <1>2, <2>2
  <1>. DEFINE wanted == IF request.thread_count = 0 THEN Max({1, Hardware})
                        ELSE request.thread_count
              useful == Max({1, PrefixCount})
  <1>4. wanted \in Nat \ {0}
    <2>1. Max({1, Hardware}) \in Nat \ {0}
      BY HardwareAssumption, MaxOfTwo
    <2>. QED BY <1>1, <2>1
  <1>5. useful \in Nat \ {0} /\ useful <= AllPrefixes
    <2>1. 1 \in Int /\ PrefixCount \in Int
      BY <1>3
    <2>2. /\ Max({1, PrefixCount}) \in {1, PrefixCount}
          /\ Max({1, PrefixCount}) >= 1
      BY <2>1, MaxOfTwo, Zenon
    <2>. QED BY <1>2, <1>3, <2>2
  <1>6. ThreadCount = Min({wanted, useful})
    BY DEF ThreadCount
  <1>. HIDE DEF wanted, useful
  <1>7. ThreadCount \in Nat \ {0} /\ ThreadCount <= AllPrefixes
    <2>1. /\ Min({wanted, useful}) \in {wanted, useful}
          /\ Min({wanted, useful}) <= useful
      BY <1>4, <1>5, MinOfTwo
    <2>. QED BY <1>2, <1>4, <1>5, <1>6, <2>1
  <1>. QED BY <1>2, <1>3, <1>7

LEMMA InitIsPoolInit == Init => PoolInit
  <1>. SUFFICES ASSUME Init PROVE PoolInit
    OBVIOUS
  <1>1. items \in Nat /\ threads \in 1..MaxThreads
    BY CountsType DEF Init
  <1>. QED BY <1>1 DEF Init, PoolInit

LEMMA NextIsPoolNext == [Next]_vars => [PoolNext]_poolVars
  <1>. SUFFICES ASSUME [Next]_vars PROVE [PoolNext]_poolVars
    OBVIOUS
  <1>1. CASE Caller
    BY <1>1 DEF Caller, Collect, Extend, PoolNext
  <1>2. ASSUME NEW w \in Workers, Thread(w) PROVE PoolNext
    BY <1>2 DEF Thread, Work, PoolNext
  <1>3. CASE UNCHANGED vars
    BY <1>3 DEF vars
  <1>. QED BY <1>1, <1>2, <1>3 DEF Next, Returned

(* The enumeration implements the pool: what the pool promises for any     *)
(* work, it keeps.                                                         *)
THEOREM CatalogueImplementsPool == Spec => PoolSpec
  BY InitIsPoolInit, NextIsPoolNext, PTL DEF Spec, PoolSpec

(* No prefix is claimed by two threads.                                    *)
THEOREM PrefixesAreClaimedOnce == Spec => []EachItemOnce
  BY CatalogueImplementsPool, ItemsAreClaimedOnce, PTL

(* The caller reads the vectors when every prefix is done and no thread    *)
(* writes to one any more.                                                 *)
THEOREM CatalogueIsComplete == Spec => []AllDoneWhenOver
  BY CatalogueImplementsPool, NothingIsLeftBehind, PTL

-----------------------------------------------------------------------------
(* One prefix: the aliases of its state, listed.                           *)

LEMMA SymbolsAreNumbers == Symbols \subseteq Nat /\ PrefixNumbers \subseteq Nat
  BY LastSymbolAssumption, AllPrefixesAssumption DEF Symbols, PrefixNumbers

NumberOrder(S) == {p \in S \X S : p[1] < p[2]}

LEMMA EarlierAreListed ==
  ASSUME NEW S \in SUBSET Symbols
  PROVE  ListsOnce(InOrder(S, Earlier), S)
  <1>. DEFINE R == NumberOrder(S)
              Place(x) == Cardinality({y \in S : Earlier(y, x)})
  <1>1. IsFiniteSet(S)
    <2>1. IsFiniteSet(Symbols)
      BY LastSymbolAssumption, FS_Interval DEF Symbols
    <2>. QED
      BY <2>1, FS_Subset
  <1>2. \A x, y \in S : x \in Nat /\ (<<y, x>> \in R <=> y < x)
    BY SymbolsAreNumbers DEF NumberOrder
  <1>3. StrictlyOrders(R, S)
    <2>1. \A x \in S : <<x, x>> \notin R
      BY <1>2
    <2>2. \A x, y, z \in S : <<x, y>> \in R /\ <<y, z>> \in R => <<x, z>> \in R
      <3>. SUFFICES ASSUME NEW x \in S, NEW y \in S, NEW z \in S,
                           <<x, y>> \in R, <<y, z>> \in R
                    PROVE  <<x, z>> \in R
        OBVIOUS
      <3>1. x < y /\ y < z /\ x \in Nat /\ y \in Nat /\ z \in Nat
        BY <1>2
      <3>2. x < z
        BY <3>1
      <3>. QED
        BY <1>2, <3>2
    <2>3. \A x, y \in S : x # y => <<x, y>> \in R \/ <<y, x>> \in R
      BY <1>2
    <2>. HIDE DEF R
    <2>. QED
      BY <2>1, <2>2, <2>3 DEF StrictlyOrders
  <1>4. \A x \in S : Place(x) = Rank(R, S, x)
    <2>1. \A x \in S : {y \in S : Earlier(y, x)} = Below(R, S, x)
      BY <1>2 DEF Below, Earlier
    <2>. QED
      BY <2>1, Zenon DEF Rank
  <1>5. InOrder(S, Earlier) = [n \in 1..Cardinality(S) |-> CHOOSE x \in S : Place(x) = n - 1]
    BY Zenon DEF InOrder
  <1>. HIDE DEF Place, R
  <1>6. InOrder(S, Earlier) = Listed(S, R)
    BY <1>4, <1>5 DEF Listed
  <1>. QED
    BY <1>1, <1>3, <1>6, ListedByRank

(* The earlier symbols that lead where a symbol leads.                     *)
Twins(h, start, symbol) ==
  {prior \in Symbols : prior < symbol /\ h.absorb[start][prior] = h.absorb[start][symbol]}

LEMMA AliasesOfSymbolAreListed ==
  ASSUME NEW start, NEW symbol \in Symbols
  PROVE  ListsOnce(AliasesOfSymbol(start, symbol),
                   {<<prior, symbol>> : prior \in Twins(hash, start, symbol)})
  <1>. DEFINE twins == Twins(hash, start, symbol)
              same == {prior \in Candidates(start, symbol) :
                         hash.absorb[start][prior] = hash.absorb[start][symbol]}
              hits == InOrder(twins, Earlier)
              f == [prior \in Symbols |-> <<prior, symbol>>]
  <1>1. same = twins
    <2>1. \A prior : prior \in 0..(symbol - 1) <=> prior \in Symbols /\ prior < symbol
      BY LastSymbolAssumption DEF Symbols
    <2>. QED
      BY <2>1 DEF Candidates, Twins
  <1>2. AliasesOfSymbol(start, symbol) = [n \in DOMAIN hits |-> <<hits[n], symbol>>]
    BY <1>1, Zenon DEF AliasesOfSymbol
  <1>3. twins \in SUBSET Symbols
    BY DEF Twins
  <1>. HIDE DEF twins, same
  <1>4. ListsOnce(hits, twins)
    BY <1>3, EarlierAreListed
  <1>5. \A n \in DOMAIN hits : hits[n] \in Symbols
    BY <1>3, <1>4, LenProperties, ElementOfSeq DEF ListsOnce
  <1>. HIDE DEF hits
  <1>6. AliasesOfSymbol(start, symbol) = [n \in DOMAIN hits |-> f[hits[n]]]
    BY <1>2, <1>5
  <1>7. \A x, y \in twins : f[x] = f[y] => x = y
    BY <1>3
  <1>8. {f[x] : x \in twins} = {<<prior, symbol>> : prior \in twins}
    BY <1>3
  <1>. HIDE DEF f
  <1>9. ListsOnce([n \in DOMAIN hits |-> f[hits[n]]], {f[x] : x \in twins})
    BY <1>4, <1>7, ListedImage
  <1>. QED
    BY <1>6, <1>8, <1>9, Zenon DEF twins

(* The aliases of a state, by the symbols of theirs that differ.           *)
AliasesOf(h, start) == {m \in SymbolPairs : h.absorb[start][m[1]] = h.absorb[start][m[2]]}

LEMMA SymbolAliasesAreFound ==
  ASSUME NEW start
  PROVE  ListsOnce(FindSymbolAliases(start), AliasesOf(hash, start))
  <1>. DEFINE n == LastSymbol + 1
              parts == [i \in 1..n |-> {<<prior, i - 1>> : prior \in Twins(hash, start, i - 1)}]
              ss == [i \in 1..n |-> AliasesOfSymbol(start, i - 1)]
              all == Symbols \X Symbols
  <1>1. n \in Nat /\ \A i \in 1..n : i - 1 \in Symbols
    BY LastSymbolAssumption DEF Symbols
  <1>2. \A i \in 1..n : ListsOnce(ss[i], parts[i])
    BY <1>1, AliasesOfSymbolAreListed
  <1>3. \A i \in 1..n : parts[i] \subseteq all
    BY <1>1 DEF Twins
  <1>4. \A j, i \in 1..n : j # i => parts[j] \cap parts[i] = {}
    <2>. SUFFICES ASSUME NEW j \in 1..n, NEW i \in 1..n, j # i, NEW x \in parts[j], x \in parts[i]
                  PROVE  FALSE
      OBVIOUS
    <2>1. x[2] = j - 1 /\ x[2] = i - 1
      OBVIOUS
    <2>. QED
      BY <1>1, <2>1
  <1>5. UNION {parts[i] : i \in 1..n} = AliasesOf(hash, start)
    <2>1. ASSUME NEW i \in 1..n, NEW x \in parts[i] PROVE x \in AliasesOf(hash, start)
      <3>1. PICK prior \in Twins(hash, start, i - 1) : x = <<prior, i - 1>>
        OBVIOUS
      <3>. QED
        BY <1>1, <3>1 DEF Twins, AliasesOf, SymbolPairs
    <2>2. ASSUME NEW x \in AliasesOf(hash, start) PROVE \E i \in 1..n : x \in parts[i]
      <3>1. /\ x = <<x[1], x[2]>> /\ x[1] \in Symbols /\ x[2] \in Symbols
            /\ x[1] < x[2] /\ hash.absorb[start][x[1]] = hash.absorb[start][x[2]]
        BY DEF AliasesOf, SymbolPairs
      <3>2. x[2] + 1 \in 1..n /\ (x[2] + 1) - 1 = x[2]
        BY <3>1, LastSymbolAssumption DEF Symbols
      <3>3. x[1] \in Twins(hash, start, x[2])
        BY <3>1 DEF Twins
      <3>4. x \in parts[x[2] + 1]
        BY <3>1, <3>2, <3>3
      <3>. QED
        BY <3>2, <3>4
    <2>. HIDE DEF parts, n
    <2>. QED
      BY <2>1, <2>2
  <1>6. FindSymbolAliases(start) = FlattenSeq(ss)
    BY Zenon DEF FindSymbolAliases
  <1>. HIDE DEF n, parts, ss, all
  <1>7. Sequences(ss, n, all)
    <2>1. \A i \in 1..n : ss[i] \in Seq(all)
      BY <1>2, <1>3, SeqMonotonic DEF ListsOnce
    <2>2. ss = [i \in 1..n |-> ss[i]]
      BY DEF ss
    <2>. QED
      BY <1>1, <2>1, <2>2 DEF Sequences
  <1>8. ListsOnce(FlattenSeq(ss), UNION {parts[i] : i \in 1..n})
    BY <1>2, <1>4, <1>7, FlattenLists
  <1>. QED
    BY <1>5, <1>6, <1>8, Zenon

-----------------------------------------------------------------------------
(* The pairs of messages.                                                  *)

PairAt(p, m) == [left |-> <<p, m[1]>>, right |-> <<p, m[2]>>]

(* The local aliases behind a set of prefixes.                             *)
AliasesBehind(h, P) ==
  {pair \in {PairAt(p, m) : p \in P, m \in SymbolPairs} :
     After(h, pair.left) = After(h, pair.right)}

LEMMA LocalAreBehind ==
  ASSUME NEW h, NEW r
  PROVE  LocalAliases(h, r) = AliasesBehind(h, Enumerated(r))
  BY DEF LocalAliases, AliasesBehind, PairAt

LEMMA AfterPairAt ==
  ASSUME NEW h, NEW p, NEW m
  PROVE  /\ After(h, PairAt(p, m).left) = h.absorb[h.behind[p]][m[1]]
         /\ After(h, PairAt(p, m).right) = h.absorb[h.behind[p]][m[2]]
  <1>1. PairAt(p, m).left = <<p, m[1]>> /\ PairAt(p, m).right = <<p, m[2]>>
    BY DEF PairAt
  <1>2. /\ After(h, <<p, m[1]>>) = h.absorb[h.behind[p]][m[1]]
        /\ After(h, <<p, m[2]>>) = h.absorb[h.behind[p]][m[2]]
    BY DEF After
  <1>. QED
    BY <1>1, <1>2, Zenon

LEMMA BehindIs ==
  ASSUME NEW h, NEW P, NEW pair
  PROVE  pair \in AliasesBehind(h, P) <=>
           \E p \in P : \E m \in AliasesOf(h, h.behind[p]) : pair = PairAt(p, m)
  <1>2. ASSUME pair \in AliasesBehind(h, P)
        PROVE  \E p \in P : \E m \in AliasesOf(h, h.behind[p]) : pair = PairAt(p, m)
    <2>1. PICK p \in P : \E m \in SymbolPairs :
            pair = PairAt(p, m) /\ After(h, pair.left) = After(h, pair.right)
      BY <1>2 DEF AliasesBehind
    <2>2. PICK m \in SymbolPairs :
            pair = PairAt(p, m) /\ After(h, pair.left) = After(h, pair.right)
      BY <2>1
    <2>3. h.absorb[h.behind[p]][m[1]] = h.absorb[h.behind[p]][m[2]]
      BY <2>2, AfterPairAt
    <2>4. m \in AliasesOf(h, h.behind[p])
      BY <2>3 DEF AliasesOf
    <2>. QED
      BY <2>2, <2>4
  <1>3. ASSUME NEW p \in P, NEW m \in AliasesOf(h, h.behind[p])
        PROVE  PairAt(p, m) \in AliasesBehind(h, P)
    <2>1. m \in SymbolPairs /\ h.absorb[h.behind[p]][m[1]] = h.absorb[h.behind[p]][m[2]]
      BY DEF AliasesOf
    <2>2. After(h, PairAt(p, m).left) = After(h, PairAt(p, m).right)
      BY <2>1, AfterPairAt
    <2>. QED
      BY <2>1, <2>2 DEF AliasesBehind
  <1>. QED
    BY <1>2, <1>3

(* The prefix of a pair tells behind which prefix it is.                   *)
LEMMA BehindOne ==
  ASSUME NEW h, NEW P, NEW pair \in AliasesBehind(h, P)
  PROVE  pair.left[1] \in P /\ pair \in AliasesBehind(h, {pair.left[1]})
  <1>1. PICK p \in P : \E m \in AliasesOf(h, h.behind[p]) : pair = PairAt(p, m)
    BY BehindIs
  <1>2. pair.left[1] = p
    BY <1>1 DEF PairAt
  <1>. QED
    BY <1>1, <1>2, BehindIs

OnePrefix(pair) == pair.left[1] = pair.right[1]

LEMMA BehindSame ==
  ASSUME NEW h, NEW P, NEW pair \in AliasesBehind(h, P)
  PROVE  OnePrefix(pair)
  <1>1. PICK p \in P : \E m \in AliasesOf(h, h.behind[p]) : pair = PairAt(p, m)
    BY BehindIs
  <1>. QED
    BY <1>1 DEF PairAt, OnePrefix

LEMMA PairsOfAreListed ==
  ASSUME NEW p
  PROVE  ListsOnce(PairsOf(p), AliasesBehind(hash, {p}))
  <1>. DEFINE S == AliasesOf(hash, hash.behind[p])
              f == [m \in SymbolPairs |-> PairAt(p, m)]
              aliases == FindSymbolAliases(hash.behind[p])
  <1>1. ListsOnce(aliases, S) /\ S \subseteq SymbolPairs
    BY SymbolAliasesAreFound DEF AliasesOf
  <1>2. \A x, y \in S : f[x] = f[y] => x = y
    <2>. SUFFICES ASSUME NEW x \in S, NEW y \in S, f[x] = f[y] PROVE x = y
      OBVIOUS
    <2>1. x \in Symbols \X Symbols /\ y \in Symbols \X Symbols
      BY <1>1 DEF SymbolPairs
    <2>2. PairAt(p, x) = PairAt(p, y)
      BY <1>1
    <2>3. x[1] = y[1] /\ x[2] = y[2]
      BY <2>2 DEF PairAt
    <2>. QED
      BY <2>1, <2>3
  <1>3. PairsOf(p) = [n \in DOMAIN aliases |-> PairAt(p, aliases[n])]
    BY Zenon DEF PairsOf, PairAt
  <1>4. \A n \in DOMAIN aliases : aliases[n] \in SymbolPairs
    <2>. HIDE DEF aliases, S
    <2>. QED
      BY <1>1, LenProperties, ElementOfSeq DEF ListsOnce
  <1>. HIDE DEF aliases
  <1>5. PairsOf(p) = [n \in DOMAIN aliases |-> f[aliases[n]]]
    BY <1>3, <1>4
  <1>6. {f[x] : x \in S} = AliasesBehind(hash, {p})
    <2>1. \A pair : pair \in AliasesBehind(hash, {p}) <=> \E m \in S : pair = PairAt(p, m)
      BY BehindIs
    <2>2. \A m \in S : f[m] = PairAt(p, m)
      BY <1>1
    <2>. HIDE DEF f, S
    <2>. QED
      BY <2>1, <2>2
  <1>. HIDE DEF f, S
  <1>7. ListsOnce([n \in DOMAIN aliases |-> f[aliases[n]]], {f[x] : x \in S})
    BY <1>1, <1>2, ListedImage
  <1>. QED
    BY <1>5, <1>6, <1>7, Zenon

-----------------------------------------------------------------------------
(* The inherited aliases.                                                  *)

PairOver(base, third) == [left |-> <<base[1], third>>, right |-> <<base[2], third>>]

AliasesOver(h, base) ==
  {PairOver(base, third) : third \in {t \in Symbols : h.behind[base[1]] = h.behind[base[2]]}}

LEMMA BasesAre ==
  /\ Len(KnownBases) \in Nat /\ DOMAIN KnownBases = 1..Len(KnownBases)
  /\ \A b \in DOMAIN KnownBases :
       /\ KnownBases[b] \in PrefixNumbers \X PrefixNumbers
       /\ KnownBases[b][1] # KnownBases[b][2]
  <1>. DEFINE different == {base \in PrefixNumbers \X PrefixNumbers : base[1] # base[2]}
  <1>1. KnownBases \in Seq(different)
    BY KnownBasesAssumption
  <1>2. \A b \in DOMAIN KnownBases : KnownBases[b] \in different
    <2>. HIDE DEF different
    <2>. QED
      BY <1>1, LenProperties, ElementOfSeq
  <1>3. Len(KnownBases) \in Nat /\ DOMAIN KnownBases = 1..Len(KnownBases)
    <2>. HIDE DEF different
    <2>. QED
      BY <1>1, LenProperties
  <1>. QED
    BY <1>2, <1>3

LEMMA InheritedAreListed ==
  ASSUME request.prefix_count = AllPrefixes
  PROVE  ListsOnce(InheritedPairs, InheritedAliases(hash, request))
  <1>. DEFINE n == Len(KnownBases)
              Over(b) == [s \in 1..(LastSymbol + 1) |-> PairOver(KnownBases[b], s - 1)]
              Meets(b) == hash.behind[KnownBases[b][1]] = hash.behind[KnownBases[b][2]]
              ss == [b \in 1..n |-> IF ~Meets(b) THEN <<>> ELSE Over(b)]
              parts == [b \in 1..n |-> AliasesOver(hash, KnownBases[b])]
              all == {PairOver(KnownBases[b], third) : b \in 1..n, third \in Symbols}
  <1>1. InheritedPairs = FlattenSeq(ss)
    BY BasesAre, Zenon DEF InheritedPairs, PairOver
  <1>2. ASSUME NEW b \in 1..n PROVE ListsOnce(ss[b], parts[b])
    <2>1. CASE Meets(b)
      <3>. DEFINE numbers == [s \in 1..(LastSymbol + 1) |-> s - 1]
                  f == [third \in Symbols |-> PairOver(KnownBases[b], third)]
      <3>1. ListsOnce(numbers, Symbols)
        <4>1. numbers \in [1..(LastSymbol + 1) -> Symbols] /\ LastSymbol + 1 \in Nat
          BY LastSymbolAssumption DEF Symbols
        <4>2. numbers \in Seq(Symbols)
          <5>. HIDE DEF numbers
          <5>. QED
            BY <4>1, SeqDef
        <4>3. \A x \in Symbols : x + 1 \in DOMAIN numbers /\ numbers[x + 1] = x
          BY LastSymbolAssumption DEF Symbols
        <4>4. \A i, j \in DOMAIN numbers : numbers[i] = numbers[j] => i = j
          BY LastSymbolAssumption
        <4>. HIDE DEF numbers
        <4>. QED
          BY <4>2, <4>3, <4>4 DEF ListsOnce
      <3>2. \A x, y \in Symbols : f[x] = f[y] => x = y
        BY DEF PairOver
      <3>3. ss[b] = [s \in DOMAIN numbers |-> f[numbers[s]]]
        <4>1. \A s \in 1..(LastSymbol + 1) : s - 1 \in Symbols
          BY LastSymbolAssumption DEF Symbols
        <4>. QED
          BY <2>1, <4>1
      <3>4. parts[b] = {f[x] : x \in Symbols}
        BY <2>1 DEF AliasesOver
      <3>. HIDE DEF numbers, f, ss, parts
      <3>5. ListsOnce([s \in DOMAIN numbers |-> f[numbers[s]]], {f[x] : x \in Symbols})
        BY <3>1, <3>2, ListedImage
      <3>. QED
        BY <3>3, <3>4, <3>5, Zenon
    <2>2. CASE ~Meets(b)
      <3>1. ss[b] = <<>> /\ parts[b] = {}
        BY <2>2 DEF AliasesOver
      <3>. HIDE DEF ss, parts
      <3>. QED
        BY <3>1, NothingListed
    <2>. QED
      BY <2>1, <2>2
  <1>3. \A i, j \in 1..n : i # j => parts[i] \cap parts[j] = {}
    <2>. SUFFICES ASSUME NEW i \in 1..n, NEW j \in 1..n, i # j,
                         NEW x \in parts[i], x \in parts[j]
                  PROVE  FALSE
      OBVIOUS
    <2>1. /\ x.left[1] = KnownBases[i][1] /\ x.right[1] = KnownBases[i][2]
          /\ x.left[1] = KnownBases[j][1] /\ x.right[1] = KnownBases[j][2]
      BY DEF AliasesOver, PairOver
    <2>2. /\ KnownBases[i] \in PrefixNumbers \X PrefixNumbers
          /\ KnownBases[j] \in PrefixNumbers \X PrefixNumbers
      BY BasesAre
    <2>3. KnownBases[i] = KnownBases[j]
      <3>1. \A a, b \in PrefixNumbers \X PrefixNumbers : a[1] = b[1] /\ a[2] = b[2] => a = b
        OBVIOUS
      <3>2. KnownBases[i][1] = KnownBases[j][1] /\ KnownBases[i][2] = KnownBases[j][2]
        BY <2>1, Zenon
      <3>. QED
        BY <2>2, <3>1, <3>2, Zenon
    <2>. QED
      BY <2>3, BasesAre, BasesDifferAssumption
  <1>4. UNION {parts[b] : b \in 1..n} = InheritedAliases(hash, request)
    <2>1. ToSet(KnownBases) = {KnownBases[b] : b \in 1..n}
      BY BasesAre, Zenon DEF ToSet
    <2>2. \A x : x \in InheritedAliases(hash, request) <=>
                   \E b \in 1..n : \E third \in Symbols : Meets(b) /\ x = PairOver(KnownBases[b], third)
      BY <2>1 DEF InheritedAliases, PairOver
    <2>3. \A b \in 1..n : \A x : x \in parts[b] <=>
            \E third \in Symbols : Meets(b) /\ x = PairOver(KnownBases[b], third)
      BY DEF AliasesOver
    <2>. HIDE DEF parts, n, Meets
    <2>. QED
      BY <2>2, <2>3
  <1>5. Sequences(ss, n, all)
    <2>1. \A b \in 1..n : parts[b] \subseteq all
      BY DEF AliasesOver
    <2>2. ss = [b \in 1..n |-> ss[b]] /\ n \in Nat
      BY BasesAre
    <2>. HIDE DEF parts, all, ss
    <2>3. \A b \in 1..n : ss[b] \in Seq(all)
      BY <1>2, <2>1, SeqMonotonic DEF ListsOnce
    <2>. QED
      BY <2>2, <2>3 DEF Sequences
  <1>. HIDE DEF n, parts, ss, all
  <1>6. ListsOnce(FlattenSeq(ss), UNION {parts[b] : b \in 1..n})
    BY <1>2, <1>3, <1>5, FlattenLists
  <1>. QED
    BY <1>1, <1>4, <1>6, Zenon

-----------------------------------------------------------------------------
(* The order of the pairs, and std::sort.                                  *)

ShortMessages == PrefixNumbers \X Symbols

PairsOfShort == [left : ShortMessages, right : ShortMessages]

LEMMA LocalArePairs ==
  ASSUME NEW h, NEW P \in SUBSET PrefixNumbers
  PROVE  AliasesBehind(h, P) \in SUBSET PairsOfShort
  <1>. SUFFICES ASSUME NEW pair \in AliasesBehind(h, P) PROVE pair \in PairsOfShort
    OBVIOUS
  <1>1. PICK p \in P : \E m \in AliasesOf(h, h.behind[p]) : pair = PairAt(p, m)
    BY BehindIs
  <1>2. PICK m \in AliasesOf(h, h.behind[p]) : pair = PairAt(p, m)
    BY <1>1
  <1>3. m[1] \in Symbols /\ m[2] \in Symbols
    BY DEF AliasesOf, SymbolPairs
  <1>. QED
    BY <1>2, <1>3 DEF PairAt, PairsOfShort, ShortMessages

LEMMA InheritedArePairs ==
  ASSUME NEW h, NEW r, NEW pair \in InheritedAliases(h, r)
  PROVE  pair \in PairsOfShort /\ pair.left[1] # pair.right[1]
  <1>1. PICK base \in ToSet(KnownBases), third \in Symbols :
          pair = [left |-> <<base[1], third>>, right |-> <<base[2], third>>]
    BY DEF InheritedAliases
  <1>2. base \in PrefixNumbers \X PrefixNumbers /\ base[1] # base[2]
    BY BasesAre DEF ToSet
  <1>. QED
    BY <1>1, <1>2 DEF PairsOfShort, ShortMessages

LEMMA MessagesAreOrdered ==
  /\ \A a \in ShortMessages : ~MessageBefore(a, a)
  /\ \A a, b, c \in ShortMessages :
       MessageBefore(a, b) /\ MessageBefore(b, c) => MessageBefore(a, c)
  /\ \A a, b \in ShortMessages : a # b => MessageBefore(a, b) \/ MessageBefore(b, a)
  <1>1. \A a \in ShortMessages : a[1] \in PrefixNumbers /\ a[2] \in Symbols /\ a = <<a[1], a[2]>>
    BY DEF ShortMessages
  <1>2. \A a \in ShortMessages : a[1] \in Nat /\ a[2] \in Nat
    BY <1>1, SymbolsAreNumbers
  <1>. QED
    BY <1>1, <1>2 DEF MessageBefore

PairOrder(S) == {p \in S \X S : PairBefore(p[1], p[2])}

LEMMA PairsAreOrdered ==
  ASSUME NEW S \in SUBSET PairsOfShort
  PROVE  StrictlyOrders(PairOrder(S), S)
  <1>1. \A a \in S : a.left \in ShortMessages /\ a.right \in ShortMessages
                     /\ a = [left |-> a.left, right |-> a.right]
    BY DEF PairsOfShort
  <1>2. \A a, b \in S : <<a, b>> \in PairOrder(S) <=> PairBefore(a, b)
    BY DEF PairOrder
  <1>3. \A a \in S : ~PairBefore(a, a)
    BY <1>1, MessagesAreOrdered DEF PairBefore
  <1>4. \A a, b, c \in S : PairBefore(a, b) /\ PairBefore(b, c) => PairBefore(a, c)
    BY <1>1, MessagesAreOrdered DEF PairBefore
  <1>5. \A a, b \in S : a # b => PairBefore(a, b) \/ PairBefore(b, a)
    BY <1>1, MessagesAreOrdered DEF PairBefore
  <1>. QED
    BY <1>2, <1>3, <1>4, <1>5 DEF StrictlyOrders

Sorted(list) == \A m, n \in DOMAIN list : m < n => PairBefore(list[m], list[n])

(* Sorting keeps what a list holds.                                        *)
LEMMA SortingArranges ==
  ASSUME NEW S \in SUBSET PairsOfShort, NEW list, ListsOnce(list, S)
  PROVE  ListsOnce(SortedBy(list, PairBefore), S) /\ Sorted(SortedBy(list, PairBefore))
  <1>. DEFINE D == DOMAIN list
              R == PairOrder(S)
              Q == OrderOfPlaces(list, R)
              place == [i \in DOMAIN list |->
                          1 + Cardinality({j \in DOMAIN list :
                                \/ PairBefore(list[j], list[i])
                                \/ ~PairBefore(list[i], list[j]) /\ j < i})]
              sorted == SortedBy(list, PairBefore)
  <1>1. list \in Seq(S) /\ D = 1..Len(list) /\ Len(list) \in Nat
    BY LenProperties DEF ListsOnce
  <1>2. IsFiniteSet(D)
    BY <1>1, FS_Interval
  <1>3. StrictlyOrders(R, S)
    BY PairsAreOrdered
  <1>4. /\ \A i \in D : list[i] \in S
        /\ \A i, j \in D : <<i, j>> \in Q <=> PairBefore(list[i], list[j])
        /\ \A i, j \in D : i # j => PairBefore(list[i], list[j]) \/ PairBefore(list[j], list[i])
    <2>1. \A i \in D : list[i] \in S
      BY <1>1, ElementOfSeq
    <2>2. \A x, y \in S : <<x, y>> \in R <=> PairBefore(x, y)
      BY DEF PairOrder
    <2>3. \A i, j \in D : <<i, j>> \in Q <=> <<list[i], list[j]>> \in R
      BY DEF OrderOfPlaces
    <2>. HIDE DEF R, Q
    <2>4. \A i, j \in D : i # j => list[i] # list[j]
      BY DEF ListsOnce
    <2>. QED
      BY <1>3, <2>1, <2>2, <2>3, <2>4 DEF StrictlyOrders
  <1>5. \A i \in D : Rank(Q, D, i) \in Nat
    <2>1. \A i \in D : Below(Q, D, i) \subseteq D
      BY DEF Below
    <2>. HIDE DEF D, Q
    <2>. QED
      BY <1>2, <2>1, FS_Subset, FS_CardinalityType DEF Rank
  <1>6. \A i \in D : place[i] = 1 + Rank(Q, D, i)
    <2>. SUFFICES ASSUME NEW i \in D PROVE place[i] = 1 + Rank(Q, D, i)
      OBVIOUS
    <2>. DEFINE before == {j \in DOMAIN list :
                             \/ PairBefore(list[j], list[i])
                             \/ ~PairBefore(list[i], list[j]) /\ j < i}
    <2>1. before = Below(Q, D, i)
      <3>1. \A j \in D : j < i => j # i
        BY <1>1
      <3>2. \A j \in D : j \in before <=> PairBefore(list[j], list[i])
        BY <1>4, <3>1
      <3>3. \A j \in D : j \in Below(Q, D, i) <=> PairBefore(list[j], list[i])
        BY <1>4 DEF Below
      <3>. QED
        BY <3>2, <3>3 DEF Below
    <2>2. place[i] = 1 + Cardinality(before)
      OBVIOUS
    <2>. QED
      BY <2>1, <2>2, Zenon DEF Rank
  <1>7. sorted = [n \in D |-> list[CHOOSE i \in D : place[i] = n]]
    BY Zenon DEF SortedBy
  <1>8. Arranged(list, R) = [n \in D |-> list[CHOOSE i \in D : Rank(Q, D, i) = n - 1]]
    BY Zenon DEF Arranged
  <1>9. \A n \in D : \A i \in D : place[i] = n <=> Rank(Q, D, i) = n - 1
    <2>. HIDE DEF place, Q
    <2>. QED
      BY <1>1, <1>5, <1>6
  <1>10. sorted = Arranged(list, R)
    <2>. HIDE DEF place, Q, R, D, sorted
    <2>. QED
      BY <1>7, <1>8, <1>9
  <1>11. ListsOnce(sorted, S) /\ InRankOrder(sorted, R)
    <2>. HIDE DEF R, sorted
    <2>. QED
      BY <1>3, <1>10, ArrangedByOrder
  <1>12. Sorted(sorted)
    <2>1. \A x, y : <<x, y>> \in R => PairBefore(x, y)
      BY DEF PairOrder
    <2>. HIDE DEF R, sorted
    <2>. QED
      BY <1>11, <2>1 DEF InRankOrder, Sorted
  <1>. QED
    BY <1>11, <1>12

-----------------------------------------------------------------------------
(* Every prefix that is done belongs to one thread, whose vector lists the *)
(* aliases behind its prefixes.                                            *)

Owners(done) ==
  /\ done \in [Workers -> SUBSET Items]
  /\ \A v, w \in Workers : v # w => done[v] \cap done[w] = {}
  /\ finished = UNION {done[w] : w \in Workers}
  /\ \A w \in Workers : /\ ListsOnce(output[w], AliasesBehind(hash, done[w]))
                        /\ w >= threads => done[w] = {}

OutputInv ==
  /\ DOMAIN output = Workers
  /\ \E done \in [Workers -> SUBSET Items] : Owners(done)

(* What the caller has collected.                                          *)
ResultInv ==
  /\ stage = "collect" => result = <<>>
  /\ stage # "collect" => main = "over"
  /\ stage = "extend" => ListsOnce(result, LocalAliases(hash, request))
  /\ stage = "done" => IsCatalogue(result, hash, request)

ArgumentsInv ==
  /\ hash \in Hashes /\ request \in Requests
  /\ items = PrefixCount
  /\ stage \in {"collect", "extend", "done"}

CatalogueInv == ArgumentsInv /\ OutputInv /\ ResultInv

LEMMA ItemsAreEnumerated ==
  ASSUME ArgumentsInv
  PROVE  Items = Enumerated(request) /\ Items \subseteq PrefixNumbers
  <1>1. request.prefix_count \in Nat /\ AllPrefixes \in Nat \ {0}
    BY RequestsAssumption, AllPrefixesAssumption DEF ArgumentsInv
  <1>2. /\ items \in {request.prefix_count, AllPrefixes}
        /\ items <= request.prefix_count /\ items <= AllPrefixes
    <2>1. request.prefix_count \in Int /\ AllPrefixes \in Int
      BY <1>1
    <2>2. items = Min({request.prefix_count, AllPrefixes})
      BY DEF ArgumentsInv, PrefixCount
    <2>. QED
      BY <2>1, <2>2, MinOfTwo
  <1>. QED
    BY <1>1, <1>2 DEF Items, Enumerated, PrefixNumbers

LEMMA InitEstablishesCatalogueInv == Init => CatalogueInv
  <1>. SUFFICES ASSUME Init PROVE CatalogueInv
    OBVIOUS
  <1>1. ArgumentsInv
    BY DEF Init, ArgumentsInv
  <1>2. OutputInv
    <2>. DEFINE done == [w \in Workers |-> {}]
    <2>1. done \in [Workers -> SUBSET Items]
      OBVIOUS
    <2>2. \A w \in Workers : done[w] = {} /\ output[w] = <<>>
      BY DEF Init
    <2>3. AliasesBehind(hash, {}) = {}
      BY DEF AliasesBehind
    <2>4. finished = {} /\ DOMAIN output = Workers
      BY DEF Init
    <2>. HIDE DEF done
    <2>5. UNION {done[w] : w \in Workers} = {}
      BY <2>2
    <2>6. Owners(done)
      BY <2>1, <2>2, <2>3, <2>4, <2>5, NothingListed DEF Owners
    <2>. QED
      BY <2>1, <2>4, <2>6 DEF OutputInv
  <1>3. ResultInv
    BY DEF Init, ResultInv
  <1>. QED
    BY <1>1, <1>2, <1>3 DEF CatalogueInv

(* Steps of the pool that finish no prefix.                                *)
LEMMA OtherStepsKeepCatalogueInv ==
  ASSUME CatalogueInv, UNCHANGED <<items, threads, finished>>, UNCHANGED catalogueVars,
         main = "over" => main' = "over"
  PROVE  CatalogueInv'
  <1>1. ArgumentsInv'
    BY DEF CatalogueInv, ArgumentsInv, catalogueVars, PrefixCount
  <1>2. OutputInv'
    <2>1. Items' = Items /\ Workers' = Workers
      BY DEF Items, Workers
    <2>2. \A done : Owners(done) => Owners(done)'
      BY <2>1 DEF Owners, catalogueVars
    <2>. QED
      BY <2>1, <2>2 DEF CatalogueInv, OutputInv, catalogueVars
  <1>3. ResultInv'
    BY DEF CatalogueInv, ResultInv, catalogueVars
  <1>. QED
    BY <1>1, <1>2, <1>3 DEF CatalogueInv

LEMMA WorkersExist ==
  ASSUME PoolInv, NEW w \in Workers, worker[w] # "absent"
  PROVE  w < threads
  <1>1. CASE main = "spawn"
    BY <1>1, MaxThreadsAssumption DEF PoolInv, CallerOK, PoolTypeOK, Workers
  <1>2. CASE main \in {"join", "over"}
    BY <1>2 DEF PoolInv, CallerOK
  <1>. QED
    BY <1>1, <1>2 DEF PoolInv, PoolTypeOK

LEMMA WorkKeepsCatalogueInv ==
  ASSUME PoolInv, CatalogueInv, NEW w \in Workers, Work(w)
  PROVE  CatalogueInv'
  <1>0. PICK p : p = item[w]
    OBVIOUS
  <1>1. worker[w] = "work" /\ p \in Items \ finished /\ w < threads /\ main # "over"
    <2>1. worker[w] = "work"
      BY DEF Work, Finish
    <2>2. p \in Items \ finished
      BY <1>0, <2>1 DEF PoolInv, EachItemOnce
    <2>3. main # "over"
      BY <2>1, OverMeansDone DEF AllDoneWhenOver
    <2>. QED
      BY <2>1, <2>2, <2>3, WorkersExist
  <1>2. /\ output' = [output EXCEPT ![w] = @ \o PairsOf(p)]
        /\ finished' = finished \cup {p}
        /\ UNCHANGED <<items, threads, main, hash, request, result, stage>>
    BY <1>0 DEF Work, Finish
  <1>3. PICK done \in [Workers -> SUBSET Items] : Owners(done)
    BY DEF CatalogueInv, OutputInv
  <1>4. p \notin done[w]
    BY <1>1, <1>3 DEF Owners
  <1>. DEFINE more == [done EXCEPT ![w] = @ \cup {p}]
  <1>5. ListsOnce(output[w] \o PairsOf(p), AliasesBehind(hash, done[w] \cup {p}))
    <2>1. AliasesBehind(hash, done[w] \cup {p})
            = AliasesBehind(hash, done[w]) \cup AliasesBehind(hash, {p})
      BY DEF AliasesBehind
    <2>2. AliasesBehind(hash, done[w]) \cap AliasesBehind(hash, {p}) = {}
      <3>1. ASSUME NEW pair, pair \in AliasesBehind(hash, done[w]),
                   pair \in AliasesBehind(hash, {p})
            PROVE  FALSE
        <4>1. pair.left[1] \in done[w] /\ pair.left[1] \in {p}
          BY <3>1, BehindOne
        <4>. QED
          BY <1>4, <4>1
      <3>. QED
        BY <3>1
    <2>3. ListsOnce(output[w], AliasesBehind(hash, done[w]))
      BY <1>3 DEF Owners
    <2>4. ListsOnce(PairsOf(p), AliasesBehind(hash, {p}))
      BY PairsOfAreListed
    <2>5. ListsOnce(output[w] \o PairsOf(p),
                    AliasesBehind(hash, done[w]) \cup AliasesBehind(hash, {p}))
      BY <2>2, <2>3, <2>4, ListsJoin
    <2>. QED
      BY <2>1, <2>5, Zenon
  <1>6. OutputInv'
    <2>1. Workers' = Workers /\ Items' = Items
      BY <1>2 DEF Workers, Items
    <2>2. more \in [Workers -> SUBSET Items]
      BY <1>1, <1>3
    <2>3. /\ more[w] = done[w] \cup {p}
          /\ \A v \in Workers \ {w} : more[v] = done[v]
      BY <1>3
    <2>4. /\ DOMAIN output' = Workers
          /\ output'[w] = output[w] \o PairsOf(p)
          /\ \A v \in Workers \ {w} : output'[v] = output[v]
      BY <1>2 DEF CatalogueInv, OutputInv
    <2>. HIDE DEF more
    <2>5. \A v \in Workers : p \notin done[v]
      BY <1>1, <1>3 DEF Owners
    <2>6. \A u, v \in Workers : u # v => more[u] \cap more[v] = {}
      BY <1>3, <2>3, <2>5 DEF Owners
    <2>7. finished' = UNION {more[v] : v \in Workers}
      BY <1>2, <1>3, <2>3 DEF Owners
    <2>8. ASSUME NEW v \in Workers
          PROVE  /\ ListsOnce(output'[v], AliasesBehind(hash', more[v]))
                 /\ v >= threads' => more[v] = {}
      <3>1. CASE v = w
        <4>1. ~(v >= threads')
          BY <1>1, <1>2, <3>1, MaxThreadsAssumption DEF PoolInv, PoolTypeOK, Workers
        <4>2. ListsOnce(output'[w], AliasesBehind(hash', more[w]))
          BY <1>2, <1>5, <2>3, <2>4, Zenon
        <4>. QED
          BY <3>1, <4>1, <4>2
      <3>2. CASE v # w
        BY <1>2, <1>3, <2>3, <2>4, <3>2 DEF Owners
      <3>. QED
        BY <3>1, <3>2
    <2>9. Owners(more)'
      BY <2>1, <2>2, <2>6, <2>7, <2>8 DEF Owners
    <2>. QED
      BY <2>1, <2>2, <2>4, <2>9 DEF OutputInv
  <1>7. ArgumentsInv' /\ ResultInv'
    BY <1>1, <1>2 DEF CatalogueInv, ArgumentsInv, ResultInv, PrefixCount
  <1>. QED
    BY <1>6, <1>7 DEF CatalogueInv

(* The joined vectors list every local alias.                              *)
LEMMA EveryAliasIsCollected ==
  ASSUME PoolInv, CatalogueInv, main = "over"
  PROVE  ListsOnce(Concatenated, LocalAliases(hash, request))
  <1>1. PICK done \in [Workers -> SUBSET Items] : Owners(done)
    BY DEF CatalogueInv, OutputInv
  <1>2. Items = Enumerated(request) /\ Items \subseteq PrefixNumbers /\ finished = Items
    BY ItemsAreEnumerated, OverMeansDone DEF CatalogueInv, AllDoneWhenOver
  <1>3. threads \in Nat /\ \A i \in 1..threads : i - 1 \in Workers
    BY MaxThreadsAssumption DEF PoolInv, PoolTypeOK, Workers
  <1>. DEFINE ss == [i \in 1..threads |-> output[i - 1]]
              parts == [i \in 1..threads |-> AliasesBehind(hash, done[i - 1])]
              all == AliasesBehind(hash, Items)
  <1>4. \A i \in 1..threads : ListsOnce(ss[i], parts[i])
    BY <1>1, <1>3 DEF Owners
  <1>5. \A i, j \in 1..threads : i # j => parts[i] \cap parts[j] = {}
    <2>. SUFFICES ASSUME NEW i \in 1..threads, NEW j \in 1..threads, i # j,
                         NEW x, x \in AliasesBehind(hash, done[i - 1]),
                         x \in AliasesBehind(hash, done[j - 1])
                  PROVE  FALSE
      OBVIOUS
    <2>1. x.left[1] \in done[i - 1] /\ x.left[1] \in done[j - 1]
      BY BehindOne
    <2>2. i - 1 \in Workers /\ j - 1 \in Workers /\ i - 1 # j - 1
      BY <1>3
    <2>3. done[i - 1] \cap done[j - 1] = {}
      BY <1>1, <2>2 DEF Owners
    <2>. QED
      BY <2>1, <2>3
  <1>6. UNION {parts[i] : i \in 1..threads} = all
    <2>1. ASSUME NEW i \in 1..threads, NEW x \in AliasesBehind(hash, done[i - 1])
          PROVE  x \in AliasesBehind(hash, Items)
      <3>1. done[i - 1] \subseteq Items
        BY <1>1, <1>3
      <3>. QED
        BY <3>1 DEF AliasesBehind
    <2>2. ASSUME NEW x \in AliasesBehind(hash, Items)
          PROVE  \E i \in 1..threads : x \in AliasesBehind(hash, done[i - 1])
      <3>1. x.left[1] \in Items /\ x \in AliasesBehind(hash, {x.left[1]})
        BY BehindOne
      <3>2. PICK w \in Workers : x.left[1] \in done[w]
        BY <1>1, <1>2, <3>1 DEF Owners
      <3>3. w \in Nat /\ w < threads
        BY <1>1, <1>3, <3>2, MaxThreadsAssumption DEF Owners, Workers
      <3>4. w + 1 \in 1..threads /\ (w + 1) - 1 = w
        BY <1>3, <3>3
      <3>5. x \in AliasesBehind(hash, done[w])
        BY <3>1, <3>2 DEF AliasesBehind
      <3>. QED
        BY <3>4, <3>5
    <2>. QED
      BY <2>1, <2>2
  <1>7. Sequences(ss, threads, all)
    <2>1. \A i \in 1..threads : parts[i] \subseteq all
      BY <1>6
    <2>2. ss = [i \in 1..threads |-> ss[i]]
      OBVIOUS
    <2>. HIDE DEF parts, ss, all
    <2>3. \A i \in 1..threads : ss[i] \in Seq(all)
      BY <1>4, <2>1, SeqMonotonic DEF ListsOnce
    <2>. QED
      BY <1>3, <2>2, <2>3 DEF Sequences
  <1>8. Concatenated = FlattenSeq(ss)
    BY Zenon DEF Concatenated
  <1>9. all = LocalAliases(hash, request)
    BY <1>2, LocalAreBehind
  <1>. HIDE DEF ss, parts, all
  <1>10. ListsOnce(FlattenSeq(ss), UNION {parts[i] : i \in 1..threads})
    BY <1>4, <1>5, <1>7, FlattenLists
  <1>. QED
    BY <1>6, <1>8, <1>9, <1>10, Zenon

LEMMA LocalAreShort ==
  ASSUME ArgumentsInv
  PROVE  LocalAliases(hash, request) \in SUBSET PairsOfShort
  <1>1. Enumerated(request) \in SUBSET PrefixNumbers
    BY DEF Enumerated
  <1>. QED
    BY <1>1, LocalArePairs, LocalAreBehind

LEMMA CollectKeepsCatalogueInv ==
  ASSUME PoolInv, CatalogueInv, Collect
  PROVE  CatalogueInv'
  <1>1. /\ main = "over" /\ stage = "collect" /\ stage' = "extend"
        /\ result' = SortedBy(Concatenated, PairBefore)
        /\ UNCHANGED <<poolVars, hash, request, output>>
    BY DEF Collect
  <1>2. ListsOnce(result', LocalAliases(hash, request))
    <2>1. LocalAliases(hash, request) \in SUBSET PairsOfShort
      BY LocalAreShort DEF CatalogueInv
    <2>. QED
      BY <1>1, <2>1, EveryAliasIsCollected, SortingArranges
  <1>3. ResultInv'
    BY <1>1, <1>2 DEF ResultInv, poolVars
  <1>4. ArgumentsInv'
    BY <1>1 DEF CatalogueInv, ArgumentsInv, poolVars, PrefixCount
  <1>5. OutputInv'
    <2>1. Items' = Items /\ Workers' = Workers
      BY <1>1 DEF Items, Workers, poolVars
    <2>2. \A done : Owners(done) => Owners(done)'
      BY <1>1, <2>1 DEF Owners, poolVars
    <2>. QED
      BY <1>1, <2>1, <2>2 DEF CatalogueInv, OutputInv
  <1>. QED
    BY <1>3, <1>4, <1>5 DEF CatalogueInv

LEMMA ListingIsCatalogue ==
  ASSUME NEW list, ListsOnce(list, LocalAliases(hash, request) \cup InheritedAliases(hash, request)),
         Sorted(list)
  PROVE  IsCatalogue(list, hash, request)
  <1>. DEFINE S == LocalAliases(hash, request) \cup InheritedAliases(hash, request)
  <1>. HIDE DEF S
  <1>1. ListsOnce(list, S)
    BY DEF S
  <1>2. \A n \in DOMAIN list : list[n] \in S
    BY <1>1, LenProperties, ElementOfSeq DEF ListsOnce
  <1>3. ToSet(list) = {list[n] : n \in DOMAIN list}
    BY Zenon DEF ToSet
  <1>4. ToSet(list) = S
    BY <1>1, <1>2, <1>3 DEF ListsOnce
  <1>. QED
    BY <1>4 DEF IsCatalogue, Sorted, S

LEMMA ExtendKeepsCatalogueInv ==
  ASSUME PoolInv, CatalogueInv, Extend
  PROVE  CatalogueInv'
  <1>. DEFINE local == LocalAliases(hash, request)
              inherited == InheritedAliases(hash, request)
              joined == IF request.prefix_count = AllPrefixes
                        THEN result \o InheritedPairs ELSE result
  <1>1. /\ main = "over" /\ stage = "extend" /\ stage' = "done"
        /\ result' = SortedBy(joined, PairBefore)
        /\ UNCHANGED <<poolVars, hash, request, output>>
    BY DEF Extend, CatalogueInv, ResultInv
  <1>2. ListsOnce(result, local)
    BY <1>1 DEF CatalogueInv, ResultInv
  <1>3. local \in SUBSET PairsOfShort /\ inherited \in SUBSET PairsOfShort
    BY LocalAreShort, InheritedArePairs DEF CatalogueInv
  <1>4. local \cap inherited = {}
    <2>1. \A pair \in local : OnePrefix(pair)
      <3>1. local = AliasesBehind(hash, Enumerated(request))
        BY LocalAreBehind
      <3>. HIDE DEF local
      <3>. QED
        BY <3>1, BehindSame
    <2>2. \A pair \in inherited : ~OnePrefix(pair)
      BY InheritedArePairs DEF OnePrefix
    <2>. QED
      BY <2>1, <2>2
  <1>. HIDE DEF local
  <1>5. ListsOnce(joined, local \cup inherited)
    <2>1. CASE request.prefix_count = AllPrefixes
      <3>1. ListsOnce(InheritedPairs, inherited)
        BY <2>1, InheritedAreListed
      <3>. HIDE DEF inherited
      <3>2. ListsOnce(result \o InheritedPairs, local \cup inherited)
        BY <1>2, <1>4, <3>1, ListsJoin
      <3>. QED
        BY <2>1, <3>2
    <2>2. CASE request.prefix_count # AllPrefixes
      <3>1. inherited = {}
        BY <2>2 DEF InheritedAliases
      <3>2. local \cup inherited = local /\ joined = result
        BY <2>2, <3>1
      <3>. QED
        BY <1>2, <3>2
    <2>. QED
      BY <2>1, <2>2
  <1>. HIDE DEF inherited, joined
  <1>6. ListsOnce(result', local \cup inherited) /\ Sorted(result')
    <2>1. local \cup inherited \in SUBSET PairsOfShort
      BY <1>3
    <2>2. /\ ListsOnce(SortedBy(joined, PairBefore), local \cup inherited)
          /\ Sorted(SortedBy(joined, PairBefore))
      BY <1>5, <2>1, SortingArranges
    <2>. QED
      BY <1>1, <2>2, Zenon
  <1>7. IsCatalogue(result', hash, request)
    BY <1>6, ListingIsCatalogue DEF local, inherited
  <1>8. ResultInv'
    BY <1>1, <1>7 DEF ResultInv, poolVars
  <1>9. ArgumentsInv'
    BY <1>1 DEF CatalogueInv, ArgumentsInv, poolVars, PrefixCount
  <1>10. OutputInv'
    <2>1. Items' = Items /\ Workers' = Workers
      BY <1>1 DEF Items, Workers, poolVars
    <2>2. \A done : Owners(done) => Owners(done)'
      BY <1>1, <2>1 DEF Owners, poolVars
    <2>. QED
      BY <1>1, <2>1, <2>2 DEF CatalogueInv, OutputInv
  <1>. QED
    BY <1>8, <1>9, <1>10 DEF CatalogueInv

LEMMA NextKeepsCatalogueInv == PoolInv /\ CatalogueInv /\ [Next]_vars => CatalogueInv'
  <1>. SUFFICES ASSUME PoolInv, CatalogueInv, [Next]_vars PROVE CatalogueInv'
    OBVIOUS
  <1>1. CASE (Spawn \/ StartJoining \/ Join \/ Leave) /\ UNCHANGED catalogueVars
    <2>1. UNCHANGED <<items, threads, finished>> /\ (main = "over" => main' = "over")
      BY <1>1 DEF Spawn, StartJoining, Join, Leave
    <2>. QED
      BY <1>1, <2>1, OtherStepsKeepCatalogueInv
  <1>2. CASE Collect
    BY <1>2, CollectKeepsCatalogueInv
  <1>3. CASE Extend
    BY <1>3, ExtendKeepsCatalogueInv
  <1>4. ASSUME NEW w \in Workers, Claim(w), UNCHANGED catalogueVars PROVE CatalogueInv'
    <2>1. UNCHANGED <<items, threads, finished>> /\ (main = "over" => main' = "over")
      BY <1>4 DEF Claim
    <2>. QED
      BY <1>4, <2>1, OtherStepsKeepCatalogueInv
  <1>5. ASSUME NEW w \in Workers, Work(w) PROVE CatalogueInv'
    BY <1>5, WorkKeepsCatalogueInv
  <1>6. CASE UNCHANGED vars
    <2>1. /\ UNCHANGED <<items, threads, finished>> /\ UNCHANGED catalogueVars
          /\ main' = main
      BY <1>6 DEF vars, poolVars
    <2>. QED
      BY <2>1, OtherStepsKeepCatalogueInv
  <1>. QED
    BY <1>1, <1>2, <1>3, <1>4, <1>5, <1>6 DEF Next, Caller, Thread, Returned

LEMMA CatalogueInvHolds == Spec => [](PoolInv /\ CatalogueInv)
  <1>1. Spec => []PoolInv
    BY CatalogueImplementsPool, PoolInvHolds, PTL
  <1>. QED
    BY <1>1, InitEstablishesCatalogueInv, NextKeepsCatalogueInv, PTL DEF Spec

-----------------------------------------------------------------------------
(* No pair is lost or found twice.                                         *)

LEMMA InvMeansNoneLost == PoolInv /\ CatalogueInv => NoneLostOrRepeated
  <1>. SUFFICES ASSUME PoolInv, CatalogueInv, NEW pair \in LocalAliases(hash, request)
                PROVE  Found(pair) = IF pair.left[1] < next THEN 1 ELSE 0
    BY DEF NoneLostOrRepeated
  <1>. DEFINE p == pair.left[1]
              Spots(w) == {w} \X {n \in DOMAIN output[w] : output[w][n] = pair}
              held == UNION {Spots(w) : w \in Workers}
              busy == {w \in Workers : worker[w] = "work" /\ item[w] = p}
  <1>1. PICK done \in [Workers -> SUBSET Items] : Owners(done)
    BY DEF CatalogueInv, OutputInv
  <1>2. p \in Items /\ pair \in AliasesBehind(hash, {p})
    <2>1. pair \in AliasesBehind(hash, Enumerated(request))
      BY LocalAreBehind
    <2>. QED
      BY <2>1, BehindOne, ItemsAreEnumerated DEF CatalogueInv
  <1>3. \A w \in Workers : pair \in AliasesBehind(hash, done[w]) <=> p \in done[w]
    <2>. SUFFICES ASSUME NEW w \in Workers
                  PROVE  pair \in AliasesBehind(hash, done[w]) <=> p \in done[w]
      OBVIOUS
    <2>1. pair \in AliasesBehind(hash, done[w]) => p \in done[w]
      BY BehindOne
    <2>2. p \in done[w] => pair \in AliasesBehind(hash, done[w])
      BY <1>2 DEF AliasesBehind
    <2>. QED
      BY <2>1, <2>2
  <1>4. Found(pair) = Cardinality(held) + Cardinality(busy)
    BY Zenon DEF Found
  <1>. HIDE DEF p
  <1>5. ASSUME NEW w \in Workers, p \notin done[w] PROVE Spots(w) = {}
    <2>1. ListsOnce(output[w], AliasesBehind(hash, done[w]))
      BY <1>1 DEF Owners
    <2>2. \A n \in DOMAIN output[w] : output[w][n] \in AliasesBehind(hash, done[w])
      BY <2>1, LenProperties, ElementOfSeq DEF ListsOnce
    <2>3. \A n \in DOMAIN output[w] : output[w][n] # pair
      BY <1>3, <1>5, <2>2
    <2>. QED
      BY <2>3
  <1>6. ASSUME NEW w \in Workers, p \in done[w]
        PROVE  \E n : Spots(w) = {<<w, n>>}
    <2>1. ListsOnce(output[w], AliasesBehind(hash, done[w]))
      BY <1>1 DEF Owners
    <2>2. PICK n \in DOMAIN output[w] : output[w][n] = pair
      BY <1>3, <1>6, <2>1 DEF ListsOnce
    <2>3. \A m \in DOMAIN output[w] : output[w][m] = pair <=> m = n
      BY <2>1, <2>2 DEF ListsOnce
    <2>4. Spots(w) = {<<w, n>>}
      BY <2>3
    <2>. QED
      BY <2>4
  <1>7. Cardinality({}) = 0 /\ \A x : Cardinality({x}) = 1
    BY FS_EmptySet, FS_Singleton
  <1>8. p < next <=> p \in finished \/ \E w \in Workers : worker[w] = "work" /\ item[w] = p
    BY <1>2 DEF PoolInv, CounterOK
  <1>9. CASE p \in finished
    <2>1. PICK w \in Workers : p \in done[w]
      BY <1>1, <1>9 DEF Owners
    <2>2. \A v \in Workers \ {w} : Spots(v) = {}
      BY <1>1, <1>5, <2>1 DEF Owners
    <2>3. PICK n : Spots(w) = {<<w, n>>}
      BY <1>6, <2>1
    <2>4. held = {<<w, n>>}
      <3>. HIDE DEF Spots
      <3>. QED
        BY <2>2, <2>3
    <2>5. busy = {}
      BY <1>9 DEF PoolInv, EachItemOnce
    <2>6. Cardinality(held) = 1 /\ Cardinality(busy) = 0
      <3>. HIDE DEF held, busy
      <3>. QED
        BY <1>7, <2>4, <2>5
    <2>. HIDE DEF held, busy
    <2>. QED
      BY <1>4, <1>8, <1>9, <2>6 DEF p
  <1>10. CASE p \notin finished
    <2>1. \A w \in Workers : p \notin done[w]
      BY <1>1, <1>10 DEF Owners
    <2>2. held = {}
      <3>1. \A w \in Workers : Spots(w) = {}
        BY <1>5, <2>1
      <3>. HIDE DEF Spots
      <3>. QED
        BY <3>1
    <2>3. CASE \E w \in Workers : worker[w] = "work" /\ item[w] = p
      <3>1. PICK w \in Workers : worker[w] = "work" /\ item[w] = p
        BY <2>3
      <3>2. busy = {w}
        BY <3>1 DEF PoolInv, EachItemOnce
      <3>3. Cardinality(held) = 0 /\ Cardinality(busy) = 1
        <4>. HIDE DEF held, busy
        <4>. QED
          BY <1>7, <2>2, <3>2
      <3>. HIDE DEF held, busy
      <3>. QED
        BY <1>4, <1>8, <2>3, <3>3 DEF p
    <2>4. CASE ~\E w \in Workers : worker[w] = "work" /\ item[w] = p
      <3>1. busy = {}
        BY <2>4
      <3>2. Cardinality(held) = 0 /\ Cardinality(busy) = 0
        <4>. HIDE DEF held, busy
        <4>. QED
          BY <1>7, <2>2, <3>1
      <3>. HIDE DEF held, busy
      <3>. QED
        BY <1>4, <1>8, <1>10, <2>4, <3>2 DEF p
    <2>. QED
      BY <2>3, <2>4
  <1>. QED
    BY <1>9, <1>10

(* At any moment a pair whose prefix the counter has passed is in exactly  *)
(* one vector or on its way there, and no other is: for every number of    *)
(* threads and however they interleave.                                    *)
THEOREM NoPairIsLostOrRepeated == Spec => []NoneLostOrRepeated
  BY CatalogueInvHolds, InvMeansNoneLost, PTL

-----------------------------------------------------------------------------
(* The enumeration implements its abstract specification.                  *)

LEMMA InitIsRequested == Init => Promised!Requested
  BY DEF Init, Promised!Requested

LEMMA PromisedIsCatalogue ==
  ASSUME NEW list, NEW h, NEW r
  PROVE  Promised!IsCatalogue(list, h, r) <=> IsCatalogue(list, h, r)
  <1>1. Promised!LocalAliases(h, r) = LocalAliases(h, r)
    BY DEF Promised!LocalAliases, LocalAliases, Promised!Enumerated, Enumerated,
           Promised!SymbolPairs, SymbolPairs, Promised!After, After,
           Promised!PrefixNumbers, PrefixNumbers, Promised!Symbols, Symbols
  <1>2. Promised!InheritedAliases(h, r) = InheritedAliases(h, r)
    BY DEF Promised!InheritedAliases, InheritedAliases, Promised!Symbols, Symbols,
           Promised!ToSet, ToSet
  <1>3. \A a, b : Promised!PairBefore(a, b) <=> PairBefore(a, b)
    BY DEF Promised!PairBefore, PairBefore, Promised!MessageBefore, MessageBefore
  <1>4. Promised!ToSet(list) = ToSet(list)
    BY DEF Promised!ToSet, ToSet
  <1>. QED
    BY <1>1, <1>2, <1>3, <1>4, Zenon DEF Promised!IsCatalogue, IsCatalogue

LEMMA StepDelivers ==
  ASSUME PoolInv, CatalogueInv, CatalogueInv', [Next]_vars
  PROVE  [Promised!Deliver]_<<hash, request, stage = "done",
                              IF stage = "done" THEN result ELSE <<>>>>
  <1>1. CASE Extend
    <2>1. stage # "done" /\ stage' = "done" /\ UNCHANGED <<hash, request>>
      BY <1>1 DEF Extend
    <2>2. IsCatalogue(result', hash, request)
      BY <2>1 DEF CatalogueInv, ResultInv
    <2>3. IsCatalogue(IF stage' = "done" THEN result' ELSE <<>>, hash, request)
      BY <2>1, <2>2, Zenon
    <2>4. Promised!Deliver
      <3>1. ~(stage = "done") /\ (IF stage = "done" THEN result ELSE <<>>) = <<>>
        BY <2>1
      <3>2. (stage = "done")' /\ UNCHANGED <<hash, request>>
        BY <2>1
      <3>. QED
        BY <2>3, <3>1, <3>2, PromisedIsCatalogue, Zenon DEF Promised!Deliver
    <2>. QED
      BY <2>4
  <1>2. CASE Collect
    BY <1>2 DEF Collect
  <1>3. CASE UNCHANGED catalogueVars
    BY <1>3 DEF catalogueVars
  <1>4. ASSUME NEW w \in Workers, Work(w) PROVE UNCHANGED <<hash, request, stage, result>>
    BY <1>4 DEF Work
  <1>5. CASE UNCHANGED vars
    BY <1>5 DEF vars, catalogueVars
  <1>. QED
    BY <1>1, <1>2, <1>3, <1>4, <1>5 DEF Next, Caller, Thread, Returned

(* Whatever the threads do, the caller gets at one moment what is promised *)
(* to it: all the aliases of its hash, each once, sorted, and nothing      *)
(* before that moment or after it.                                         *)
THEOREM EnumerationIsImplemented == Spec => ImplementsEnumeration
  <1>1. PoolInv /\ CatalogueInv /\ (PoolInv /\ CatalogueInv)' /\ [Next]_vars
          => [Promised!Deliver]_<<hash, request, stage = "done",
                                  IF stage = "done" THEN result ELSE <<>>>>
    BY StepDelivers
  <1>. QED
    BY <1>1, InitIsRequested, CatalogueInvHolds, PTL
       DEF Spec, ImplementsEnumeration, Promised!EnumerationSpec

=============================================================================
