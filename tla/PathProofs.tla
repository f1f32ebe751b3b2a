----------------------------- MODULE PathProofs -----------------------------
(***************************************************************************)
(* The searches along a bridged path, for every hash, every catalogue and  *)
(* every width of the beam.                                                *)
(***************************************************************************)
EXTENDS PathTools, InductionTheorems, SequenceTheorems

-----------------------------------------------------------------------------
(* The forward state of a message, by what one more symbol does to it.     *)

Absorbed(h, state, symbols) == Runs(h.absorb, state, symbols)

LEMMA AbsorbedNone ==
  ASSUME NEW h \in Hashes, NEW state \in States
  PROVE  Absorbed(h, state, <<>>) = state
  <1>1. h.absorb \in [States -> [Symbols -> States]]
    BY HashesAssumption
  <1>. QED
    BY <1>1, RunsNone DEF Absorbed

LEMMA AbsorbedMore ==
  ASSUME NEW h \in Hashes, NEW state \in States,
         NEW symbols \in Seq(Symbols), NEW symbol \in Symbols
  PROVE  /\ Absorbed(h, state, symbols) \in States
         /\ Absorbed(h, state, Append(symbols, symbol))
              = h.absorb[Absorbed(h, state, symbols)][symbol]
  <1>. DEFINE step == h.absorb
  <1>1. IsStep(step, States, Symbols)
    BY HashesAssumption DEF IsStep
  <1>. HIDE DEF step
  <1>2. Runs(step, state, symbols) \in States
    BY <1>1, RunsOn
  <1>3. Runs(step, state, Append(symbols, symbol)) = step[Runs(step, state, symbols)][symbol]
    BY <1>1, RunsOn
  <1>. QED
    BY <1>2, <1>3 DEF Absorbed, step

Messages == {m \in Seq(Nat) : m # <<>> /\ m[1] \in PrefixNumbers /\ Tail(m) \in Seq(Symbols)}

Bridges == {<<>>} \cup {<<b>> : b \in Symbols}

ForwardOf(h, message) == Absorbed(h, h.behind[message[1]], Tail(message))

LEMMA ForwardIs == \A message : Forward(message) = ForwardOf(hash, message)
  BY Zenon DEF Forward, Absorb, ForwardOf, Absorbed, Runs, FoldLeft, MapThenFoldSet

LEMMA FoldIs == \A state, symbols : FoldLeft(Absorb, state, symbols) = Absorbed(hash, state, symbols)
  BY Zenon DEF Absorb, Absorbed, Runs, FoldLeft, MapThenFoldSet

LEMMA SymbolsAreNumbers == Symbols \subseteq Nat /\ PrefixNumbers \subseteq Nat
  BY LastSymbolAssumption, AllPrefixesAssumption DEF Symbols, PrefixNumbers

LEMMA ForwardType ==
  ASSUME NEW h \in Hashes, NEW m \in Messages
  PROVE  ForwardOf(h, m) \in States
  <1>1. h.behind[m[1]] \in States /\ Tail(m) \in Seq(Symbols)
    BY HashesAssumption DEF Messages
  <1>2. 0 \in Symbols
    BY LastSymbolAssumption DEF Symbols
  <1>. QED
    BY <1>1, <1>2, AbsorbedMore DEF ForwardOf

LEMMA ForwardMore ==
  ASSUME NEW h \in Hashes, NEW m \in Messages, NEW x \in Symbols
  PROVE  /\ Append(m, x) \in Messages
         /\ ForwardOf(h, Append(m, x)) = h.absorb[ForwardOf(h, m)][x]
  <1>1. /\ m \in Seq(Nat) /\ m # <<>> /\ m[1] \in PrefixNumbers /\ Tail(m) \in Seq(Symbols)
        /\ x \in Nat /\ Len(m) \in Nat \ {0}
    BY SymbolsAreNumbers, EmptySeq DEF Messages
  <1>2. Tail(Append(m, x)) = Append(Tail(m), x)
    BY <1>1, HeadTailAppend
  <1>3. Append(m, x)[1] = m[1] /\ Append(m, x) \in Seq(Nat) /\ Append(m, x) # <<>>
    BY <1>1, AppendProperties
  <1>4. Append(m, x) \in Messages
    <2>1. Append(Tail(m), x) \in Seq(Symbols)
      BY <1>1, AppendProperties
    <2>. QED
      BY <1>1, <1>2, <1>3, <2>1 DEF Messages
  <1>5. h.behind[m[1]] \in States
    BY <1>1, HashesAssumption
  <1>6. ForwardOf(h, Append(m, x)) = Absorbed(h, h.behind[m[1]], Append(Tail(m), x))
    BY <1>2, <1>3, Zenon DEF ForwardOf
  <1>7. Absorbed(h, h.behind[m[1]], Append(Tail(m), x)) = h.absorb[ForwardOf(h, m)][x]
    BY <1>1, <1>5, AbsorbedMore DEF ForwardOf
  <1>. QED
    BY <1>4, <1>6, <1>7

(* A message bridged and extended by one symbol.                           *)
LEMMA ForwardBridged ==
  ASSUME NEW h \in Hashes, NEW m \in Messages, NEW bridge \in Bridges, NEW x \in Symbols
  PROVE  /\ (m \o bridge) \o <<x>> \in Messages
         /\ Absorbed(h, ForwardOf(h, m), bridge) \in States
         /\ ForwardOf(h, (m \o bridge) \o <<x>>) = h.absorb[Absorbed(h, ForwardOf(h, m), bridge)][x]
         /\ Len((m \o bridge) \o <<x>>) = Len(m) + Len(bridge) + 1
  <1>1. m \in Seq(Nat) /\ x \in Nat /\ Len(m) \in Nat /\ ForwardOf(h, m) \in States
    BY SymbolsAreNumbers, LenProperties, ForwardType DEF Messages
  <1>2. CASE bridge = <<>>
    <2>1. m \o bridge = m
      BY <1>1, <1>2, ConcatEmptySeq
    <2>2. m \o <<x>> = Append(m, x) /\ Len(Append(m, x)) = Len(m) + 1
      BY <1>1, AppendIsConcat, AppendProperties
    <2>3. Absorbed(h, ForwardOf(h, m), bridge) = ForwardOf(h, m)
      BY <1>1, <1>2, AbsorbedNone
    <2>4. (m \o bridge) \o <<x>> = Append(m, x)
      BY <2>1, <2>2, Zenon
    <2>5. Len(bridge) = 0
      BY <1>2
    <2>6. /\ Append(m, x) \in Messages
          /\ ForwardOf(h, Append(m, x)) = h.absorb[ForwardOf(h, m)][x]
      BY ForwardMore
    <2>7. (m \o bridge) \o <<x>> \in Messages
      BY <2>4, <2>6, Zenon
    <2>8. ForwardOf(h, (m \o bridge) \o <<x>>)
            = h.absorb[Absorbed(h, ForwardOf(h, m), bridge)][x]
      BY <2>3, <2>4, <2>6, Zenon
    <2>9. Len((m \o bridge) \o <<x>>) = Len(m) + Len(bridge) + 1
      BY <1>1, <2>2, <2>4, <2>5
    <2>. QED
      BY <1>1, <2>3, <2>7, <2>8, <2>9
  <1>3. CASE bridge # <<>>
    <2>1. PICK b \in Symbols : bridge = <<b>>
      BY <1>3 DEF Bridges
    <2>2. b \in Nat
      BY SymbolsAreNumbers
    <2>3. m \o bridge = Append(m, b) /\ Append(m, b) \in Messages /\ Append(m, b) \in Seq(Nat)
      BY <1>1, <2>1, <2>2, AppendIsConcat, AppendProperties, ForwardMore
    <2>4. Append(m, b) \o <<x>> = Append(Append(m, b), x)
      BY <1>1, <2>3, AppendIsConcat
    <2>5. Len(Append(Append(m, b), x)) = Len(m) + 2 /\ Len(bridge) = 1
      BY <1>1, <2>1, <2>2, <2>3, AppendProperties
    <2>6. Absorbed(h, ForwardOf(h, m), bridge) = h.absorb[ForwardOf(h, m)][b]
      <3>. DEFINE none == <<>>
      <3>1. none \in Seq(Symbols) /\ Append(none, b) = bridge
        BY <2>1
      <3>2. Absorbed(h, ForwardOf(h, m), none) = ForwardOf(h, m)
        BY <1>1, AbsorbedNone
      <3>. HIDE DEF none
      <3>3. Absorbed(h, ForwardOf(h, m), Append(none, b))
              = h.absorb[Absorbed(h, ForwardOf(h, m), none)][b]
        BY <1>1, <3>1, AbsorbedMore
      <3>. QED
        BY <3>1, <3>2, <3>3
    <2>7. ForwardOf(h, Append(m, b)) = h.absorb[ForwardOf(h, m)][b]
      BY ForwardMore
    <2>8. /\ Append(Append(m, b), x) \in Messages
          /\ ForwardOf(h, Append(Append(m, b), x)) = h.absorb[ForwardOf(h, Append(m, b))][x]
      BY <2>3, ForwardMore
    <2>9. ForwardOf(h, Append(m, b)) \in States
      BY <2>3, ForwardType
    <2>10. (m \o bridge) \o <<x>> = Append(Append(m, b), x)
      BY <2>3, <2>4, Zenon
    <2>11. ForwardOf(h, (m \o bridge) \o <<x>>)
             = h.absorb[Absorbed(h, ForwardOf(h, m), bridge)][x]
      BY <2>6, <2>7, <2>8, <2>10, Zenon
    <2>12. Absorbed(h, ForwardOf(h, m), bridge) \in States
      BY <2>6, <2>7, <2>9, Zenon
    <2>13. Len((m \o bridge) \o <<x>>) = Len(m) + Len(bridge) + 1
      BY <1>1, <2>5, <2>10
    <2>. QED
      BY <2>8, <2>10, <2>11, <2>12, <2>13
  <1>. QED
    BY <1>2, <1>3

(* The messages of the catalogue.                                          *)
LEMMA ForwardShort ==
  ASSUME NEW h \in Hashes, NEW p \in PrefixNumbers, NEW x \in Symbols
  PROVE  /\ <<p, x>> \in Messages
         /\ ForwardOf(h, <<p, x>>) = After(h, <<p, x>>)
  <1>. DEFINE none == <<>>
              m == <<p>>
  <1>1. none \in Seq(Symbols) /\ m \in Seq(Nat) /\ m # <<>> /\ m[1] = p /\ Tail(m) = none
    BY SymbolsAreNumbers
  <1>2. m \in Messages
    BY <1>1 DEF Messages
  <1>3. Append(m, x) = <<p, x>>
    <2>1. p \in Nat /\ x \in Nat
      BY SymbolsAreNumbers
    <2>2. Append(m, x) = m \o <<x>>
      BY <1>1, <2>1, AppendIsConcat
    <2>3. m \o <<x>> \in Seq(Nat) /\ Len(m \o <<x>>) = 2
          /\ (m \o <<x>>)[1] = p /\ (m \o <<x>>)[2] = x
      <3>1. <<x>> \in Seq(Nat) /\ Len(<<x>>) = 1 /\ Len(m) = 1 /\ <<x>>[1] = x
        BY <2>1
      <3>. QED
        BY <1>1, <3>1, ConcatProperties
    <2>4. <<p, x>> \in Seq(Nat) /\ Len(<<p, x>>) = 2 /\ <<p, x>>[1] = p /\ <<p, x>>[2] = x
      BY <2>1
    <2>5. \A i \in 1..2 : (m \o <<x>>)[i] = <<p, x>>[i]
      BY <2>3, <2>4
    <2>6. m \o <<x>> = <<p, x>>
      BY <2>3, <2>4, <2>5, SeqEqual
    <2>. QED
      BY <2>2, <2>6, Zenon
  <1>4. ForwardOf(h, m) = h.behind[p]
    <2>1. h.behind[p] \in States
      BY HashesAssumption
    <2>2. Absorbed(h, h.behind[p], <<>>) = h.behind[p]
      BY <2>1, AbsorbedNone
    <2>. QED
      BY <1>1, <2>2 DEF ForwardOf
  <1>5. After(h, <<p, x>>) = h.absorb[h.behind[p]][x]
    BY DEF After
  <1>. HIDE DEF m
  <1>. QED
    BY <1>2, <1>3, <1>4, <1>5, ForwardMore

-----------------------------------------------------------------------------
(* The catalogue is a sequence of aliases.                                 *)

ShortMessages == PrefixNumbers \X Symbols

PairsOfShort == [left : ShortMessages, right : ShortMessages]

LEMMA AliasesArePairs ==
  ASSUME NEW h \in Hashes, NEW r \in Requests,
         NEW alias \in LocalAliases(h, r) \cup InheritedAliases(h, r)
  PROVE  /\ alias \in PairsOfShort
         /\ alias.left # alias.right
         /\ After(h, alias.left) = After(h, alias.right)
  <1>1. CASE alias \in LocalAliases(h, r)
    <2>1. PICK p \in Enumerated(r), m \in SymbolPairs :
            /\ alias = [left |-> <<p, m[1]>>, right |-> <<p, m[2]>>]
            /\ After(h, alias.left) = After(h, alias.right)
      BY <1>1 DEF LocalAliases
    <2>2. p \in PrefixNumbers /\ m[1] \in Symbols /\ m[2] \in Symbols /\ m[1] # m[2]
      <3>1. p \in PrefixNumbers /\ m \in Symbols \X Symbols /\ m[1] < m[2]
        BY DEF Enumerated, SymbolPairs
      <3>2. m[1] \in Symbols /\ m[2] \in Symbols
        BY <3>1
      <3>3. m[1] \in Nat /\ m[2] \in Nat
        BY <3>2, SymbolsAreNumbers
      <3>. QED
        BY <3>1, <3>2, <3>3
    <2>. QED
      BY <2>1, <2>2 DEF PairsOfShort, ShortMessages
  <1>2. CASE alias \in InheritedAliases(h, r)
    <2>1. PICK base \in ToSet(KnownBases), third \in Symbols :
            /\ alias = [left |-> <<base[1], third>>, right |-> <<base[2], third>>]
            /\ h.behind[base[1]] = h.behind[base[2]]
      BY <1>2 DEF InheritedAliases
    <2>2. base \in PrefixNumbers \X PrefixNumbers /\ base[1] # base[2]
      <3>. DEFINE different == {b \in PrefixNumbers \X PrefixNumbers : b[1] # b[2]}
      <3>1. KnownBases \in Seq(different)
        BY KnownBasesAssumption
      <3>2. PICK n \in DOMAIN KnownBases : base = KnownBases[n]
        BY DEF ToSet
      <3>3. base \in different
        <4>. HIDE DEF different
        <4>. QED
          BY <3>1, <3>2, LenProperties, ElementOfSeq
      <3>. QED
        BY <3>3
    <2>3. After(h, alias.left) = After(h, alias.right)
      BY <2>1 DEF After
    <2>. QED
      BY <2>1, <2>2, <2>3 DEF PairsOfShort, ShortMessages
  <1>. QED
    BY <1>1, <1>2

LEMMA PairsAreFinite == IsFiniteSet(PairsOfShort)
  <1>. DEFINE made == [p \in ShortMessages \X ShortMessages |-> [left |-> p[1], right |-> p[2]]]
  <1>1. IsFiniteSet(Symbols) /\ IsFiniteSet(PrefixNumbers)
    BY LastSymbolAssumption, AllPrefixesAssumption, FS_Interval DEF Symbols, PrefixNumbers
  <1>2. IsFiniteSet(ShortMessages)
    BY <1>1, FS_Product DEF ShortMessages
  <1>3. IsFiniteSet(ShortMessages \X ShortMessages)
    BY <1>2, FS_Product
  <1>4. made \in Surjection(ShortMessages \X ShortMessages, PairsOfShort)
    <2>1. made \in [ShortMessages \X ShortMessages -> PairsOfShort]
      BY DEF PairsOfShort
    <2>2. \A pair \in PairsOfShort : \E p \in ShortMessages \X ShortMessages : made[p] = pair
      <3>. SUFFICES ASSUME NEW pair \in PairsOfShort
                    PROVE  \E p \in ShortMessages \X ShortMessages : made[p] = pair
        OBVIOUS
      <3>1. /\ <<pair.left, pair.right>> \in ShortMessages \X ShortMessages
            /\ pair = [left |-> pair.left, right |-> pair.right]
        BY DEF PairsOfShort
      <3>2. made[<<pair.left, pair.right>>] = pair
        BY <3>1
      <3>. QED
        BY <3>1, <3>2
    <2>. HIDE DEF made
    <2>. QED
      BY <2>1, <2>2 DEF Surjection
  <1>. HIDE DEF made
  <1>. QED
    BY <1>3, <1>4, FS_Surjection

LEMMA MessagesAreOrdered ==
  /\ \A a \in ShortMessages : ~MessageBefore(a, a)
  /\ \A a, b, c \in ShortMessages :
       MessageBefore(a, b) /\ MessageBefore(b, c) => MessageBefore(a, c)
  /\ \A a, b \in ShortMessages : a # b => MessageBefore(a, b) \/ MessageBefore(b, a)
  <1>1. \A a \in ShortMessages : a[1] \in PrefixNumbers /\ a[2] \in Symbols /\ a = <<a[1], a[2]>>
    BY DEF ShortMessages
  <1>2. \A a \in ShortMessages : a[1] \in Nat /\ a[2] \in Nat
    BY <1>1, SymbolsAreNumbers
  <1>. QED
    BY <1>1, <1>2 DEF MessageBefore

PairOrder(S) == {p \in S \X S : PairBefore(p[1], p[2])}

LEMMA PairsAreOrdered ==
  ASSUME NEW S \in SUBSET PairsOfShort
  PROVE  StrictlyOrders(PairOrder(S), S)
  <1>1. \A a \in S : a.left \in ShortMessages /\ a.right \in ShortMessages
                     /\ a = [left |-> a.left, right |-> a.right]
    BY DEF PairsOfShort
  <1>2. \A a, b \in S : <<a, b>> \in PairOrder(S) <=> PairBefore(a, b)
    BY DEF PairOrder
  <1>3. \A a \in S : ~PairBefore(a, a)
    BY <1>1, MessagesAreOrdered DEF PairBefore
  <1>4. \A a, b, c \in S : PairBefore(a, b) /\ PairBefore(b, c) => PairBefore(a, c)
    BY <1>1, MessagesAreOrdered DEF PairBefore
  <1>5. \A a, b \in S : a # b => PairBefore(a, b) \/ PairBefore(b, a)
    BY <1>1, MessagesAreOrdered DEF PairBefore
  <1>. QED
    BY <1>2, <1>3, <1>4, <1>5 DEF StrictlyOrders

LEMMA CatalogueListsPairs ==
  ASSUME NEW h \in Hashes, NEW r \in Requests
  PROVE  /\ Catalogue(h, r) \in Seq(LocalAliases(h, r) \cup InheritedAliases(h, r))
         /\ \A n \in DOMAIN Catalogue(h, r) :
              Catalogue(h, r)[n] \in LocalAliases(h, r) \cup InheritedAliases(h, r)
  <1>. DEFINE S == LocalAliases(h, r) \cup InheritedAliases(h, r)
              size == Cardinality(S)
              R == PairOrder(S)
              Place(x) == Cardinality({y \in S : PairBefore(y, x)})
              Nth(n) == CHOOSE x \in S : Place(x) = n - 1
              list == Catalogue(h, r)
  <1>1. S \in SUBSET PairsOfShort
    BY AliasesArePairs
  <1>2. IsFiniteSet(S) /\ size \in Nat
    <2>. HIDE DEF S
    <2>. QED
      BY <1>1, PairsAreFinite, FS_Subset, FS_CardinalityType
  <1>3. list = [n \in 1..size |-> Nth(n)]
    BY Zenon DEF Catalogue, InOrder
  <1>. HIDE DEF S
  <1>4. \A x \in S : Place(x) = Rank(R, S, x)
    <2>1. \A x \in S : {y \in S : PairBefore(y, x)} = Below(R, S, x)
      BY DEF Below, PairOrder
    <2>. QED
      BY <2>1, Zenon DEF Rank
  <1>. HIDE DEF Place, size
  <1>5. \A n \in 1..size : Nth(n) \in S
    <2>1. \A n \in 1..size : \E x \in S : Place(x) = n - 1
      BY <1>1, <1>2, <1>4, PairsAreOrdered, EveryRankIsTaken DEF size
    <2>. QED
      BY <2>1
  <1>. HIDE DEF Nth
  <1>6. list \in [1..size -> S]
    BY <1>3, <1>5
  <1>. HIDE DEF list
  <1>7. list \in Seq(S)
    BY <1>2, <1>6, SeqDef
  <1>8. \A n \in DOMAIN list : list[n] \in S
    BY <1>6
  <1>. QED
    BY <1>7, <1>8 DEF list, S

-----------------------------------------------------------------------------
(* The extensions of a state.                                              *)

AliasesOf(h, state) == {m \in SymbolPairs : h.absorb[state][m[1]] = h.absorb[state][m[2]]}

SecondFirst(a, b) == a[2] < b[2] \/ (a[2] = b[2] /\ a[1] < b[1])

AliasOrder(S) == {p \in S \X S : SecondFirst(p[1], p[2])}

LEMMA SymbolPairsAreFinite == IsFiniteSet(SymbolPairs)
  <1>1. IsFiniteSet(Symbols)
    BY LastSymbolAssumption, FS_Interval DEF Symbols
  <1>2. IsFiniteSet(Symbols \X Symbols)
    BY <1>1, FS_Product
  <1>3. SymbolPairs \subseteq Symbols \X Symbols
    BY DEF SymbolPairs
  <1>. QED
    BY <1>2, <1>3, FS_Subset

LEMMA AliasesAreOrdered ==
  ASSUME NEW S \in SUBSET SymbolPairs
  PROVE  StrictlyOrders(AliasOrder(S), S)
  <1>1. \A a \in S : a = <<a[1], a[2]>> /\ a[1] \in Nat /\ a[2] \in Nat
    <2>1. \A a \in S : a \in Symbols \X Symbols
      BY DEF SymbolPairs
    <2>. QED
      BY <2>1, SymbolsAreNumbers
  <1>2. \A a, b \in S : <<a, b>> \in AliasOrder(S) <=> SecondFirst(a, b)
    BY DEF AliasOrder
  <1>3. \A a \in S : ~SecondFirst(a, a)
    BY <1>1 DEF SecondFirst
  <1>4. \A a, b, c \in S : SecondFirst(a, b) /\ SecondFirst(b, c) => SecondFirst(a, c)
    BY <1>1 DEF SecondFirst
  <1>5. \A a, b \in S : a # b => SecondFirst(a, b) \/ SecondFirst(b, a)
    <2>. SUFFICES ASSUME NEW a \in S, NEW b \in S, ~SecondFirst(a, b), ~SecondFirst(b, a)
                  PROVE  a = b
      OBVIOUS
    <2>1. a[1] = b[1] /\ a[2] = b[2]
      BY <1>1 DEF SecondFirst
    <2>. QED
      BY <1>1, <2>1
  <1>. QED
    BY <1>2, <1>3, <1>4, <1>5 DEF StrictlyOrders

(* A sequence that lists a set.                                            *)
Lists(list, S) ==
  /\ list \in Seq(S)
  /\ \A x \in S : \E n \in 1..Len(list) : list[n] = x

LEMMA SymbolAliasesAreListed ==
  ASSUME hash \in Hashes, NEW state
  PROVE  Lists(SymbolAliases(state), AliasesOf(hash, state))
  <1>. DEFINE S == AliasesOf(hash, state)
              size == Cardinality(S)
              R == AliasOrder(S)
              Place(x) == Cardinality({y \in S : SecondFirst(y, x)})
              Nth(n) == CHOOSE x \in S : Place(x) = n - 1
              list == SymbolAliases(state)
  <1>1. S \in SUBSET SymbolPairs
    BY DEF AliasesOf
  <1>2. IsFiniteSet(S) /\ size \in Nat
    <2>. HIDE DEF S
    <2>. QED
      BY <1>1, SymbolPairsAreFinite, FS_Subset, FS_CardinalityType
  <1>3. list = [n \in 1..size |-> Nth(n)]
    BY Zenon DEF SymbolAliases, Absorb, AliasesOf, SecondFirst, InOrder
  <1>. HIDE DEF S
  <1>4. \A x \in S : Place(x) = Rank(R, S, x)
    <2>1. \A x \in S : {y \in S : SecondFirst(y, x)} = Below(R, S, x)
      BY DEF Below, AliasOrder
    <2>. QED
      BY <2>1, Zenon DEF Rank
  <1>. HIDE DEF Place, size
  <1>5. \A n \in 1..size : Nth(n) \in S /\ Place(Nth(n)) = n - 1
    <2>1. \A n \in 1..size : \E x \in S : Place(x) = n - 1
      BY <1>1, <1>2, <1>4, AliasesAreOrdered, EveryRankIsTaken DEF size
    <2>. QED
      BY <2>1
  <1>. HIDE DEF Nth
  <1>6. list \in [1..size -> S] /\ \A n \in 1..size : list[n] = Nth(n)
    BY <1>3, <1>5
  <1>. HIDE DEF list
  <1>7. list \in Seq(S) /\ Len(list) = size
    <2>1. list \in Seq(S)
      BY <1>2, <1>6, SeqDef
    <2>2. DOMAIN list = 1..size /\ DOMAIN list = 1..Len(list) /\ Len(list) \in Nat
      BY <1>6, <2>1, LenProperties
    <2>. QED
      BY <1>2, <2>1, <2>2
  <1>8. \A n \in 1..size : Rank(R, S, list[n]) = n - 1
    BY <1>4, <1>5, <1>6
  <1>9. \A x \in S : \E n \in 1..size : list[n] = x
    <2>1. StrictlyOrders(R, S)
      BY <1>1, AliasesAreOrdered
    <2>2. Ranked(list, R, S)
      BY <1>6, <1>8 DEF Ranked, size
    <2>. HIDE DEF R
    <2>. QED
      BY <1>2, <2>1, <2>2, ListsInOrder DEF size
  <1>. QED
    BY <1>7, <1>9 DEF Lists, list, S

StepRecords == [bridge : Bridges, left : Symbols, right : Symbols, common : States]

(* An extension goes over its bridge to its alias, and to the common state *)
(* of either symbol.                                                       *)
LeadsOn(h, state, step) ==
  /\ <<step.left, step.right>> \in AliasesOf(h, Absorbed(h, state, step.bridge))
  /\ step.common = h.absorb[Absorbed(h, state, step.bridge)][step.left]

Offers(h, state, bridges, steps) ==
  /\ steps \in Seq(StepRecords)
  /\ \A n \in 1..Len(steps) : LeadsOn(h, state, steps[n])
  /\ \A b \in bridges : \A m \in AliasesOf(h, Absorbed(h, state, b)) :
       \E n \in 1..Len(steps) : steps[n].common = h.absorb[Absorbed(h, state, b)][m[1]]

LEMMA BridgedStates ==
  ASSUME NEW h \in Hashes, NEW state \in States
  PROVE  /\ Absorbed(h, state, <<>>) = state
         /\ \A b \in Symbols : Absorbed(h, state, <<b>>) = h.absorb[state][b]
         /\ \A b \in Bridges : Absorbed(h, state, b) \in States
  <1>1. Absorbed(h, state, <<>>) = state
    BY AbsorbedNone
  <1>2. ASSUME NEW b \in Symbols PROVE Absorbed(h, state, <<b>>) = h.absorb[state][b]
    <2>. DEFINE none == <<>>
    <2>1. none \in Seq(Symbols) /\ Append(none, b) = <<b>> /\ Absorbed(h, state, none) = state
      BY <1>1
    <2>. HIDE DEF none
    <2>2. Absorbed(h, state, Append(none, b)) = h.absorb[Absorbed(h, state, none)][b]
      BY <2>1, AbsorbedMore
    <2>. QED
      BY <2>1, <2>2
  <1>3. \A b \in Symbols : h.absorb[state][b] \in States
    BY HashesAssumption
  <1>. QED
    BY <1>1, <1>2, <1>3 DEF Bridges

LEMMA StepsOverAreOffered ==
  ASSUME hash \in Hashes, NEW state \in States, NEW bridge \in Bridges
  PROVE  Offers(hash, state, {bridge}, StepsOver(state, bridge))
  <1>. DEFINE B == Absorbed(hash, state, bridge)
              aliases == SymbolAliases(B)
              steps == StepsOver(state, bridge)
  <1>1. B \in States
    BY BridgedStates
  <1>2. Lists(aliases, AliasesOf(hash, B))
    BY SymbolAliasesAreListed
  <1>3. steps = [n \in DOMAIN aliases |->
                   [bridge |-> bridge, left |-> aliases[n][1], right |-> aliases[n][2],
                    common |-> hash.absorb[B][aliases[n][1]]]]
    <2>1. FoldLeft(Absorb, state, bridge) = B
      BY FoldIs
    <2>. HIDE DEF B
    <2>. QED
      BY <2>1, Zenon DEF StepsOver, Absorb
  <1>. HIDE DEF steps
  <1>. HIDE DEF aliases
  <1>4. /\ Len(aliases) \in Nat /\ DOMAIN aliases = 1..Len(aliases)
        /\ \A n \in 1..Len(aliases) : aliases[n] \in AliasesOf(hash, B)
        /\ \A m \in AliasesOf(hash, B) : \E n \in 1..Len(aliases) : aliases[n] = m
    <2>. HIDE DEF B
    <2>. QED
      BY <1>2, LenProperties, ElementOfSeq DEF Lists
  <1>5. \A m \in AliasesOf(hash, B) :
          m[1] \in Symbols /\ m[2] \in Symbols /\ hash.absorb[B][m[1]] \in States
          /\ m = <<m[1], m[2]>>
    <2>. HIDE DEF B
    <2>. QED
      BY <1>1, HashesAssumption DEF AliasesOf, SymbolPairs
  <1>6. \A n \in 1..Len(aliases) :
          /\ steps[n].bridge = bridge
          /\ <<steps[n].left, steps[n].right>> = aliases[n]
          /\ steps[n].common = hash.absorb[B][aliases[n][1]]
          /\ steps[n].left = aliases[n][1]
          /\ steps[n] \in StepRecords
    <2>. HIDE DEF B
    <2>. QED
      BY <1>3, <1>4, <1>5 DEF StepRecords
  <1>7. steps \in Seq(StepRecords) /\ Len(steps) = Len(aliases)
    <2>1. steps \in [1..Len(aliases) -> StepRecords]
      BY <1>3, <1>4, <1>6
    <2>2. steps \in Seq(StepRecords)
      BY <1>4, <2>1, SeqDef
    <2>3. DOMAIN steps = 1..Len(aliases) /\ DOMAIN steps = 1..Len(steps) /\ Len(steps) \in Nat
      BY <2>1, <2>2, LenProperties
    <2>. QED
      BY <1>4, <2>2, <2>3
  <1>8. \A n \in 1..Len(steps) : LeadsOn(hash, state, steps[n])
    <2>. TAKE n \in 1..Len(steps)
    <2>1. Absorbed(hash, state, steps[n].bridge) = B
      BY <1>6, <1>7
    <2>. HIDE DEF B
    <2>. QED
      BY <1>4, <1>6, <1>7, <2>1, SMTT(30) DEF LeadsOn
  <1>9. \A m \in AliasesOf(hash, B) :
          \E n \in 1..Len(steps) : steps[n].common = hash.absorb[B][m[1]]
    BY <1>4, <1>6, <1>7
  <1>10. \A b \in {bridge} : \A m \in AliasesOf(hash, Absorbed(hash, state, b)) :
           \E n \in 1..Len(steps) :
             steps[n].common = hash.absorb[Absorbed(hash, state, b)][m[1]]
    BY <1>9, Zenon
  <1>. HIDE DEF B
  <1>11. Offers(hash, state, {bridge}, steps)
    BY <1>7, <1>8, <1>10, Zenon DEF Offers
  <1>. QED
    BY <1>11 DEF steps

LEMMA OffersJoined ==
  ASSUME NEW h, NEW state, NEW A, NEW B, NEW s, NEW t,
         Offers(h, state, A, s), Offers(h, state, B, t)
  PROVE  Offers(h, state, A \cup B, s \o t)
  <1>1. s \in Seq(StepRecords) /\ t \in Seq(StepRecords)
    BY DEF Offers
  <1>2. /\ Len(s) \in Nat /\ Len(t) \in Nat /\ s \o t \in Seq(StepRecords)
        /\ Len(s \o t) = Len(s) + Len(t)
        /\ \A n \in 1..(Len(s) + Len(t)) :
             (s \o t)[n] = IF n <= Len(s) THEN s[n] ELSE t[n - Len(s)]
    BY <1>1, ConcatProperties, LenProperties
  <1>3. ASSUME NEW n \in 1..Len(s \o t) PROVE LeadsOn(h, state, (s \o t)[n])
    <2>1. CASE n <= Len(s)
      <3>1. n \in 1..Len(s) /\ (s \o t)[n] = s[n]
        BY <1>2, <2>1
      <3>2. LeadsOn(h, state, s[n])
        BY <3>1 DEF Offers
      <3>. QED
        BY <3>1, <3>2
    <2>2. CASE ~(n <= Len(s))
      <3>1. n - Len(s) \in 1..Len(t) /\ (s \o t)[n] = t[n - Len(s)]
        BY <1>2, <2>2
      <3>2. LeadsOn(h, state, t[n - Len(s)])
        BY <3>1 DEF Offers
      <3>. QED
        BY <3>1, <3>2
    <2>. QED
      BY <2>1, <2>2
  <1>4. ASSUME NEW b \in A \cup B, NEW m \in AliasesOf(h, Absorbed(h, state, b))
        PROVE  \E n \in 1..Len(s \o t) :
                 (s \o t)[n].common = h.absorb[Absorbed(h, state, b)][m[1]]
    <2>1. CASE b \in A
      <3>1. PICK n \in 1..Len(s) : s[n].common = h.absorb[Absorbed(h, state, b)][m[1]]
        BY <2>1 DEF Offers
      <3>2. n \in 1..Len(s \o t) /\ (s \o t)[n] = s[n]
        BY <1>2
      <3>. QED
        BY <3>1, <3>2
    <2>2. CASE b \in B
      <3>1. PICK n \in 1..Len(t) : t[n].common = h.absorb[Absorbed(h, state, b)][m[1]]
        BY <2>2 DEF Offers
      <3>2. n + Len(s) \in 1..Len(s \o t) /\ (s \o t)[n + Len(s)] = t[n]
        BY <1>2
      <3>. QED
        BY <3>1, <3>2
    <2>. QED
      BY <2>1, <2>2
  <1>5. \A b \in A \cup B : \A m \in AliasesOf(h, Absorbed(h, state, b)) :
          \E n \in 1..Len(s \o t) :
            (s \o t)[n].common = h.absorb[Absorbed(h, state, b)][m[1]]
    BY <1>4
  <1>. QED
    BY <1>2, <1>3, <1>5 DEF Offers

(* What a call of find_bridged_tail tries is what there is.                *)
LEMMA StepsAreOffered ==
  ASSUME hash \in Hashes, NEW state \in States
  PROVE  Offers(hash, state, Bridges, Steps(state))
  <1>. DEFINE over == [n \in 1..(LastSymbol + 1) |-> StepsOver(state, <<n - 1>>)]
              all == FlattenSeq(over)
              bridged == {<<b>> : b \in Symbols}
              size == LastSymbol + 1
  <1>1. size \in Nat /\ \A n \in 1..size : n - 1 \in Symbols
    BY LastSymbolAssumption DEF Symbols
  <1>2. ASSUME NEW n \in 1..size
        PROVE  over[n] = StepsOver(state, <<n - 1>>)
               /\ Offers(hash, state, {<<n - 1>>}, over[n])
    <2>1. <<n - 1>> \in Bridges
      BY <1>1 DEF Bridges
    <2>2. over[n] = StepsOver(state, <<n - 1>>)
      OBVIOUS
    <2>. QED
      BY <2>1, <2>2, StepsOverAreOffered
  <1>3. over \in [1..size -> Seq(StepRecords)]
    <2>1. \A n \in 1..size : over[n] \in Seq(StepRecords)
      BY <1>2 DEF Offers
    <2>. QED
      BY <2>1
  <1>. HIDE DEF over
  <1>4. /\ all \in Seq(StepRecords)
        /\ \A i \in DOMAIN all : \E k \in 1..size : \E j \in DOMAIN over[k] : all[i] = over[k][j]
        /\ \A k \in 1..size : \A j \in DOMAIN over[k] : \E i \in DOMAIN all : all[i] = over[k][j]
    <2>1. Sequences(over, size, StepRecords)
      BY <1>1, <1>3 DEF Sequences
    <2>. HIDE DEF size
    <2>2. all \in Seq(StepRecords) /\ HoldsAll(all, over, size)
      BY <2>1, FlattenHolds
    <2>. QED
      BY <2>2 DEF HoldsAll
  <1>. HIDE DEF all
  <1>5. DOMAIN all = 1..Len(all) /\ \A k \in 1..size : DOMAIN over[k] = 1..Len(over[k])
    BY <1>3, <1>4, LenProperties
  <1>6. ASSUME NEW i \in 1..Len(all) PROVE LeadsOn(hash, state, all[i])
    <2>1. PICK k \in 1..size : \E j \in DOMAIN over[k] : all[i] = over[k][j]
      BY <1>4, <1>5
    <2>2. PICK j \in 1..Len(over[k]) : all[i] = over[k][j]
      BY <1>5, <2>1
    <2>3. LeadsOn(hash, state, over[k][j])
      BY <1>2 DEF Offers
    <2>. QED
      BY <2>2, <2>3
  <1>7. ASSUME NEW b \in bridged, NEW m \in AliasesOf(hash, Absorbed(hash, state, b))
        PROVE  \E i \in 1..Len(all) :
                 all[i].common = hash.absorb[Absorbed(hash, state, b)][m[1]]
    <2>1. PICK k \in 1..size : b = <<k - 1>>
      <3>1. PICK x \in Symbols : b = <<x>>
        OBVIOUS
      <3>2. x + 1 \in 1..size /\ (x + 1) - 1 = x
        BY <3>1, LastSymbolAssumption DEF Symbols
      <3>. QED
        BY <3>1, <3>2
    <2>2. PICK j \in 1..Len(over[k]) :
            over[k][j].common = hash.absorb[Absorbed(hash, state, b)][m[1]]
      BY <1>2, <2>1 DEF Offers
    <2>3. PICK i \in DOMAIN all : all[i] = over[k][j]
      BY <1>4, <1>5
    <2>. QED
      BY <1>5, <2>2, <2>3
  <1>8. Offers(hash, state, bridged, all)
    <2>. HIDE DEF bridged
    <2>. QED
      BY <1>4, <1>6, <1>7 DEF Offers
  <1>9. Offers(hash, state, {<<>>}, StepsOver(state, <<>>))
    BY StepsOverAreOffered DEF Bridges
  <1>10. Steps(state) = StepsOver(state, <<>>) \o all
    BY Zenon DEF Steps, all, over
  <1>11. Bridges = {<<>>} \cup bridged
    BY Zenon DEF Bridges
  <1>. HIDE DEF bridged
  <1>12. Offers(hash, state, {<<>>} \cup bridged, StepsOver(state, <<>>) \o all)
    BY <1>8, <1>9, OffersJoined
  <1>. QED
    BY <1>10, <1>11, <1>12, Zenon

-----------------------------------------------------------------------------
(* What is behind a state.                                                 *)

(* Another state is behind it over one alias and at most a bridge.         *)
OneOn(h, state, next) ==
  \E b \in Bridges : \E m \in AliasesOf(h, Absorbed(h, state, b)) :
    next = h.absorb[Absorbed(h, state, b)][m[1]]

Chains(h, n, chain) == \A k \in 1..n : OneOn(h, chain[k - 1], chain[k])

Behind(h, n, state) ==
  \E chain \in [0..n -> States] : chain[0] = state /\ Chains(h, n, chain)

LEMMA BehindUnfolds ==
  ASSUME NEW h \in Hashes, NEW state \in States
  PROVE  /\ Behind(h, 0, state)
         /\ \A n \in Nat \ {0} :
              Behind(h, n, state) <=> \E t \in States : OneOn(h, state, t) /\ Behind(h, n - 1, t)
  <1>1. Behind(h, 0, state)
    <2>. DEFINE chain == [k \in 0..0 |-> state]
    <2>1. chain \in [0..0 -> States] /\ chain[0] = state
      OBVIOUS
    <2>2. Chains(h, 0, chain)
      BY DEF Chains
    <2>. QED
      BY <2>1, <2>2, Zenon DEF Behind
  <1>2. ASSUME NEW n \in Nat \ {0}, Behind(h, n, state)
        PROVE  \E t \in States : OneOn(h, state, t) /\ Behind(h, n - 1, t)
    <2>1. PICK chain \in [0..n -> States] : chain[0] = state /\ Chains(h, n, chain)
      BY <1>2 DEF Behind
    <2>. DEFINE rest == [k \in 0..(n - 1) |-> chain[k + 1]]
    <2>2. rest \in [0..(n - 1) -> States] /\ rest[0] = chain[1] /\ chain[1] \in States
      OBVIOUS
    <2>3. Chains(h, n - 1, rest)
      <3>1. ASSUME NEW k \in 1..(n - 1) PROVE OneOn(h, rest[k - 1], rest[k])
        <4>1. k + 1 \in 1..n /\ rest[k - 1] = chain[(k + 1) - 1] /\ rest[k] = chain[k + 1]
          OBVIOUS
        <4>. HIDE DEF rest
        <4>. QED
          BY <2>1, <4>1 DEF Chains
      <3>. QED
        BY <3>1 DEF Chains
    <2>. HIDE DEF rest
    <2>4. OneOn(h, state, chain[1])
      <3>1. 1 \in 1..n /\ chain[1 - 1] = state
        BY <2>1
      <3>2. OneOn(h, chain[1 - 1], chain[1])
        BY <2>1, <3>1, Zenon DEF Chains
      <3>. QED
        BY <3>1, <3>2
    <2>5. Behind(h, n - 1, chain[1])
      BY <2>2, <2>3, Zenon DEF Behind
    <2>. QED
      BY <2>2, <2>4, <2>5
  <1>3. ASSUME NEW n \in Nat \ {0}, NEW t \in States, OneOn(h, state, t), Behind(h, n - 1, t)
        PROVE  Behind(h, n, state)
    <2>1. PICK rest \in [0..(n - 1) -> States] : rest[0] = t /\ Chains(h, n - 1, rest)
      BY <1>3 DEF Behind
    <2>. DEFINE chain == [k \in 0..n |-> IF k = 0 THEN state ELSE rest[k - 1]]
    <2>2. chain \in [0..n -> States] /\ chain[0] = state
      OBVIOUS
    <2>3. ASSUME NEW k \in 1..n PROVE OneOn(h, chain[k - 1], chain[k])
      <3>1. CASE k = 1
        <4>1. chain[k - 1] = state /\ chain[k] = t
          BY <2>1, <3>1
        <4>. QED
          BY <1>3, <4>1
      <3>2. CASE k # 1
        <4>1. k - 1 \in 1..(n - 1) /\ chain[k - 1] = rest[(k - 1) - 1] /\ chain[k] = rest[k - 1]
          BY <3>2
        <4>. HIDE DEF chain
        <4>. QED
          BY <2>1, <4>1 DEF Chains
      <3>. QED
        BY <3>1, <3>2
    <2>. HIDE DEF chain
    <2>. QED
      BY <2>2, <2>3 DEF Behind, Chains
  <1>. QED
    BY <1>1, <1>2, <1>3

LEMMA ExtensibleIs ==
  ASSUME hash \in Hashes
  PROVE  \A n \in 0..32 : Extensible[n] = {state \in States : Behind(hash, n, state)}
  <1>. DEFINE Longer(shorter) ==
                {state \in States :
                   \E bridged \in {state} \cup {Absorb(state, b) : b \in Symbols} :
                   \E m \in SymbolPairs :
                     /\ Absorb(bridged, m[1]) = Absorb(bridged, m[2])
                     /\ Absorb(bridged, m[1]) \in shorter}
              Extends(g) == g = [n \in 0..32 |-> IF n = 0 THEN States ELSE Longer(g[n - 1])]
              Own(n) == {state \in States : Behind(hash, n, state)}
              own == [n \in 0..32 |-> Own(n)]
              extensible == CHOOSE g : Extends(g)
  <1>1. ASSUME NEW shorter \in SUBSET States, NEW state \in States
        PROVE  state \in Longer(shorter) <=> \E t \in shorter : OneOn(hash, state, t)
    <2>1. {state} \cup {Absorb(state, b) : b \in Symbols}
            = {Absorbed(hash, state, b) : b \in Bridges}
      <3>1. \A b \in Symbols : Absorb(state, b) = Absorbed(hash, state, <<b>>)
        BY BridgedStates DEF Absorb
      <3>2. state = Absorbed(hash, state, <<>>)
        BY BridgedStates
      <3>. QED
        BY <3>1, <3>2, Zenon DEF Bridges
    <2>2. state \in Longer(shorter)
            <=> \E b \in Bridges : \E m \in AliasesOf(hash, Absorbed(hash, state, b)) :
                  hash.absorb[Absorbed(hash, state, b)][m[1]] \in shorter
      BY <2>1 DEF AliasesOf, Absorb
    <2>. QED
      BY <2>2 DEF OneOn
  <1>2. ASSUME NEW n \in 1..32 PROVE Longer(Own(n - 1)) = Own(n)
    <2>1. ASSUME NEW state \in States
          PROVE  state \in Longer(Own(n - 1)) <=> state \in Own(n)
      <3>1. Own(n - 1) \in SUBSET States /\ n \in Nat \ {0}
        OBVIOUS
      <3>2. Behind(hash, n, state)
              <=> \E t \in States : OneOn(hash, state, t) /\ Behind(hash, n - 1, t)
        BY <3>1, BehindUnfolds
      <3>3. (\E t \in Own(n - 1) : OneOn(hash, state, t))
              <=> \E t \in States : OneOn(hash, state, t) /\ Behind(hash, n - 1, t)
        BY Zenon
      <3>4. state \in Own(n) <=> Behind(hash, n, state)
        BY Zenon
      <3>. HIDE DEF Longer, Own
      <3>. QED
        BY <1>1, <3>1, <3>2, <3>3, <3>4
    <2>. QED
      BY <2>1
  <1>3. Own(0) = States
    BY BehindUnfolds
  <1>. HIDE DEF Longer, Own
  <1>4. Extends(own)
    <2>1. \A n \in 0..32 : own[n] = IF n = 0 THEN States ELSE Longer(own[n - 1])
      BY <1>2, <1>3
    <2>. QED
      BY <2>1
  <1>5. Extends(extensible)
    BY <1>4, Zenon
  <1>6. Extensible = extensible
    BY Zenon DEF Extensible, Longer
  <1>. HIDE DEF extensible
  <1>7. \A n \in 0..32 : extensible[n] = Own(n)
    <2>1. \A n \in 0..32 :
            extensible[n] = IF n = 0 THEN States ELSE Longer(extensible[n - 1])
      BY <1>5
    <2>. DEFINE same == {n \in 0..32 : extensible[n] = Own(n)}
    <2>2. 0 \in same /\ \A n \in 1..32 : n - 1 \in same => n \in same
      BY <1>2, <1>3, <2>1
    <2>. HIDE DEF same
    <2>3. 0..32 \subseteq same
      BY <2>2, InductionUpTo
    <2>. QED
      BY <2>3 DEF same
  <1>. QED
    BY <1>6, <1>7 DEF Own

-----------------------------------------------------------------------------
(* The stack: every call offers what is behind the state it got, which is  *)
(* the one its caller is at, and what callers have gone past, or the last  *)
(* call has tried, is in vain.                                             *)

Frames == [steps : Seq(StepRecords), tried : Nat]

At(frame) == frame.steps[frame.tried].common

Vain(h, n, frame, upto) == \A t \in 1..upto : ~Behind(h, n, frame.steps[t].common)

CallIsFit(h, state, remaining, frame) ==
  /\ frame \in Frames /\ frame.tried \in 0..Len(frame.steps)
  /\ remaining = 0 => frame.steps = <<>>
  /\ remaining # 0 => Offers(h, state, Bridges, frame.steps)

Got(start, calls, n) == IF n = 1 THEN start ELSE At(calls[n - 1])

CallsAreFit(h, levels, start, calls) ==
  /\ calls \in Seq(Frames) /\ Len(calls) <= levels
  /\ \A n \in 1..Len(calls) : CallIsFit(h, Got(start, calls, n), levels - n, calls[n])
  /\ \A n \in 1..(Len(calls) - 1) :
       calls[n].tried >= 1 /\ Vain(h, levels - n - 1, calls[n], calls[n].tried - 1)
  /\ calls # <<>> =>
       Vain(h, levels - Len(calls) - 1, calls[Len(calls)], calls[Len(calls)].tried)

LEMMA GotIsState ==
  ASSUME NEW h, NEW levels \in Nat, NEW start \in States, NEW calls,
         CallsAreFit(h, levels, start, calls), NEW n \in 1..Len(calls)
  PROVE  Got(start, calls, n) \in States
  <1>1. calls \in Seq(Frames) /\ Len(calls) \in Nat
    BY LenProperties DEF CallsAreFit
  <1>2. CASE n = 1
    BY <1>2 DEF Got
  <1>3. CASE n # 1
    <2>1. n - 1 \in 1..(Len(calls) - 1) /\ n - 1 \in 1..Len(calls)
      BY <1>1, <1>3
    <2>2. /\ calls[n - 1] \in Frames
          /\ calls[n - 1].tried \in 1..Len(calls[n - 1].steps)
      <3>1. CallIsFit(h, Got(start, calls, n - 1), levels - (n - 1), calls[n - 1])
        BY <2>1 DEF CallsAreFit
      <3>2. calls[n - 1].tried >= 1
        BY <2>1 DEF CallsAreFit
      <3>3. Len(calls[n - 1].steps) \in Nat
        BY <3>1, LenProperties DEF CallIsFit, Frames
      <3>. QED
        BY <3>1, <3>2, <3>3 DEF CallIsFit
    <2>3. calls[n - 1].steps[calls[n - 1].tried] \in StepRecords
      BY <2>2, ElementOfSeq DEF Frames
    <2>. QED
      BY <1>3, <2>3 DEF Got, At, StepRecords
  <1>. QED
    BY <1>2, <1>3

LEMMA FirstCall ==
  ASSUME NEW h, NEW levels \in Nat \ {0}, NEW start, NEW call,
         CallIsFit(h, start, levels - 1, call), call.tried = 0
  PROVE  CallsAreFit(h, levels, start, <<call>>)
  <1>. DEFINE calls == <<call>>
  <1>1. call \in Frames
    BY DEF CallIsFit
  <1>2. calls \in Seq(Frames) /\ Len(calls) = 1 /\ calls[1] = call
    BY <1>1
  <1>. HIDE DEF calls
  <1>3. Got(start, calls, 1) = start
    BY DEF Got
  <1>4. Vain(h, levels - 1 - 1, call, 0)
    BY DEF Vain
  <1>5. /\ \A n \in 1..Len(calls) : n = 1
        /\ 1..(Len(calls) - 1) = {} /\ Len(calls) <= levels
    BY <1>2
  <1>6. CallsAreFit(h, levels, start, calls)
    BY <1>2, <1>3, <1>4, <1>5 DEF CallsAreFit
  <1>. QED
    BY <1>6 DEF calls

(* A call that has tried what it offers has nothing behind its state.      *)
LEMMA TriedInVain ==
  ASSUME NEW h \in Hashes, NEW state \in States, NEW remaining \in Nat \ {0}, NEW frame,
         CallIsFit(h, state, remaining, frame), frame.tried = Len(frame.steps),
         Vain(h, remaining - 1, frame, frame.tried)
  PROVE  ~Behind(h, remaining, state)
  <1>1. Offers(h, state, Bridges, frame.steps)
    BY DEF CallIsFit
  <1>2. ASSUME NEW t \in States, OneOn(h, state, t), Behind(h, remaining - 1, t) PROVE FALSE
    <2>1. PICK b \in Bridges : \E m \in AliasesOf(h, Absorbed(h, state, b)) :
            t = h.absorb[Absorbed(h, state, b)][m[1]]
      BY <1>2 DEF OneOn
    <2>2. PICK m \in AliasesOf(h, Absorbed(h, state, b)) :
            t = h.absorb[Absorbed(h, state, b)][m[1]]
      BY <2>1
    <2>3. PICK n \in 1..Len(frame.steps) :
            frame.steps[n].common = h.absorb[Absorbed(h, state, b)][m[1]]
      BY <1>1 DEF Offers
    <2>. QED
      BY <1>2, <2>3, <2>2 DEF Vain
  <1>. QED
    BY <1>2, BehindUnfolds

LEMMA CallExtends ==
  ASSUME NEW h, NEW levels \in Nat, NEW start, NEW calls, NEW call,
         CallsAreFit(h, levels, start, calls), Len(calls) < levels, calls # <<>>,
         calls[Len(calls)].tried < Len(calls[Len(calls)].steps),
         CallIsFit(h, calls[Len(calls)].steps[calls[Len(calls)].tried + 1].common,
                   levels - Len(calls) - 1, call),
         call.tried = 0
  PROVE  CallsAreFit(h, levels, start,
                     Append([calls EXCEPT ![Len(calls)].tried = @ + 1], call))
  <1>. DEFINE n == Len(calls)
              top == calls[n]
              next == [top EXCEPT !.tried = @ + 1]
              further == [calls EXCEPT ![n] = next]
              new == Append(further, call)
  <1>1. calls \in Seq(Frames) /\ n \in Nat \ {0} /\ call \in Frames /\ n \in 1..n
    BY EmptySeq DEF CallsAreFit, CallIsFit
  <1>2. top \in Frames /\ Len(top.steps) \in Nat /\ top.tried \in Nat
    <2>1. top \in Frames
      BY <1>1, ElementOfSeq
    <2>. HIDE DEF top
    <2>2. top.steps \in Seq(StepRecords) /\ top.tried \in Nat
      BY <2>1 DEF Frames
    <2>. QED
      BY <2>1, <2>2, LenProperties
  <1>3. next \in Frames /\ next.tried = top.tried + 1 /\ next.steps = top.steps
    BY <1>2 DEF Frames
  <1>4. [calls EXCEPT ![Len(calls)].tried = @ + 1] = further
    OBVIOUS
  <1>. HIDE DEF next
  <1>5. /\ further \in Seq(Frames) /\ Len(further) = n
        /\ \A k \in 1..n : further[k] = IF k = n THEN next ELSE calls[k]
    BY <1>1, <1>3, ExceptSeq
  <1>. HIDE DEF further
  <1>6. /\ new \in Seq(Frames) /\ Len(new) = n + 1 /\ new # <<>>
        /\ \A k \in 1..n : new[k] = further[k] /\ new[n + 1] = call
    BY <1>1, <1>5, AppendProperties
  <1>. HIDE DEF new
  <1>7. /\ \A k \in 1..(n - 1) : new[k] = calls[k]
        /\ new[n] = next /\ new[n + 1] = call
    BY <1>1, <1>5, <1>6
  <1>8. \A k \in 1..n : CallIsFit(h, Got(start, calls, k), levels - k, calls[k])
    BY DEF CallsAreFit
  <1>9. \A k \in 1..n : Got(start, new, k) = Got(start, calls, k)
    BY <1>1, <1>7 DEF Got
  <1>10. ASSUME NEW k \in 1..Len(new)
         PROVE  CallIsFit(h, Got(start, new, k), levels - k, new[k])
    <2>1. CASE k \in 1..(n - 1)
      <3>1. k \in 1..n
        BY <1>1, <2>1
      <3>. QED
        BY <1>7, <1>8, <1>9, <2>1, <3>1
    <2>2. CASE k = n
      <3>1. CallIsFit(h, Got(start, calls, n), levels - n, top)
        BY <1>1, <1>8
      <3>2. next.tried \in 0..Len(next.steps)
        BY <1>2, <1>3
      <3>3. CallIsFit(h, Got(start, calls, n), levels - n, next)
        BY <1>3, <3>1, <3>2 DEF CallIsFit
      <3>. QED
        BY <1>1, <1>7, <1>9, <2>2, <3>3
    <2>3. CASE k = n + 1
      <3>1. Got(start, new, k) = top.steps[top.tried + 1].common
        BY <1>1, <1>3, <1>7, <2>3 DEF Got, At
      <3>2. levels - k = levels - n - 1
        BY <1>1, <2>3
      <3>. QED
        BY <1>7, <2>3, <3>1, <3>2
    <2>. QED
      BY <1>1, <1>6, <2>1, <2>2, <2>3
  <1>11. ASSUME NEW k \in 1..(Len(new) - 1)
         PROVE  new[k].tried >= 1 /\ Vain(h, levels - k - 1, new[k], new[k].tried - 1)
    <2>1. CASE k \in 1..(n - 1)
      <3>1. calls[k].tried >= 1 /\ Vain(h, levels - k - 1, calls[k], calls[k].tried - 1)
        BY <2>1 DEF CallsAreFit
      <3>. QED
        BY <1>7, <2>1, <3>1
    <2>2. CASE k = n
      <3>1. Vain(h, levels - n - 1, top, top.tried)
        BY DEF CallsAreFit
      <3>2. Vain(h, levels - n - 1, next, next.tried - 1)
        <4>1. next.tried - 1 = top.tried
          BY <1>2, <1>3
        <4>. QED
          BY <1>3, <3>1, <4>1 DEF Vain
      <3>3. next.tried >= 1
        BY <1>2, <1>3
      <3>. QED
        BY <1>7, <2>2, <3>2, <3>3
    <2>. QED
      BY <1>1, <1>6, <2>1, <2>2
  <1>12. Vain(h, levels - Len(new) - 1, new[Len(new)], new[Len(new)].tried)
    BY <1>1, <1>6, <1>7 DEF Vain
  <1>13. CallsAreFit(h, levels, start, new)
    <2>1. Len(new) <= levels
      BY <1>1, <1>6
    <2>. QED
      BY <1>6, <1>10, <1>11, <1>12, <2>1 DEF CallsAreFit
  <1>. QED
    BY <1>4, <1>13 DEF new

LEMMA CallReturns ==
  ASSUME NEW h \in Hashes, NEW levels \in Nat, NEW start \in States, NEW calls,
         CallsAreFit(h, levels, start, calls), Len(calls) < levels, calls # <<>>,
         calls[Len(calls)].tried = Len(calls[Len(calls)].steps)
  PROVE  /\ CallsAreFit(h, levels, start, Front(calls))
         /\ Front(calls) = <<>> => ~Behind(h, levels - 1, start)
  <1>. DEFINE n == Len(calls)
              front == Front(calls)
  <1>1. calls \in Seq(Frames) /\ n \in Nat \ {0} /\ n \in 1..n
    BY EmptySeq DEF CallsAreFit
  <1>2. ~Behind(h, levels - n, Got(start, calls, n))
    <2>1. CallIsFit(h, Got(start, calls, n), levels - n, calls[n])
      BY <1>1 DEF CallsAreFit
    <2>2. Got(start, calls, n) \in States
      BY <1>1, GotIsState
    <2>3. Vain(h, levels - n - 1, calls[n], calls[n].tried)
      BY DEF CallsAreFit
    <2>4. levels - n \in Nat \ {0} /\ (levels - n) - 1 = levels - n - 1
      BY <1>1
    <2>. QED
      BY <2>1, <2>2, <2>3, <2>4, TriedInVain
  <1>3. /\ front \in Seq(Frames) /\ Len(front) = n - 1
        /\ \A k \in 1..(n - 1) : front[k] = calls[k]
    <2>1. \A i \in 1..(n - 1) : calls[i] \in Frames
      BY <1>1, ElementOfSeq
    <2>2. front = SubSeq(calls, 1, n - 1)
      BY DEF Front
    <2>. HIDE DEF front
    <2>3. n - 1 \in Int /\ 1 \in Int
      BY <1>1
    <2>. HIDE DEF n
    <2>4. /\ SubSeq(calls, 1, n - 1) \in Seq(Frames)
          /\ Len(SubSeq(calls, 1, n - 1)) = IF 1 <= n - 1 THEN (n - 1) - 1 + 1 ELSE 0
          /\ \A i \in 1..((n - 1) - 1 + 1) : SubSeq(calls, 1, n - 1)[i] = calls[1 + i - 1]
      BY <2>1, <2>3, SubSeqProperties
    <2>5. Len(front) = n - 1
      BY <1>1, <2>2, <2>4
    <2>6. ASSUME NEW k \in 1..(n - 1) PROVE front[k] = calls[k]
      <3>1. k \in 1..((n - 1) - 1 + 1) /\ 1 + k - 1 = k
        BY <1>1
      <3>. QED
        BY <2>2, <2>4, <3>1
    <2>. QED
      BY <2>2, <2>4, <2>5, <2>6
  <1>. HIDE DEF front
  <1>4. \A k \in 1..(n - 1) : Got(start, front, k) = Got(start, calls, k)
    BY <1>1, <1>3 DEF Got
  <1>5. \A k \in 1..Len(front) : CallIsFit(h, Got(start, front, k), levels - k, front[k])
    <2>1. \A k \in 1..n : CallIsFit(h, Got(start, calls, k), levels - k, calls[k])
      BY DEF CallsAreFit
    <2>. QED
      BY <1>1, <1>3, <1>4, <2>1
  <1>6. ASSUME NEW k \in 1..(n - 1)
        PROVE  front[k].tried >= 1 /\ Vain(h, levels - k - 1, front[k], front[k].tried - 1)
    <2>1. calls[k].tried >= 1 /\ Vain(h, levels - k - 1, calls[k], calls[k].tried - 1)
      BY DEF CallsAreFit
    <2>. QED
      BY <1>3, <2>1
  <1>7. ASSUME n # 1
        PROVE  Vain(h, levels - (n - 1) - 1, front[n - 1], front[n - 1].tried)
    <2>1. n - 1 \in 1..(n - 1) /\ levels - (n - 1) - 1 = levels - n
      <3>. HIDE DEF n
      <3>. QED
        BY <1>1, <1>7
    <2>2. /\ front[n - 1].tried >= 1 /\ front[n - 1].tried \in Nat
          /\ Vain(h, levels - n, front[n - 1], front[n - 1].tried - 1)
      <3>1. front[n - 1].tried >= 1
            /\ Vain(h, levels - (n - 1) - 1, front[n - 1], front[n - 1].tried - 1)
        BY <1>6, <2>1
      <3>2. front[n - 1] \in Frames
        BY <1>3, <2>1, ElementOfSeq
      <3>. QED
        BY <2>1, <3>1, <3>2 DEF Frames
    <2>3. ~Behind(h, levels - n, front[n - 1].steps[front[n - 1].tried].common)
      BY <1>2, <1>3, <1>7, <2>1 DEF Got, At
    <2>. QED
      BY <2>1, <2>2, <2>3 DEF Vain
  <1>8. front = <<>> <=> n = 1
    BY <1>1, <1>3, EmptySeq
  <1>9. CallsAreFit(h, levels, start, front)
    <2>1. Len(front) <= levels
      BY <1>1, <1>3
    <2>2. front # <<>> => Vain(h, levels - Len(front) - 1, front[Len(front)],
                               front[Len(front)].tried)
      BY <1>3, <1>7, <1>8
    <2>3. \A k \in 1..(Len(front) - 1) :
            front[k].tried >= 1 /\ Vain(h, levels - k - 1, front[k], front[k].tried - 1)
      BY <1>1, <1>3, <1>6
    <2>. QED
      BY <1>3, <1>5, <2>1, <2>2, <2>3 DEF CallsAreFit
  <1>10. ASSUME n = 1 PROVE ~Behind(h, levels - 1, start)
    BY <1>2, <1>10 DEF Got
  <1>. QED
    BY <1>8, <1>9, <1>10 DEF front

-----------------------------------------------------------------------------
(* The search, and what goes on with its path, by what the stack holds.    *)

SearchOver == {"found", "levels", "materialize", "evaluate", "done"}

SearchInv ==
  /\ hash \in Hashes /\ request \in Requests /\ options \in OptionSets
  /\ seeds = Catalogue(hash, request)
  /\ seed \in 0..Len(seeds) /\ (stack # <<>> => seed >= 1)
  /\ pc \in {"search", "none"} \cup SearchOver
  /\ pc \in SearchOver => Len(stack) = options.levels
  /\ CallsAreFit(hash, options.levels, ForwardOf(hash, seeds[seed].left), stack)
  /\ \A s \in 1..(IF stack = <<>> THEN seed ELSE seed - 1) :
       ~Behind(hash, options.levels - 1, ForwardOf(hash, seeds[s].left))

LEMMA SeedsAreAliases ==
  ASSUME NEW h \in Hashes, NEW r \in Requests, NEW n \in 1..Len(Catalogue(h, r))
  PROVE  /\ Catalogue(h, r)[n].left \in Messages /\ Catalogue(h, r)[n].right \in Messages
         /\ Len(Catalogue(h, r)[n].left) = 2 /\ Len(Catalogue(h, r)[n].right) = 2
         /\ Catalogue(h, r)[n].left # Catalogue(h, r)[n].right
         /\ ForwardOf(h, Catalogue(h, r)[n].left) = ForwardOf(h, Catalogue(h, r)[n].right)
         /\ ForwardOf(h, Catalogue(h, r)[n].left) \in States
  <1>. DEFINE alias == Catalogue(h, r)[n]
  <1>1. alias \in LocalAliases(h, r) \cup InheritedAliases(h, r)
    BY CatalogueListsPairs, LenProperties
  <1>. HIDE DEF alias
  <1>2. /\ alias \in PairsOfShort /\ alias.left # alias.right
        /\ After(h, alias.left) = After(h, alias.right)
    BY <1>1, AliasesArePairs
  <1>3. \A m \in ShortMessages : m \in Messages /\ Len(m) = 2 /\ ForwardOf(h, m) = After(h, m)
    <2>. TAKE m \in ShortMessages
    <2>1. PICK p \in PrefixNumbers, x \in Symbols : m = <<p, x>>
      BY DEF ShortMessages
    <2>. QED
      BY <2>1, ForwardShort
  <1>4. alias.left \in ShortMessages /\ alias.right \in ShortMessages
    BY <1>2 DEF PairsOfShort
  <1>5. ForwardOf(h, alias.left) \in States
    BY <1>3, <1>4, ForwardType
  <1>. QED
    BY <1>2, <1>3, <1>4, <1>5 DEF alias

LEMMA CatalogueIsSequence ==
  ASSUME NEW h \in Hashes, NEW r \in Requests
  PROVE  Len(Catalogue(h, r)) \in Nat
  BY CatalogueListsPairs, LenProperties

LEMMA CallIsFresh ==
  ASSUME hash \in Hashes, NEW state \in States, NEW remaining \in Nat
  PROVE  /\ CallIsFit(hash, state, remaining, Call(state, remaining))
         /\ Call(state, remaining).tried = 0
  <1>. DEFINE steps == IF remaining = 0 THEN <<>> ELSE Steps(state)
  <1>1. Offers(hash, state, Bridges, Steps(state))
    BY StepsAreOffered
  <1>2. steps \in Seq(StepRecords) /\ Len(steps) \in Nat
    <2>1. steps \in Seq(StepRecords)
      BY <1>1 DEF Offers
    <2>. HIDE DEF steps
    <2>. QED
      BY <2>1, LenProperties
  <1>3. Call(state, remaining) = [steps |-> steps, tried |-> 0]
    BY DEF Call
  <1>4. remaining = 0 => steps = <<>>
    OBVIOUS
  <1>5. remaining # 0 => Offers(hash, state, Bridges, steps)
    BY <1>1
  <1>. HIDE DEF steps
  <1>. QED
    BY <1>2, <1>3, <1>4, <1>5 DEF CallIsFit, Frames

LEMMA NoCalls ==
  ASSUME NEW h, NEW levels \in Nat, NEW start
  PROVE  CallsAreFit(h, levels, start, <<>>)
  <1>. DEFINE none == <<>>
  <1>1. none \in Seq(Frames) /\ Len(none) = 0 /\ 1..Len(none) = {} /\ 1..(Len(none) - 1) = {}
    OBVIOUS
  <1>2. CallsAreFit(h, levels, start, none)
    <2>1. none = <<>>
      OBVIOUS
    <2>. HIDE DEF none
    <2>. QED
      BY <1>1, <2>1 DEF CallsAreFit
  <1>. QED
    BY <1>2

LEMMA SearchBegins == Init => SearchInv
  <1>. SUFFICES ASSUME Init PROVE SearchInv
    OBVIOUS
  <1>1. /\ hash \in Hashes /\ request \in Requests /\ options \in OptionSets
        /\ seeds = Catalogue(hash, request) /\ seed = 0 /\ stack = <<>> /\ pc = "search"
    BY DEF Init, PathInit
  <1>2. Len(seeds) \in Nat
    BY <1>1, CatalogueIsSequence
  <1>3. options.levels \in Nat
    <2>. DEFINE L == options.levels
    <2>1. L \in 2..32
      BY <1>1, LevelsAssumption
    <2>. HIDE DEF L
    <2>2. L \in Nat
      BY <2>1
    <2>. QED
      BY <2>2 DEF L
  <1>4. CallsAreFit(hash, options.levels, ForwardOf(hash, seeds[seed].left), stack)
    BY <1>1, <1>3, NoCalls
  <1>. QED
    BY <1>1, <1>2, <1>4 DEF SearchInv, SearchOver

LEMMA SearchGoesOn == SearchInv /\ [Next]_vars => SearchInv'
  <1>. SUFFICES ASSUME SearchInv, [Next]_vars PROVE SearchInv'
    OBVIOUS
  <1>. DEFINE L == options.levels
              Start(n) == ForwardOf(hash, seeds[n].left)
  <1>1. /\ hash \in Hashes /\ request \in Requests /\ options \in OptionSets
        /\ seeds = Catalogue(hash, request) /\ seed \in 0..Len(seeds) /\ L \in 2..32
        /\ Len(seeds) \in Nat /\ pc \in {"search", "none"} \cup SearchOver
        /\ stack # <<>> => seed >= 1
    BY LevelsAssumption, CatalogueIsSequence DEF SearchInv
  <1>2. CallsAreFit(hash, L, Start(seed), stack) /\ Len(stack) \in Nat
        /\ (stack = <<>> <=> Len(stack) = 0)
    <2>1. stack \in Seq(Frames)
      BY DEF SearchInv, CallsAreFit
    <2>. QED
      BY <2>1, EmptySeq, LenProperties DEF SearchInv
  <1>3. \A s \in 1..(IF stack = <<>> THEN seed ELSE seed - 1) : ~Behind(hash, L - 1, Start(s))
    BY DEF SearchInv
  <1>4. \A n \in 1..Len(seeds) : Start(n) \in States
    BY <1>1, SeedsAreAliases
  <1>. L \in Nat \ {0} /\ L - 1 \in Nat
    <2>. HIDE DEF L
    <2>. QED
      BY <1>1
  <1>5. CASE NextSeed
    <2>1. /\ hash' = hash /\ request' = request /\ options' = options /\ seeds' = seeds
          /\ pc = "search" /\ pc' = pc /\ stack = <<>> /\ seed < Len(seeds) /\ seed' = seed + 1
          /\ stack' = <<Call(SeedState(seed + 1), L - 1)>>
      BY <1>5 DEF NextSeed, inputVars
    <2>2. seed + 1 \in 1..Len(seeds) /\ SeedState(seed + 1) = Start(seed + 1)
      BY <1>1, <2>1, ForwardIs DEF SeedState
    <2>. DEFINE call == Call(SeedState(seed + 1), L - 1)
    <2>3. CallIsFit(hash, Start(seed + 1), L - 1, call) /\ call.tried = 0
      <3>1. Start(seed + 1) \in States
        BY <1>4, <2>2
      <3>. HIDE DEF Start, L
      <3>. QED
        BY <1>1, <2>2, <3>1, CallIsFresh
    <2>. HIDE DEF call
    <2>4. CallsAreFit(hash, L, Start(seed + 1), <<call>>)
      <3>. HIDE DEF Start, L
      <3>. QED
        BY <2>3, FirstCall
    <2>5. CallsAreFit(hash', options'.levels, ForwardOf(hash', seeds'[seed'].left), stack')
      BY <2>1, <2>4, Zenon DEF call
    <2>6. stack' # <<>> /\ seed' - 1 = seed /\ seed' \in 0..Len(seeds') /\ seed' >= 1
      BY <1>1, <2>1
    <2>7. \A s \in 1..(IF stack' = <<>> THEN seed' ELSE seed' - 1) :
            ~Behind(hash', options'.levels - 1, ForwardOf(hash', seeds'[s].left))
      BY <1>3, <2>1, <2>6
    <2>. QED
      BY <1>1, <2>1, <2>5, <2>6, <2>7 DEF SearchInv, SearchOver
  <1>6. CASE Extend
    <2>1. /\ hash' = hash /\ request' = request /\ options' = options /\ seeds' = seeds
          /\ pc = "search" /\ pc' = pc /\ stack # <<>> /\ Len(stack) < L /\ seed' = seed
          /\ Top.tried < Len(Top.steps)
          /\ stack' = Append([stack EXCEPT ![Len(stack)].tried = @ + 1],
                             Call(Top.steps[Top.tried + 1].common, L - Len(stack) - 1))
      BY <1>6 DEF Extend, inputVars
    <2>. DEFINE next == Top.steps[Top.tried + 1].common
                call == Call(next, L - Len(stack) - 1)
    <2>2. next \in States
      <3>1. stack \in Seq(Frames) /\ Len(stack) \in 1..Len(stack)
        BY <1>2, <2>1 DEF CallsAreFit
      <3>2. Top \in Frames
        BY <3>1, ElementOfSeq DEF Top
      <3>3. Top.tried + 1 \in 1..Len(Top.steps)
        BY <2>1, <3>2, LenProperties DEF Frames
      <3>4. Top.steps[Top.tried + 1] \in StepRecords
        BY <3>2, <3>3, ElementOfSeq DEF Frames
      <3>. QED
        BY <3>4 DEF StepRecords
    <2>. HIDE DEF next
    <2>3. CallIsFit(hash, next, L - Len(stack) - 1, call) /\ call.tried = 0
      <3>1. L - Len(stack) - 1 \in Nat
        <4>. HIDE DEF L
        <4>. QED
          BY <1>2, <2>1
      <3>. QED
        BY <1>1, <2>2, <3>1, CallIsFresh
    <2>. HIDE DEF call
    <2>4. CallsAreFit(hash, L, Start(seed),
                      Append([stack EXCEPT ![Len(stack)].tried = @ + 1], call))
      <3>1. /\ stack[Len(stack)].tried < Len(stack[Len(stack)].steps)
            /\ next = stack[Len(stack)].steps[stack[Len(stack)].tried + 1].common
        BY <2>1 DEF Top, next
      <3>. HIDE DEF Start, L
      <3>. QED
        BY <1>2, <2>1, <2>3, <3>1, CallExtends
    <2>5. stack' = Append([stack EXCEPT ![Len(stack)].tried = @ + 1], call)
      BY <2>1, Zenon DEF call, next
    <2>6. CallsAreFit(hash', options'.levels, ForwardOf(hash', seeds'[seed'].left), stack')
      BY <2>1, <2>4, <2>5, Zenon
    <2>7. stack' # <<>>
      BY <2>6, <2>5
    <2>8. \A s \in 1..(IF stack' = <<>> THEN seed' ELSE seed' - 1) :
            ~Behind(hash', options'.levels - 1, ForwardOf(hash', seeds'[s].left))
      BY <1>3, <2>1, <2>7
    <2>. QED
      BY <1>1, <2>1, <2>6, <2>7, <2>8 DEF SearchInv, SearchOver
  <1>7. CASE GiveUp
    <2>1. /\ hash' = hash /\ request' = request /\ options' = options /\ seeds' = seeds
          /\ pc = "search" /\ pc' = pc /\ stack # <<>> /\ Len(stack) < L /\ seed' = seed
          /\ stack[Len(stack)].tried = Len(stack[Len(stack)].steps)
          /\ stack' = Front(stack)
      BY <1>7 DEF GiveUp, inputVars, Top
    <2>2. Start(seed) \in States /\ seed \in 1..Len(seeds)
      BY <1>1, <1>4, <2>1
    <2>3. /\ CallsAreFit(hash, L, Start(seed), Front(stack))
          /\ Front(stack) = <<>> => ~Behind(hash, L - 1, Start(seed))
      <3>. HIDE DEF Start, L
      <3>. QED
        BY <1>1, <1>2, <2>1, <2>2, CallReturns
    <2>4. CallsAreFit(hash', options'.levels, ForwardOf(hash', seeds'[seed'].left), stack')
      BY <2>1, <2>3, Zenon
    <2>5. \A s \in 1..(IF stack' = <<>> THEN seed' ELSE seed' - 1) :
            ~Behind(hash', options'.levels - 1, ForwardOf(hash', seeds'[s].left))
      <3>1. \A s \in 1..(seed - 1) : ~Behind(hash, L - 1, Start(s))
        BY <1>3, <2>1
      <3>2. stack' = <<>> => ~Behind(hash, L - 1, Start(seed))
        BY <2>1, <2>3
      <3>3. \A s \in 1..(IF stack' = <<>> THEN seed ELSE seed - 1) : ~Behind(hash, L - 1, Start(s))
        <4>. HIDE DEF Start, L
        <4>. QED
          BY <2>2, <3>1, <3>2
      <3>. QED
        BY <2>1, <3>3
    <2>. QED
      BY <1>1, <2>1, <2>2, <2>4, <2>5 DEF SearchInv, SearchOver
  <1>8. CASE /\ UNCHANGED <<inputVars, seed, stack>>
             /\ \/ pc' = pc
                \/ pc = "search" /\ Len(stack) = L /\ pc' = "found"
                \/ pc = "search" /\ pc' = "none"
                \/ pc \in SearchOver /\ pc' \in SearchOver
    <2>1. /\ hash' = hash /\ request' = request /\ options' = options /\ seeds' = seeds
          /\ seed' = seed /\ stack' = stack
      BY <1>8 DEF inputVars
    <2>2. pc' \in {"search", "none"} \cup SearchOver
      BY <1>1, <1>8 DEF SearchOver
    <2>3. pc' \in SearchOver => Len(stack') = options'.levels
      BY <1>8, <2>1 DEF SearchInv, SearchOver
    <2>4. CallsAreFit(hash', options'.levels, ForwardOf(hash', seeds'[seed'].left), stack')
      BY <1>2, <2>1, Zenon
    <2>5. \A s \in 1..(IF stack' = <<>> THEN seed' ELSE seed' - 1) :
            ~Behind(hash', options'.levels - 1, ForwardOf(hash', seeds'[s].left))
      BY <1>3, <2>1
    <2>. QED
      BY <1>1, <2>1, <2>2, <2>3, <2>4, <2>5 DEF SearchInv
  <1>9. CASE FindPath \/ NoPath
    BY <1>8, <1>9 DEF FindPath, NoPath
  <1>10. CASE BeamNext
    <2>1. CASE StartBeam
      BY <1>8, <2>1 DEF StartBeam, SearchOver
    <2>2. CASE DigestLevel \/ FoldbackLevel
      BY <1>8, <2>2 DEF DigestLevel, FoldbackLevel, Level
    <2>3. CASE ReportBeam
      BY <1>8, <2>3 DEF ReportBeam, SearchOver
    <2>. QED
      BY <1>10, <2>1, <2>2, <2>3 DEF BeamNext
  <1>11. CASE FamilyNext
    <2>1. CASE Begin
      BY <1>8, <2>1 DEF Begin, SearchOver
    <2>2. CASE Materialize
      BY <1>8, <2>2 DEF Materialize
    <2>3. CASE BeginEvaluation
      BY <1>8, <2>3 DEF BeginEvaluation, SearchOver
    <2>4. CASE Evaluate
      BY <1>8, <2>4 DEF Evaluate
    <2>5. CASE ReportFamily
      BY <1>8, <2>5 DEF ReportFamily, SearchOver
    <2>. QED
      BY <1>11, <2>1, <2>2, <2>3, <2>4, <2>5 DEF FamilyNext
  <1>12. CASE UNCHANGED vars
    BY <1>8, <1>12 DEF vars, pathVars
  <1>. QED
    BY <1>5, <1>6, <1>7, <1>9, <1>10, <1>11, <1>12 DEF Next, PathNext, Ended

LEMMA SearchHolds == Spec => []SearchInv
  <1>. QED
    BY SearchBegins, SearchGoesOn, PTL DEF Spec

LEMMA SearchIsInVain == SearchInv => PassedOverInVain
  <1>. SUFFICES ASSUME SearchInv PROVE PassedOverInVain
    OBVIOUS
  <1>. DEFINE L == options.levels
              start == ForwardOf(hash, seeds[seed].left)
  <1>1. /\ hash \in Hashes /\ options \in OptionSets /\ L \in 2..32 /\ request \in Requests
        /\ seed \in 0..Len(seeds) /\ Len(seeds) \in Nat /\ seeds = Catalogue(hash, request)
        /\ (stack # <<>> => seed >= 1)
        /\ CallsAreFit(hash, L, start, stack)
    BY LevelsAssumption, CatalogueIsSequence DEF SearchInv
  <1>2. ASSUME NEW s \in 1..(IF stack = <<>> THEN seed ELSE seed - 1)
        PROVE  Forward(seeds[s].left) \notin Extensible[L - 1]
    <2>1. ~Behind(hash, L - 1, ForwardOf(hash, seeds[s].left))
      BY DEF SearchInv
    <2>2. L - 1 \in 0..32
      BY <1>1
    <2>. QED
      BY <1>1, <2>1, <2>2, ForwardIs, ExtensibleIs
  <1>3. \A n \in 1..Len(stack) : n # L => L - n - 1 \in 0..32
    <2>1. Len(stack) <= L /\ Len(stack) \in Nat
      BY <1>1, LenProperties DEF CallsAreFit
    <2>2. L \in 2..32
      BY <1>1
    <2>. DEFINE size == Len(stack)
    <2>. HIDE DEF L, size
    <2>3. \A n \in 1..size : n # L => L - n - 1 \in 0..32
      BY <2>1, <2>2 DEF size
    <2>. QED
      BY <2>3 DEF size
  <1>5. ASSUME NEW n \in DOMAIN stack,
               NEW t \in 1..(IF n = Len(stack) THEN stack[n].tried ELSE stack[n].tried - 1)
        PROVE  stack[n].steps[t].common \notin Extensible[L - n - 1]
    <2>1. stack \in Seq(Frames) /\ n \in 1..Len(stack) /\ Len(stack) \in Nat
          /\ Len(stack) <= L
      <3>1. stack \in Seq(Frames) /\ Len(stack) <= L
        BY <1>1 DEF CallsAreFit
      <3>. QED
        BY <3>1, LenProperties
    <2>2. ~Behind(hash, L - n - 1, stack[n].steps[t].common)
      <3>1. CASE n = Len(stack)
        <4>1. stack # <<>>
          BY <2>1
        <4>2. Vain(hash, L - n - 1, stack[n], stack[n].tried)
          BY <1>1, <3>1, <4>1 DEF CallsAreFit
        <4>. QED
          BY <3>1, <4>2 DEF Vain
      <3>2. CASE n # Len(stack)
        <4>1. n \in 1..(Len(stack) - 1)
          BY <2>1, <3>2
        <4>2. Vain(hash, L - n - 1, stack[n], stack[n].tried - 1)
          BY <1>1, <4>1 DEF CallsAreFit
        <4>. QED
          BY <3>2, <4>2 DEF Vain
      <3>. QED
        BY <3>1, <3>2
    <2>3. CASE n = L
      <3>1. stack[n].tried \in 0..Len(stack[n].steps) /\ stack[n].steps = <<>>
        <4>1. CallIsFit(hash, Got(start, stack, n), L - n, stack[n]) /\ L - n = 0
          BY <1>1, <2>1, <2>3 DEF CallsAreFit
        <4>. QED
          BY <4>1 DEF CallIsFit
      <3>2. stack[n].tried = 0
        BY <3>1
      <3>. QED
        BY <3>2
    <2>4. CASE n # L
      <3>1. L - n - 1 \in 0..32
        BY <1>3, <2>1, <2>4
      <3>. QED
        BY <1>1, <2>2, <3>1, ExtensibleIs
    <2>. QED
      BY <2>3, <2>4
  <1>. QED
    BY <1>2, <1>5 DEF PassedOverInVain

(* No seed the search has left and no extension it has gone past leads to  *)
(* a path: find_bridged_path reports none only when there is none.         *)
THEOREM SearchPassesOverNothing == Spec => []PassedOverInVain
  <1>. QED
    BY SearchHolds, SearchIsInVain, PTL

-----------------------------------------------------------------------------
(* The beam is the beginning of the candidates in order.                   *)

Candidates == [left : Seq(Nat), right : Seq(Nat), distances : Seq(Nat)]

CandidateOrder(S) == {p \in S \X S : CandidateLess(p[1], p[2])}

LEMMA CandidatesAreOrdered ==
  /\ \A a \in Candidates : ~CandidateLess(a, a)
  /\ \A a, b, c \in Candidates : CandidateLess(a, b) /\ CandidateLess(b, c) => CandidateLess(a, c)
  /\ \A a, b \in Candidates : a # b => CandidateLess(a, b) \/ CandidateLess(b, a)
  /\ \A S \in SUBSET Candidates : StrictlyOrders(CandidateOrder(S), S)
  <1>1. \A a \in Candidates : /\ a.left \in Seq(Nat) /\ a.right \in Seq(Nat)
                              /\ a.distances \in Seq(Nat)
    BY DEF Candidates
  <1>2. \A a \in Candidates : ~CandidateLess(a, a)
    BY <1>1, VectorsAreOrdered DEF CandidateLess
  <1>3. \A a, b, c \in Candidates :
          CandidateLess(a, b) /\ CandidateLess(b, c) => CandidateLess(a, c)
    BY <1>1, VectorsAreOrdered DEF CandidateLess
  <1>4. ASSUME NEW a \in Candidates, NEW b \in Candidates, a # b
        PROVE  CandidateLess(a, b) \/ CandidateLess(b, a)
    <2>1. a.left # b.left \/ a.right # b.right \/ a.distances # b.distances
      BY <1>4 DEF Candidates
    <2>. QED
      BY <1>1, <2>1, VectorsAreOrdered DEF CandidateLess
  <1>5. ASSUME NEW S \in SUBSET Candidates PROVE StrictlyOrders(CandidateOrder(S), S)
    <2>1. \A a, b \in S : <<a, b>> \in CandidateOrder(S) <=> CandidateLess(a, b)
      BY DEF CandidateOrder
    <2>2. \A a \in S : a \in Candidates
      OBVIOUS
    <2>. QED
      BY <1>2, <1>3, <1>4, <2>1, <2>2 DEF StrictlyOrders
  <1>. QED
    BY <1>2, <1>3, <1>4, <1>5

LEMMA FirstAreCandidates ==
  ASSUME NEW S \in SUBSET Candidates, IsFiniteSet(S), S # {}, NEW width \in Nat \ {0}
  PROVE  /\ FirstOf(S, CandidateLess, width) \in Seq(S)
         /\ Len(FirstOf(S, CandidateLess, width)) = Min({width, Cardinality(S)})
         /\ Len(FirstOf(S, CandidateLess, width)) >= 1
         /\ \A m, n \in 1..Len(FirstOf(S, CandidateLess, width)) :
              m # n => FirstOf(S, CandidateLess, width)[m] # FirstOf(S, CandidateLess, width)[n]
         /\ \A c \in S : ~CandidateLess(c, FirstOf(S, CandidateLess, width)[1])
  <1>. DEFINE size == Cardinality(S)
              R == CandidateOrder(S)
              Place(x) == Cardinality({y \in S : CandidateLess(y, x)})
              Nth(n) == CHOOSE x \in S : Place(x) = n - 1
              list == [n \in 1..size |-> Nth(n)]
              first == FirstOf(S, CandidateLess, width)
  <1>1. StrictlyOrders(R, S)
    BY CandidatesAreOrdered
  <1>2. first = SubSeq(list, 1, Min({width, size}))
    BY Zenon DEF FirstOf, InOrder
  <1>. HIDE DEF first
  <1>3. \A x \in S : Place(x) = Rank(R, S, x)
    <2>1. \A x \in S : {y \in S : CandidateLess(y, x)} = Below(R, S, x)
      BY DEF Below, CandidateOrder
    <2>. QED
      BY <2>1, Zenon DEF Rank
  <1>. HIDE DEF Place
  <1>4. \A n \in 1..size : Nth(n) \in S /\ Place(Nth(n)) = n - 1
    <2>1. \A n \in 1..size : \E x \in S : Place(x) = n - 1
      <3>. HIDE DEF R
      <3>. QED
        BY <1>1, <1>3, EveryRankIsTaken DEF size
    <2>. QED
      BY <2>1
  <1>. HIDE DEF Nth, R
  <1>5. RankedBy(list, R, S)
    BY <1>3, <1>4 DEF RankedBy
  <1>. HIDE DEF list
  <1>8. FirstRanked(first, R, S, width)
    BY <1>1, <1>2, <1>5, FirstByRank
  <1>6. /\ first \in Seq(S) /\ Len(first) = Min({width, Cardinality(S)}) /\ Len(first) >= 1
        /\ \A m, n \in 1..Len(first) : m # n => first[m] # first[n]
        /\ \A x \in S : <<x, first[1]>> \notin R
    BY <1>8 DEF FirstRanked
  <1>7. ASSUME NEW c \in S PROVE ~CandidateLess(c, first[1])
    <2>1. first[1] \in S
      BY <1>6
    <2>. QED
      BY <1>6, <2>1 DEF R, CandidateOrder
  <1>. QED
    BY <1>6, <1>7 DEF first

-----------------------------------------------------------------------------
(* One level of a beam.                                                    *)

Longer(bridge, m, x) == (m \o bridge) \o <<x>>

LEMMA BridgesAreSequences ==
  ASSUME NEW bridge \in Bridges
  PROVE  bridge \in Seq(Nat) /\ Len(bridge) \in 0..1
  <1>1. CASE bridge = <<>>
    BY <1>1
  <1>2. CASE bridge # <<>>
    <2>1. PICK b \in Symbols : bridge = <<b>>
      BY <1>2 DEF Bridges
    <2>2. b \in Nat
      BY SymbolsAreNumbers
    <2>. QED
      BY <2>1, <2>2
  <1>. QED
    BY <1>1, <1>2

LEMMA LongerIs ==
  ASSUME NEW m \in Seq(Nat), NEW bridge \in Seq(Nat), NEW x \in Nat
  PROVE  /\ Longer(bridge, m, x) \in Seq(Nat)
         /\ Len(Longer(bridge, m, x)) = Len(m) + Len(bridge) + 1
         /\ \A i \in 1..Len(m) : Longer(bridge, m, x)[i] = m[i]
         /\ Longer(bridge, m, x)[Len(m) + Len(bridge) + 1] = x
  <1>. DEFINE first == m \o bridge
              last == <<x>>
              all == first \o last
  <1>1. Len(m) \in Nat /\ Len(bridge) \in Nat
    BY LenProperties
  <1>2. /\ first \in Seq(Nat) /\ Len(first) = Len(m) + Len(bridge)
        /\ \A i \in 1..(Len(m) + Len(bridge)) :
             first[i] = IF i <= Len(m) THEN m[i] ELSE bridge[i - Len(m)]
    BY ConcatProperties
  <1>3. last \in Seq(Nat) /\ Len(last) = 1 /\ last[1] = x
    OBVIOUS
  <1>. HIDE DEF first, last
  <1>4. /\ all \in Seq(Nat) /\ Len(all) = Len(first) + 1
        /\ \A i \in 1..(Len(first) + 1) :
             all[i] = IF i <= Len(first) THEN first[i] ELSE last[i - Len(first)]
    <2>1. first \in Seq(Nat) /\ last \in Seq(Nat)
      BY <1>2, <1>3
    <2>2. /\ all \in Seq(Nat) /\ Len(all) = Len(first) + Len(last)
          /\ \A i \in 1..(Len(first) + Len(last)) :
               all[i] = IF i <= Len(first) THEN first[i] ELSE last[i - Len(first)]
      BY <2>1, ConcatProperties
    <2>. HIDE DEF all
    <2>. QED
      BY <1>3, <2>2
  <1>5. Longer(bridge, m, x) = all
    BY DEF Longer, first, last
  <1>. HIDE DEF all
  <1>6. \A i \in 1..Len(m) : all[i] = m[i]
    BY <1>1, <1>2, <1>4, SMTT(30)
  <1>7. all[Len(m) + Len(bridge) + 1] = x
    <2>1. Len(first) + 1 \in 1..(Len(first) + 1) /\ ~(Len(first) + 1 <= Len(first))
          /\ (Len(first) + 1) - Len(first) = 1
      BY <1>1, <1>2
    <2>2. all[Len(first) + 1] = last[1]
      BY <1>4, <2>1
    <2>. QED
      BY <1>2, <1>3, <2>2
  <1>. QED
    BY <1>2, <1>4, <1>5, <1>6, <1>7

SameLength(m, k) == m \in Seq(Nat) /\ k \in Seq(Nat) /\ Len(m) = Len(k)

LEMMA LongerDiffers ==
  ASSUME NEW m, NEW k, SameLength(m, k), NEW bridge, bridge \in Seq(Nat),
         NEW x, NEW y, x \in Nat, y \in Nat, Longer(bridge, m, x) = Longer(bridge, k, y)
  PROVE  m = k /\ x = y
  <1>. DEFINE a == Longer(bridge, m, x)
              b == Longer(bridge, k, y)
  <1>1. /\ \A i \in 1..Len(m) : a[i] = m[i]
        /\ a[Len(m) + Len(bridge) + 1] = x
    BY LongerIs DEF SameLength
  <1>2. /\ \A i \in 1..Len(k) : b[i] = k[i]
        /\ b[Len(k) + Len(bridge) + 1] = y
    BY LongerIs DEF SameLength
  <1>3. a = b /\ Len(m) = Len(k)
    BY DEF SameLength
  <1>. HIDE DEF a, b
  <1>4. \A i \in 1..Len(m) : m[i] = k[i]
    BY <1>1, <1>2, <1>3
  <1>5. m = k
    BY <1>4, SeqEqual DEF SameLength
  <1>. QED
    BY <1>1, <1>2, <1>3, <1>5

(* The messages of a pair have one length and lead to one state.           *)
Fits(h, state, len, pair) ==
  /\ pair.left \in Messages /\ pair.right \in Messages /\ pair.left # pair.right
  /\ Len(pair.left) = len /\ Len(pair.right) = len
  /\ ForwardOf(h, pair.left) = state /\ ForwardOf(h, pair.right) = state

MessagesOf(pair) == {pair.left, pair.right}

BeamFits(h, state, len, list) ==
  /\ list \in Seq(Candidates)
  /\ \A n \in 1..Len(list) : Fits(h, state, len, list[n])
  /\ \A m, n \in 1..Len(list) : m # n => MessagesOf(list[m]) # MessagesOf(list[n])

LEMMA LongerLeads ==
  ASSUME NEW h \in Hashes, NEW m \in Messages, NEW step \in StepRecords,
         LeadsOn(h, ForwardOf(h, m), step), NEW x \in {step.left, step.right}
  PROVE  /\ Longer(step.bridge, m, x) \in Messages
         /\ ForwardOf(h, Longer(step.bridge, m, x)) = step.common
         /\ Len(Longer(step.bridge, m, x)) = Len(m) + Len(step.bridge) + 1
         /\ m \in Seq(Nat) /\ step.bridge \in Seq(Nat) /\ x \in Nat /\ Len(step.bridge) \in Nat
         /\ step.left < step.right
  <1>1. step.bridge \in Bridges /\ step.left \in Symbols /\ step.right \in Symbols
    BY DEF StepRecords
  <1>2. x \in Symbols
    BY <1>1
  <1>. DEFINE B == Absorbed(h, ForwardOf(h, m), step.bridge)
  <1>3. <<step.left, step.right>> \in AliasesOf(h, B) /\ step.common = h.absorb[B][step.left]
    BY DEF LeadsOn
  <1>. HIDE DEF B
  <1>4. h.absorb[B][step.left] = h.absorb[B][step.right] /\ step.left < step.right
    BY <1>3 DEF AliasesOf, SymbolPairs
  <1>5. h.absorb[B][x] = step.common
    BY <1>3, <1>4
  <1>6. /\ (m \o step.bridge) \o <<x>> \in Messages
        /\ ForwardOf(h, (m \o step.bridge) \o <<x>>) = h.absorb[B][x]
        /\ Len((m \o step.bridge) \o <<x>>) = Len(m) + Len(step.bridge) + 1
    BY <1>1, <1>2, ForwardBridged DEF B
  <1>7. step.bridge \in Seq(Nat) /\ Len(step.bridge) \in Nat
    BY <1>1, BridgesAreSequences
  <1>8. m \in Seq(Nat) /\ x \in Nat
    BY <1>2, SymbolsAreNumbers DEF Messages
  <1>. QED
    BY <1>4, <1>5, <1>6, <1>7, <1>8 DEF Longer

LEMMA PairIs ==
  ASSUME NEW a \in Seq(Nat), NEW b \in Seq(Nat)
  PROVE  /\ Pair(a, b) \in [left : Seq(Nat), right : Seq(Nat)]
         /\ \/ Pair(a, b).left = a /\ Pair(a, b).right = b
            \/ Pair(a, b).left = b /\ Pair(a, b).right = a
         /\ ~Before(Pair(a, b).right, Pair(a, b).left)
  <1>1. ~(Before(b, a) /\ Before(a, b))
    BY VectorsAreOrdered
  <1>. QED
    BY <1>1 DEF Pair

LEMMA ExpandedFits ==
  ASSUME NEW h \in Hashes, NEW state, NEW len \in Nat, BeamFits(h, state, len, beam),
         NEW step \in StepRecords, LeadsOn(h, state, step)
  PROVE  /\ \A pair \in Expanded(step) :
              /\ pair \in [left : Seq(Nat), right : Seq(Nat)]
              /\ Fits(h, step.common, len + Len(step.bridge) + 1, pair)
         /\ \A p, q \in Expanded(step) : MessagesOf(p) = MessagesOf(q) => p = q
         /\ IsFiniteSet(Expanded(step)) /\ Cardinality(Expanded(step)) = 4 * Len(beam)
  <1>. DEFINE E == {step.left, step.right}
              D == (1..Len(beam)) \X (E \X E)
              L(d) == Longer(step.bridge, beam[d[1]].left, d[2][1])
              R(d) == Longer(step.bridge, beam[d[1]].right, d[2][2])
              f == [d \in D |-> Pair(L(d), R(d))]
              T == Expanded(step)
  <1>1. Len(beam) \in Nat /\ DOMAIN beam = 1..Len(beam)
    BY LenProperties DEF BeamFits
  <1>2. ASSUME NEW n \in 1..Len(beam)
        PROVE  /\ beam[n].left \in Messages /\ beam[n].right \in Messages
               /\ beam[n].left # beam[n].right
               /\ Len(beam[n].left) = len /\ Len(beam[n].right) = len
               /\ ForwardOf(h, beam[n].left) = state /\ ForwardOf(h, beam[n].right) = state
    BY DEF BeamFits, Fits
  <1>3. ASSUME NEW n \in 1..Len(beam), NEW x \in E, NEW m \in {beam[n].left, beam[n].right}
        PROVE  /\ Longer(step.bridge, m, x) \in Messages
               /\ ForwardOf(h, Longer(step.bridge, m, x)) = step.common
               /\ Len(Longer(step.bridge, m, x)) = len + Len(step.bridge) + 1
               /\ m \in Seq(Nat) /\ step.bridge \in Seq(Nat) /\ x \in Nat /\ Len(m) = len
               /\ step.left < step.right
    <2>1. m \in Messages /\ Len(m) = len /\ ForwardOf(h, m) = state
      BY <1>2
    <2>. QED
      BY <2>1, LongerLeads
  <1>4. ASSUME NEW d \in D
        PROVE  /\ d[1] \in 1..Len(beam) /\ d[2][1] \in E /\ d[2][2] \in E
               /\ d = <<d[1], <<d[2][1], d[2][2]>>>>
               /\ L(d) \in Messages /\ R(d) \in Messages /\ L(d) # R(d)
               /\ L(d) \in Seq(Nat) /\ R(d) \in Seq(Nat)
               /\ Len(L(d)) = len + Len(step.bridge) + 1 /\ Len(R(d)) = len + Len(step.bridge) + 1
               /\ ForwardOf(h, L(d)) = step.common /\ ForwardOf(h, R(d)) = step.common
    <2>1. d[1] \in 1..Len(beam) /\ d[2][1] \in E /\ d[2][2] \in E
          /\ d = <<d[1], <<d[2][1], d[2][2]>>>>
      OBVIOUS
    <2>. HIDE DEF D, E
    <2>2. /\ L(d) \in Messages /\ ForwardOf(h, L(d)) = step.common
          /\ Len(L(d)) = len + Len(step.bridge) + 1
      BY <1>3, <2>1
    <2>3. /\ R(d) \in Messages /\ ForwardOf(h, R(d)) = step.common
          /\ Len(R(d)) = len + Len(step.bridge) + 1
      BY <1>3, <2>1
    <2>4. L(d) # R(d)
      <3>1. /\ beam[d[1]].left \in Seq(Nat) /\ beam[d[1]].right \in Seq(Nat)
            /\ Len(beam[d[1]].left) = Len(beam[d[1]].right) /\ step.bridge \in Seq(Nat)
            /\ d[2][1] \in Nat /\ d[2][2] \in Nat
        BY <1>3, <2>1
      <3>2. beam[d[1]].left # beam[d[1]].right
        BY <1>2, <2>1
      <3>3. SameLength(beam[d[1]].left, beam[d[1]].right)
        BY <3>1 DEF SameLength
      <3>. QED
        BY <3>1, <3>2, <3>3, LongerDiffers, SMTT(30)
    <2>. QED
      BY <2>1, <2>2, <2>3, <2>4 DEF Messages
  <1>5. T = {f[d] : d \in D}
    <2>1. ASSUME NEW n \in DOMAIN beam, NEW l \in E, NEW r \in E
          PROVE  LET pair == Pair((beam[n].left \o step.bridge) \o <<l>>,
                                  (beam[n].right \o step.bridge) \o <<r>>)
                 IN  pair = f[<<n, <<l, r>>>>] /\ <<n, <<l, r>>>> \in D /\ pair.left # pair.right
      <3>. DEFINE d == <<n, <<l, r>>>>
      <3>1. d \in D /\ d[1] = n /\ d[2][1] = l /\ d[2][2] = r
        BY <1>1
      <3>2. L(d) \in Seq(Nat) /\ R(d) \in Seq(Nat) /\ L(d) # R(d)
        <4>. HIDE DEF d, D
        <4>. QED
          BY <1>4, <3>1
      <3>3. f[d] = Pair(L(d), R(d))
        <4>. HIDE DEF d, D, L, R
        <4>. QED
          BY <3>1
      <3>4. Pair(L(d), R(d)).left # Pair(L(d), R(d)).right
        <4>. HIDE DEF d, D, L, R
        <4>. QED
          BY <3>2, PairIs
      <3>5. /\ L(d) = (beam[n].left \o step.bridge) \o <<l>>
            /\ R(d) = (beam[n].right \o step.bridge) \o <<r>>
        BY <3>1 DEF Longer
      <3>. HIDE DEF L, R, f
      <3>. QED
        BY <3>1, <3>3, <3>4, <3>5
    <2>2. ASSUME NEW d \in D PROVE f[d] \in T
      <3>1. d[1] \in DOMAIN beam /\ d[2][1] \in E /\ d[2][2] \in E /\ d = <<d[1], <<d[2][1], d[2][2]>>>>
        BY <1>1, <1>4
      <3>2. LET pair == Pair((beam[d[1]].left \o step.bridge) \o <<d[2][1]>>,
                             (beam[d[1]].right \o step.bridge) \o <<d[2][2]>>)
            IN  pair = f[d] /\ pair.left # pair.right
        <4>. HIDE DEF f, D, E
        <4>. QED
          BY <2>1, <3>1
      <3>. HIDE DEF f, D, L, R
      <3>. QED
        BY <3>1, <3>2 DEF Expanded
    <2>3. ASSUME NEW pair \in T PROVE \E d \in D : pair = f[d]
      <3>1. PICK n \in DOMAIN beam, l \in E, r \in E :
              pair = Pair((beam[n].left \o step.bridge) \o <<l>>,
                          (beam[n].right \o step.bridge) \o <<r>>)
        BY DEF Expanded
      <3>. HIDE DEF f, D, E
      <3>. QED
        BY <2>1, <3>1
    <2>. HIDE DEF f, D, T
    <2>. QED
      BY <2>2, <2>3
  <1>6. ASSUME NEW d \in D
        PROVE  /\ f[d] \in [left : Seq(Nat), right : Seq(Nat)]
               /\ \/ f[d].left = L(d) /\ f[d].right = R(d)
                  \/ f[d].left = R(d) /\ f[d].right = L(d)
               /\ ~Before(f[d].right, f[d].left)
    <2>1. f[d] = Pair(L(d), R(d))
      <3>. HIDE DEF D, L, R
      <3>. QED
        OBVIOUS
    <2>2. L(d) \in Seq(Nat) /\ R(d) \in Seq(Nat)
      BY <1>4
    <2>. HIDE DEF f, L, R, D
    <2>. QED
      BY <2>1, <2>2, PairIs
  <1>7. ASSUME NEW pair \in T
        PROVE  /\ pair \in [left : Seq(Nat), right : Seq(Nat)]
               /\ Fits(h, step.common, len + Len(step.bridge) + 1, pair)
               /\ ~Before(pair.right, pair.left)
    <2>1. PICK d \in D : pair = f[d]
      BY <1>5
    <2>. HIDE DEF f, L, R, D, T
    <2>. QED
      BY <1>4, <1>6, <2>1, ZenonT(30) DEF Fits
  <1>8. ASSUME NEW p \in T, NEW q \in T, MessagesOf(p) = MessagesOf(q) PROVE p = q
    <2>. HIDE DEF T
    <2>1. p = [left |-> p.left, right |-> p.right] /\ q = [left |-> q.left, right |-> q.right]
      BY <1>7
    <2>2. CASE p.left = q.left
      <3>1. p.right = q.right
        BY <1>8, <2>2 DEF MessagesOf
      <3>. QED
        BY <2>1, <2>2, <3>1
    <2>3. CASE p.left # q.left
      <3>1. p.left = q.right /\ p.right = q.left
        BY <1>8, <2>3 DEF MessagesOf
      <3>2. p.left # p.right /\ p.left \in Seq(Nat) /\ p.right \in Seq(Nat)
        BY <1>7 DEF Fits
      <3>3. ~Before(p.right, p.left) /\ ~Before(p.left, p.right)
        BY <1>7, <3>1
      <3>. QED
        BY <3>2, <3>3, VectorsAreOrdered
    <2>. QED
      BY <2>2, <2>3
  <1>9. ASSUME NEW c \in D, NEW d \in D, f[c] = f[d] PROVE c = d
    <2>1. /\ c[1] \in 1..Len(beam) /\ c[2][1] \in E /\ c[2][2] \in E
          /\ d[1] \in 1..Len(beam) /\ d[2][1] \in E /\ d[2][2] \in E
          /\ c = <<c[1], <<c[2][1], c[2][2]>>>> /\ d = <<d[1], <<d[2][1], d[2][2]>>>>
      BY <1>4
    <2>2. \/ L(c) = L(d) /\ R(c) = R(d)
          \/ L(c) = R(d) /\ R(c) = L(d)
      <3>. HIDE DEF L, R, f, D
      <3>. QED
        BY <1>6, <1>9
    <2>. HIDE DEF D, E, f
    <2>5. /\ SameLength(beam[c[1]].left, beam[d[1]].left)
          /\ SameLength(beam[c[1]].right, beam[d[1]].right)
          /\ SameLength(beam[c[1]].left, beam[d[1]].right)
          /\ SameLength(beam[c[1]].right, beam[d[1]].left)
          /\ step.bridge \in Seq(Nat) /\ c[2][1] \in Nat /\ c[2][2] \in Nat
          /\ d[2][1] \in Nat /\ d[2][2] \in Nat
      BY <1>3, <2>1 DEF SameLength
    <2>3. CASE L(c) = L(d) /\ R(c) = R(d)
      <3>1. beam[c[1]].left = beam[d[1]].left /\ c[2][1] = d[2][1]
        BY <2>3, <2>5, LongerDiffers
      <3>2. beam[c[1]].right = beam[d[1]].right /\ c[2][2] = d[2][2]
        BY <2>3, <2>5, LongerDiffers
      <3>3. c[1] = d[1]
        BY <2>1, <3>1, <3>2 DEF BeamFits, MessagesOf
      <3>. QED
        BY <2>1, <3>1, <3>2, <3>3
    <2>4. CASE L(c) = R(d) /\ R(c) = L(d)
      <3>1. beam[c[1]].left = beam[d[1]].right
        BY <2>4, <2>5, LongerDiffers
      <3>2. beam[c[1]].right = beam[d[1]].left
        BY <2>4, <2>5, LongerDiffers
      <3>3. MessagesOf(beam[c[1]]) = MessagesOf(beam[d[1]])
        BY <3>1, <3>2 DEF MessagesOf
      <3>4. c[1] = d[1]
        BY <2>1, <3>3 DEF BeamFits
      <3>. QED
        BY <1>2, <2>1, <3>1, <3>4
    <2>. QED
      BY <2>2, <2>3, <2>4
  <1>10. Len(beam) # 0 => step.left # step.right
    <2>1. ASSUME Len(beam) # 0 PROVE step.left < step.right
      <3>1. 1 \in 1..Len(beam) /\ step.left \in E /\ beam[1].left \in {beam[1].left, beam[1].right}
        BY <1>1, <2>1
      <3>. HIDE DEF E
      <3>. QED
        BY <1>3, <3>1
    <2>2. step.left \in Nat /\ step.right \in Nat
      BY SymbolsAreNumbers DEF StepRecords
    <2>. QED
      BY <2>1, <2>2
  <1>11. IsFiniteSet(D) /\ Cardinality(D) = 4 * Len(beam)
    <2>1. IsFiniteSet(E) /\ (Len(beam) # 0 => Cardinality(E) = 2) /\ Cardinality(E) \in Nat
      <3>1. IsFiniteSet({step.left}) /\ Cardinality({step.left}) = 1
        BY FS_Singleton
      <3>2. {step.left} \cup {step.right} = E
        OBVIOUS
      <3>3. IsFiniteSet({step.left} \cup {step.right})
            /\ Cardinality({step.left} \cup {step.right})
                 = IF step.right \in {step.left} THEN 1 ELSE 2
        BY <3>1, FS_AddElement
      <3>4. IsFiniteSet(E)
        BY <3>2, <3>3
      <3>5. Len(beam) # 0 => Cardinality(E) = 2
        BY <1>10, <3>2, <3>3
      <3>6. Cardinality(E) \in Nat
        BY <3>4, FS_CardinalityType
      <3>. QED
        BY <3>4, <3>5, <3>6
    <2>2. IsFiniteSet(1..Len(beam)) /\ Cardinality(1..Len(beam)) = Len(beam)
      <3>. DEFINE size == Len(beam)
      <3>1. size \in Nat
        BY <1>1
      <3>. HIDE DEF size
      <3>2. IsFiniteSet(1..size)
            /\ Cardinality(1..size) = IF 1 > size THEN 0 ELSE size - 1 + 1
        BY <3>1, FS_Interval
      <3>3. Cardinality(1..size) = size
        BY <3>1, <3>2
      <3>. QED
        BY <3>2, <3>3 DEF size
    <2>. HIDE DEF E
    <2>3. IsFiniteSet(E \X E) /\ Cardinality(E \X E) = Cardinality(E) * Cardinality(E)
      BY <2>1, FS_Product
    <2>4. IsFiniteSet(D) /\ Cardinality(D) = Cardinality(1..Len(beam)) * Cardinality(E \X E)
      BY <2>2, <2>3, FS_Product
    <2>. HIDE DEF D
    <2>5. CASE Len(beam) = 0
      <3>1. Cardinality(E) * Cardinality(E) \in Nat
        BY <2>1
      <3>. QED
        BY <2>2, <2>3, <2>4, <2>5, <3>1
    <2>6. CASE Len(beam) # 0
      BY <1>1, <2>1, <2>2, <2>3, <2>4, <2>6
    <2>. QED
      BY <2>5, <2>6
  <1>12. IsFiniteSet(T) /\ Cardinality(T) = Cardinality(D)
    <2>. HIDE DEF D, T
    <2>1. f \in [D -> T]
      <3>1. \A d \in D : f[d] \in T
        BY <1>5
      <3>2. f = [d \in D |-> f[d]]
        OBVIOUS
      <3>. HIDE DEF f
      <3>. QED
        BY <3>1, <3>2
    <2>. HIDE DEF f
    <2>2. f \in Surjection(D, T)
      BY <1>5, <2>1 DEF Surjection
    <2>3. f \in Injection(D, T)
      BY <1>9, <2>1 DEF Injection, IsInjective
    <2>. QED
      BY <1>11, <2>2, <2>3, FS_Surjection
  <1>. HIDE DEF T
  <1>. QED
    BY <1>7, <1>8, <1>11, <1>12 DEF T

LEMMA DistancesAreNumbers ==
  ASSUME NEW a, NEW b, NEW bytes \in Nat
  PROVE  BitsApart(a, b, bytes) \in Nat /\ BytesApart(a, b, bytes) \in Nat
  <1>. DEFINE bits == {p \in (1..bytes) \X ByteBits : (p[2] \in a[p[1]]) # (p[2] \in b[p[1]])}
              apart == {n \in 1..bytes : a[n] # b[n]}
  <1>1. IsFiniteSet(1..bytes)
    BY FS_Interval
  <1>2. IsFiniteSet((1..bytes) \X ByteBits)
    BY <1>1, BytesAssumption, FS_Product
  <1>3. bits \subseteq (1..bytes) \X ByteBits /\ apart \subseteq 1..bytes
    OBVIOUS
  <1>4. BitsApart(a, b, bytes) = Cardinality(bits) /\ BytesApart(a, b, bytes) = Cardinality(apart)
    BY Zenon DEF BitsApart, BytesApart
  <1>. HIDE DEF bits, apart
  <1>5. IsFiniteSet(bits) /\ IsFiniteSet(apart)
    BY <1>1, <1>2, <1>3, FS_Subset
  <1>6. Cardinality(bits) \in Nat /\ Cardinality(apart) \in Nat
    BY <1>5, FS_CardinalityType
  <1>. QED
    BY <1>4, <1>6

LEMMA ScoreIs ==
  ASSUME NEW pair, pair.left \in Seq(Nat), pair.right \in Seq(Nat), NEW forward
  PROVE  /\ Score(pair, forward) \in Candidates
         /\ Score(pair, forward).left = pair.left /\ Score(pair, forward).right = pair.right
  <1>1. DigestDistances(pair, forward) \in Seq(Nat)
    <2>. DEFINE x == BitsApart(Digest(pair.left), Digest(pair.right), DigestBytes)
                y == BitsApart(FoldbackFrom(forward, pair.left),
                               FoldbackFrom(forward, pair.right), StateBytes)
    <2>1. x \in Nat /\ y \in Nat
      BY DistancesAreNumbers, BytesAssumption
    <2>2. DigestDistances(pair, forward) = <<x, y>>
      BY DEF DigestDistances
    <2>. HIDE DEF x, y
    <2>. QED
      BY <2>1, <2>2
  <1>2. FoldbackDistances(pair, forward) \in Seq(Nat)
    <2>. DEFINE l == FoldbackFrom(forward, pair.left)
                r == FoldbackFrom(forward, pair.right)
                x == BitsApart(l, r, StateBytes)
                y == BytesApart(l, r, StateBytes)
    <2>1. x \in Nat /\ y \in Nat
      <3>. HIDE DEF l, r
      <3>. QED
        BY DistancesAreNumbers, BytesAssumption
    <2>2. FoldbackDistances(pair, forward) = <<x, y>>
      BY DEF FoldbackDistances
    <2>. HIDE DEF x, y
    <2>. QED
      BY <2>1, <2>2
  <1>. QED
    BY <1>1, <1>2 DEF Score, Candidates

(* The candidates of a level, and what is kept of them.                    *)
LevelOf(step, forward) == {Score(pair, forward) : pair \in Expanded(step)}

LEMMA CandidatesOfLevel ==
  ASSUME NEW h \in Hashes, NEW state, NEW len \in Nat, BeamFits(h, state, len, beam), beam # <<>>,
         NEW step \in StepRecords, LeadsOn(h, state, step), NEW forward
  PROVE  /\ LevelOf(step, forward) \in SUBSET Candidates
         /\ \A c \in LevelOf(step, forward) : Fits(h, step.common, len + Len(step.bridge) + 1, c)
         /\ \A c, d \in LevelOf(step, forward) : MessagesOf(c) = MessagesOf(d) => c = d
         /\ IsFiniteSet(LevelOf(step, forward))
         /\ Cardinality(LevelOf(step, forward)) = 4 * Len(beam)
         /\ LevelOf(step, forward) # {} /\ Len(step.bridge) \in Nat
  <1>. DEFINE new == len + Len(step.bridge) + 1
              T == Expanded(step)
              C == LevelOf(step, forward)
              f == [pair \in T |-> Score(pair, forward)]
  <1>1. /\ \A pair \in T : pair \in [left : Seq(Nat), right : Seq(Nat)]
                           /\ Fits(h, step.common, new, pair)
        /\ \A p, q \in T : MessagesOf(p) = MessagesOf(q) => p = q
        /\ IsFiniteSet(T) /\ Cardinality(T) = 4 * Len(beam)
    BY ExpandedFits
  <1>. HIDE DEF T, new
  <1>2. ASSUME NEW pair \in T
        PROVE  /\ Score(pair, forward) \in Candidates
               /\ Score(pair, forward).left = pair.left /\ Score(pair, forward).right = pair.right
    BY <1>1, ScoreIs
  <1>3. C = {Score(pair, forward) : pair \in T}
    BY DEF LevelOf, T
  <1>. HIDE DEF C
  <1>4. ASSUME NEW c \in C PROVE c \in Candidates /\ Fits(h, step.common, new, c)
    <2>1. PICK pair \in T : c = Score(pair, forward)
      BY <1>3
    <2>. QED
      BY <1>1, <1>2, <2>1 DEF Fits
  <1>5. ASSUME NEW c \in C, NEW d \in C, MessagesOf(c) = MessagesOf(d) PROVE c = d
    <2>1. PICK p \in T : c = Score(p, forward)
      BY <1>3
    <2>2. PICK q \in T : d = Score(q, forward)
      BY <1>3
    <2>3. MessagesOf(p) = MessagesOf(q)
      BY <1>2, <1>5, <2>1, <2>2 DEF MessagesOf
    <2>. QED
      BY <1>1, <2>1, <2>2, <2>3
  <1>6. IsFiniteSet(C) /\ Cardinality(C) = Cardinality(T)
    <2>1. \A pair \in T : f[pair] = Score(pair, forward) /\ f[pair] \in C
      BY <1>3
    <2>2. f \in [T -> C]
      BY <2>1
    <2>3. ASSUME NEW p \in T, NEW q \in T, f[p] = f[q] PROVE p = q
      <3>1. p.left = q.left /\ p.right = q.right
        BY <1>2, <2>1, <2>3
      <3>. QED
        BY <1>1, <3>1, SMTT(30)
    <2>4. \A c \in C : \E pair \in T : f[pair] = c
      BY <1>3, <2>1
    <2>. HIDE DEF f
    <2>5. f \in Surjection(T, C)
      BY <2>2, <2>4 DEF Surjection
    <2>6. f \in Injection(T, C)
      BY <2>2, <2>3 DEF Injection, IsInjective
    <2>. QED
      BY <1>1, <2>5, <2>6, FS_Surjection
  <1>7. Len(beam) \in Nat \ {0}
    BY EmptySeq DEF BeamFits
  <1>8. C # {}
    BY <1>1, <1>6, <1>7, FS_EmptySet
  <1>9. Len(step.bridge) \in Nat
    BY BridgesAreSequences DEF StepRecords
  <1>. QED
    BY <1>1, <1>4, <1>5, <1>6, <1>8, <1>9 DEF C, new

(* What is scored on a level, and what the beam keeps of it.               *)
LevelIsFit(h, state, len, C) ==
  /\ C \in SUBSET Candidates /\ IsFiniteSet(C) /\ C # {}
  /\ \A c \in C : Fits(h, state, len, c)
  /\ \A c, d \in C : MessagesOf(c) = MessagesOf(d) => c = d

NoneBetter(C, candidate) == \A c \in C : ~CandidateLess(c, candidate)

CutIsFit(h, state, len, C, width, list) ==
  /\ BeamFits(h, state, len, list)
  /\ list # <<>> /\ list[1] \in C /\ Len(list[1].left) = len
  /\ Len(list) = Min({width, Cardinality(C)})
  /\ NoneBetter(C, list[1])

LEMMA CutFits ==
  ASSUME NEW h, NEW state, NEW len, NEW C, LevelIsFit(h, state, len, C),
         NEW width \in Nat \ {0}
  PROVE  CutIsFit(h, state, len, C, width, FirstOf(C, CandidateLess, width))
  <1>. DEFINE first == FirstOf(C, CandidateLess, width)
  <1>0. /\ C \in SUBSET Candidates /\ IsFiniteSet(C) /\ C # {}
        /\ \A c \in C : Fits(h, state, len, c)
        /\ \A c, d \in C : MessagesOf(c) = MessagesOf(d) => c = d
    BY DEF LevelIsFit
  <1>1. /\ first \in Seq(C) /\ Len(first) >= 1 /\ Len(first) = Min({width, Cardinality(C)})
        /\ \A m, n \in 1..Len(first) : m # n => first[m] # first[n]
        /\ \A c \in C : ~CandidateLess(c, first[1])
    BY <1>0, FirstAreCandidates
  <1>. HIDE DEF first
  <1>2. \A n \in 1..Len(first) : first[n] \in C
    BY <1>1, ElementOfSeq
  <1>3. Len(first) \in Nat /\ first # <<>> /\ 1 \in 1..Len(first)
    BY <1>1, LenProperties, EmptySeq
  <1>4. first \in Seq(Candidates)
    BY <1>0, <1>1, SeqMonotonic
  <1>5. \A n \in 1..Len(first) : Fits(h, state, len, first[n])
    BY <1>0, <1>2
  <1>6. \A m, n \in 1..Len(first) : m # n => MessagesOf(first[m]) # MessagesOf(first[n])
    BY <1>0, <1>1, <1>2
  <1>7. Len(first[1].left) = len
    BY <1>3, <1>5 DEF Fits
  <1>8. CutIsFit(h, state, len, C, width, first)
    BY <1>1, <1>2, <1>3, <1>4, <1>5, <1>6, <1>7 DEF BeamFits, CutIsFit, NoneBetter
  <1>. QED
    BY <1>8 DEF first

LEMMA WidthIs ==
  ASSUME NEW o \in OptionSets, o.tool \in BeamTools
  PROVE  o.beam_width \in Nat \ {0}
  BY BeamAssumption

LEMMA FourTimes ==
  /\ 2 ^ (2 * 0) = 1
  /\ \A n \in Nat : 2 ^ (2 * n) \in Nat /\ 2 ^ (2 * (n + 1)) = 4 * 2 ^ (2 * n)
  <1>1. 2 * 0 = 0 /\ 2 ^ 0 = 1
    OBVIOUS
  <1>2. ASSUME NEW n \in Nat
        PROVE  2 ^ (2 * n) \in Nat /\ 2 ^ (2 * (n + 1)) = 4 * 2 ^ (2 * n)
    <2>. DEFINE k == 2 * n
    <2>1. k \in Nat /\ k + 1 \in Nat /\ 2 * (n + 1) = (k + 1) + 1
      OBVIOUS
    <2>. HIDE DEF k
    <2>2. 2 ^ k \in Nat /\ 2 ^ (k + 1) = 2 * 2 ^ k
      BY <2>1, PowerDoubles
    <2>3. 2 ^ ((k + 1) + 1) = 2 * 2 ^ (k + 1)
      BY <2>1, PowerDoubles
    <2>. QED
      BY <2>1, <2>2, <2>3 DEF k
  <1>. QED
    BY <1>1, <1>2

LEMMA PathLeads ==
  ASSUME NEW h, NEW levels \in Nat, NEW start \in States, NEW calls,
         CallsAreFit(h, levels, start, calls), Len(calls) = levels, NEW n \in 1..(levels - 1)
  PROVE  /\ calls[n].steps[calls[n].tried] \in StepRecords
         /\ LeadsOn(h, Got(start, calls, n), calls[n].steps[calls[n].tried])
         /\ Got(start, calls, n + 1) = calls[n].steps[calls[n].tried].common
         /\ Got(start, calls, n) \in States
  <1>1. n \in 1..Len(calls) /\ n \in 1..(Len(calls) - 1) /\ levels - n # 0
    OBVIOUS
  <1>2. CallIsFit(h, Got(start, calls, n), levels - n, calls[n]) /\ calls[n].tried >= 1
    BY <1>1 DEF CallsAreFit
  <1>3. Offers(h, Got(start, calls, n), Bridges, calls[n].steps)
    BY <1>1, <1>2 DEF CallIsFit
  <1>4. calls[n].steps \in Seq(StepRecords) /\ Len(calls[n].steps) \in Nat
    BY <1>3, LenProperties DEF Offers
  <1>5. calls[n].tried \in 1..Len(calls[n].steps)
    BY <1>2, <1>4 DEF CallIsFit
  <1>6. calls[n].steps[calls[n].tried] \in StepRecords
    BY <1>4, <1>5, ElementOfSeq
  <1>7. LeadsOn(h, Got(start, calls, n), calls[n].steps[calls[n].tried])
    BY <1>3, <1>5 DEF Offers
  <1>8. Got(start, calls, n + 1) = calls[n].steps[calls[n].tried].common
    <2>1. n + 1 # 1 /\ (n + 1) - 1 = n
      OBVIOUS
    <2>. QED
      BY <2>1 DEF Got, At
  <1>9. Got(start, calls, n) \in States
    BY <1>1, GotIsState
  <1>. QED
    BY <1>6, <1>7, <1>8, <1>9

-----------------------------------------------------------------------------
(* What the beams keep.                                                    *)

PairsOf(all) == {<<s[2].left, s[2].right>> : s \in all}

(* What has been scored is no longer than len, counted by pairs, and the   *)
(* best of it is known.                                                    *)
ScoredFit(len, all, count, number, candidate) ==
  /\ all \in SUBSET (Nat \X Candidates) /\ IsFiniteSet(PairsOf(all))
  /\ \A s \in all : Len(s[2].left) <= len
  /\ count = Cardinality(PairsOf(all))
  /\ <<number, candidate>> \in all
  /\ \A s \in all : ~CandidateLess(s[2], candidate)

LEMMA FirstIsScored ==
  ASSUME NEW c \in Candidates, NEW len, Len(c.left) = len
  PROVE  ScoredFit(len, {<<1, c>>}, 1, 1, c)
  <1>1. PairsOf({<<1, c>>}) = {<<c.left, c.right>>}
    BY DEF PairsOf
  <1>2. IsFiniteSet({<<c.left, c.right>>}) /\ Cardinality({<<c.left, c.right>>}) = 1
    BY FS_Singleton
  <1>3. Len(c.left) \in Nat
    BY LenProperties DEF Candidates
  <1>4. ~CandidateLess(c, c)
    BY CandidatesAreOrdered
  <1>. DEFINE all == {<<1, c>>}
  <1>5. /\ all \in SUBSET (Nat \X Candidates) /\ <<1, c>> \in all
        /\ \A s \in all : s[2] = c
    OBVIOUS
  <1>6. IsFiniteSet(PairsOf(all)) /\ Cardinality(PairsOf(all)) = 1
    BY <1>1, <1>2
  <1>7. len <= len
    BY <1>3
  <1>. HIDE DEF all
  <1>8. \A s \in all : Len(s[2].left) <= len /\ ~CandidateLess(s[2], c)
    BY <1>4, <1>5, <1>7
  <1>9. ScoredFit(len, all, 1, 1, c)
    BY <1>5, <1>6, <1>8 DEF ScoredFit
  <1>. QED
    BY <1>9 DEF all

(* The better of the first new candidate and the best so far.              *)
Better(place, first, number, candidate) ==
  IF CandidateLess(first, candidate) THEN <<place, first>> ELSE <<number, candidate>>

Placed(place, C) == {<<place, c>> : c \in C}

LEMMA MoreIsScored ==
  ASSUME NEW len \in Nat, NEW all, NEW count, NEW number, NEW candidate,
         ScoredFit(len, all, count, number, candidate),
         NEW h, NEW state, NEW C, NEW longer \in Nat, LevelIsFit(h, state, longer, C),
         len < longer, NEW place \in Nat, NEW first \in C, NoneBetter(C, first),
         NEW newnumber, NEW newcandidate,
         <<newnumber, newcandidate>> = Better(place, first, number, candidate)
  PROVE  ScoredFit(longer, all \cup Placed(place, C), count + Cardinality(C),
                   newnumber, newcandidate)
  <1>. DEFINE new == {<<place, c>> : c \in C}
              both == all \cup new
              P == PairsOf(all)
              Q == PairsOf(new)
              pair == [c \in C |-> <<c.left, c.right>>]
  <1>1. /\ all \in SUBSET (Nat \X Candidates) /\ IsFiniteSet(P)
        /\ \A s \in all : Len(s[2].left) <= len
        /\ count = Cardinality(P) /\ <<number, candidate>> \in all
        /\ \A s \in all : ~CandidateLess(s[2], candidate)
    BY DEF ScoredFit
  <1>0. /\ C \in SUBSET Candidates /\ IsFiniteSet(C) /\ \A c \in C : Len(c.left) = longer
        /\ \A c, d \in C : MessagesOf(c) = MessagesOf(d) => c = d
        /\ \A c \in C : ~CandidateLess(c, first)
        /\ <<newnumber, newcandidate>> = IF CandidateLess(first, candidate)
                                         THEN <<place, first>> ELSE <<number, candidate>>
    BY DEF LevelIsFit, Fits, NoneBetter, Better
  <1>2. candidate \in Candidates
    BY <1>1
  <1>3. \A s \in all : s[2] \in Candidates /\ s[2].left \in Seq(Nat) /\ Len(s[2].left) \in Nat
    <2>1. \A s \in all : s[2] \in Candidates
      BY <1>1
    <2>. QED
      BY <2>1, LenProperties DEF Candidates
  <1>4. Q = {<<c.left, c.right>> : c \in C}
    <2>1. \A c \in C : <<place, c>> \in new /\ <<place, c>>[2] = c
      OBVIOUS
    <2>2. \A s \in new : s[2] \in C
      OBVIOUS
    <2>. HIDE DEF new
    <2>. QED
      BY <2>1, <2>2 DEF PairsOf
  <1>5. PairsOf(both) = P \cup Q
    BY DEF PairsOf
  <1>6. P \cap Q = {}
    <2>. SUFFICES ASSUME NEW x \in P, x \in Q PROVE FALSE
      OBVIOUS
    <2>1. PICK s \in all : x = <<s[2].left, s[2].right>>
      BY DEF PairsOf
    <2>2. PICK c \in C : x = <<c.left, c.right>>
      BY <1>4
    <2>3. Len(s[2].left) <= len /\ Len(s[2].left) = longer /\ Len(s[2].left) \in Nat
      BY <1>0, <1>1, <1>3, <2>1, <2>2
    <2>. QED
      BY <2>3
  <1>. HIDE DEF P, Q
  <1>7. IsFiniteSet(Q) /\ Cardinality(Q) = Cardinality(C)
    <2>1. pair \in [C -> Q] /\ \A x \in Q : \E c \in C : pair[c] = x
      BY <1>4
    <2>2. ASSUME NEW c \in C, NEW d \in C, pair[c] = pair[d] PROVE c = d
      <3>1. c.left = d.left /\ c.right = d.right
        BY <2>2
      <3>. QED
        BY <1>0, <3>1 DEF MessagesOf
    <2>. HIDE DEF pair
    <2>3. pair \in Surjection(C, Q) /\ pair \in Injection(C, Q)
      BY <2>1, <2>2 DEF Surjection, Injection, IsInjective
    <2>. QED
      BY <1>0, <2>3, FS_Surjection
  <1>8. IsFiniteSet(P \cup Q) /\ Cardinality(P \cup Q) = count + Cardinality(C)
    <2>1. /\ IsFiniteSet(P \cup Q)
          /\ Cardinality(P \cup Q) = Cardinality(P) + Cardinality(Q) - Cardinality(P \cap Q)
      BY <1>1, <1>7, FS_Union
    <2>2. Cardinality(P \cap Q) = 0
      BY <1>6, FS_EmptySet
    <2>3. Cardinality(P) \in Nat /\ Cardinality(Q) \in Nat
      BY <1>1, <1>7, FS_CardinalityType
    <2>. QED
      BY <1>1, <1>7, <2>1, <2>2, <2>3
  <1>9. both \in SUBSET (Nat \X Candidates) /\ \A s \in both : s \in all \/ s[2] \in C
    BY <1>0, <1>1
  <1>10. ASSUME NEW s \in both PROVE Len(s[2].left) <= longer
    <2>1. CASE s \in all
      BY <1>1, <1>3, <2>1
    <2>2. CASE s[2] \in C
      BY <1>0, <2>2
    <2>. QED
      BY <1>9, <2>1, <2>2
  <1>11. first \in Candidates /\ <<place, first>> \in both
    BY <1>0
  <1>12. CASE CandidateLess(first, candidate)
    <2>1. newnumber = place /\ newcandidate = first
      BY <1>0, <1>12
    <2>2. ASSUME NEW s \in both, CandidateLess(s[2], first) PROVE FALSE
      <3>1. CASE s \in all
        <4>1. CandidateLess(s[2], candidate)
          BY <1>2, <1>3, <1>11, <1>12, <2>2, <3>1, CandidatesAreOrdered
        <4>. QED
          BY <1>1, <3>1, <4>1
      <3>2. CASE s[2] \in C
        BY <1>0, <2>2, <3>2
      <3>. QED
        BY <1>9, <3>1, <3>2
    <2>. HIDE DEF both
    <2>3. \A s \in both : ~CandidateLess(s[2], newcandidate)
      BY <2>1, <2>2
    <2>4. ScoredFit(longer, both, count + Cardinality(C), newnumber, newcandidate)
      BY <1>5, <1>8, <1>9, <1>10, <1>11, <2>1, <2>3 DEF ScoredFit
    <2>. QED
      BY <2>4 DEF both, Placed
  <1>13. CASE ~CandidateLess(first, candidate)
    <2>1. newnumber = number /\ newcandidate = candidate
      BY <1>0, <1>13
    <2>2. ASSUME NEW s \in both, CandidateLess(s[2], candidate) PROVE FALSE
      <3>1. CASE s \in all
        BY <1>1, <2>2, <3>1
      <3>2. CASE s[2] \in C
        <4>1. ~CandidateLess(s[2], first) /\ s[2] \in Candidates
          BY <1>0, <3>2
        <4>2. s[2] = first \/ CandidateLess(first, s[2])
          BY <1>11, <4>1, CandidatesAreOrdered
        <4>3. CandidateLess(first, candidate)
          BY <1>2, <1>11, <2>2, <4>1, <4>2, CandidatesAreOrdered
        <4>. QED
          BY <1>13, <4>3
      <3>. QED
        BY <1>9, <3>1, <3>2
    <2>3. <<number, candidate>> \in both
      BY <1>1
    <2>. HIDE DEF both
    <2>4. \A s \in both : ~CandidateLess(s[2], newcandidate)
      BY <2>1, <2>2
    <2>5. ScoredFit(longer, both, count + Cardinality(C), newnumber, newcandidate)
      BY <1>5, <1>8, <1>9, <1>10, <2>1, <2>3, <2>4 DEF ScoredFit
    <2>. QED
      BY <2>5 DEF both, Placed
  <1>. QED
    BY <1>12, <1>13

Reached == Got(ForwardOf(hash, seeds[seed].left), stack, level)

BeamInv ==
  /\ pc \notin {"levels", "done"} => beam = <<>>
  /\ pc = "levels" => beam # <<>>
  /\ beam # <<>> =>
       /\ options.tool \in BeamTools /\ level \in 1..options.levels
       /\ common = Reached
       /\ Len(beam[1].left) \in Nat
       /\ BeamFits(hash, common, Len(beam[1].left), beam)
       /\ Len(beam) = Min({options.beam_width, 2 ^ (2 * (level - 1))})
       /\ ScoredFit(Len(beam[1].left), scored, evaluated, best_level, best)

LEMMA BeamBegins == Init => BeamInv
  BY DEF Init, PathInit, BeamInit, BeamInv

LEMMA StartBeamFits == SearchInv /\ StartBeam => BeamInv'
  <1>. SUFFICES ASSUME SearchInv, StartBeam PROVE BeamInv'
    OBVIOUS
  <1>. DEFINE L == options.levels
              first == Score(seeds[seed], common')
  <1>1. /\ pc = "found" /\ options.tool \in BeamTools /\ pc' = "levels" /\ level' = 1
        /\ common' = SeedState(seed) /\ best' = first /\ best_level' = 1
        /\ beam' = <<best'>> /\ evaluated' = 1 /\ scored' = {<<1, best'>>}
        /\ hash' = hash /\ request' = request /\ options' = options /\ seeds' = seeds
        /\ seed' = seed /\ stack' = stack
    BY DEF StartBeam, inputVars
  <1>2. /\ hash \in Hashes /\ request \in Requests /\ seeds = Catalogue(hash, request)
        /\ options \in OptionSets /\ seed \in 0..Len(seeds) /\ Len(seeds) \in Nat
        /\ L \in 2..32 /\ Len(stack) = L /\ (stack # <<>> => seed >= 1)
        /\ stack \in Seq(Frames)
    BY <1>1, LevelsAssumption, CatalogueIsSequence
       DEF SearchInv, SearchOver, CallsAreFit
  <1>3. seed \in 1..Len(seeds)
    <2>. HIDE DEF L
    <2>1. stack # <<>>
      BY <1>2, EmptySeq
    <2>2. seed >= 1 /\ seed \in 0..Len(seeds) /\ Len(seeds) \in Nat
      BY <1>2, <2>1
    <2>. QED
      BY <2>2
  <1>4. /\ seeds[seed].left \in Messages /\ seeds[seed].right \in Messages
        /\ Len(seeds[seed].left) = 2 /\ Len(seeds[seed].right) = 2
        /\ seeds[seed].left # seeds[seed].right
        /\ ForwardOf(hash, seeds[seed].left) = ForwardOf(hash, seeds[seed].right)
        /\ ForwardOf(hash, seeds[seed].left) \in States
    BY <1>2, <1>3, SeedsAreAliases
  <1>5. common' = ForwardOf(hash, seeds[seed].left)
    BY <1>1, ForwardIs DEF SeedState
  <1>6. first \in Candidates /\ first.left = seeds[seed].left /\ first.right = seeds[seed].right
    <2>1. seeds[seed].left \in Seq(Nat) /\ seeds[seed].right \in Seq(Nat)
      BY <1>4 DEF Messages
    <2>. QED
      BY <2>1, ScoreIs
  <1>. HIDE DEF first
  <1>. DEFINE b == best'
  <1>7. b = first /\ beam' = <<b>> /\ scored' = {<<1, b>>}
    BY <1>1
  <1>. HIDE DEF b
  <1>8. beam' # <<>> /\ Len(beam') = 1 /\ beam'[1] = b /\ beam' \in Seq(Candidates)
    BY <1>6, <1>7
  <1>9. BeamFits(hash', common', Len(beam'[1].left), beam')
    <2>1. Fits(hash, common', 2, first)
      BY <1>4, <1>5, <1>6 DEF Fits
    <2>2. \A n \in 1..Len(beam') : n = 1
      BY <1>8
    <2>. QED
      BY <1>1, <1>4, <1>6, <1>7, <1>8, <2>1, <2>2 DEF BeamFits
  <1>10. common' = Got(ForwardOf(hash', seeds'[seed'].left), stack', level')
    BY <1>1, <1>5 DEF Got
  <1>11. Len(beam') = Min({options'.beam_width, 2 ^ (2 * (level' - 1))})
    <2>. DEFINE w == options.beam_width
    <2>1. w \in Nat /\ w >= 1 /\ 1 \in Nat
      <3>1. options \in OptionSets /\ options.tool \in BeamTools
        BY <1>1, <1>2
      <3>2. w \in Nat \ {0}
        BY <3>1, WidthIs
      <3>. HIDE DEF w
      <3>. QED
        BY <3>2
    <2>2. 2 ^ (2 * (level' - 1)) = 1
      BY <1>1, FourTimes
    <2>. HIDE DEF w
    <2>3. Min({w, 1}) = IF w <= 1 THEN w ELSE 1
      BY <2>1, LessOfTwo
    <2>4. Min({w, 1}) = 1
      BY <2>1, <2>3
    <2>5. w = options'.beam_width
      BY <1>1 DEF w
    <2>. QED
      BY <1>8, <2>2, <2>4, <2>5
  <1>12. ScoredFit(Len(beam'[1].left), scored', evaluated', best_level', best')
    <2>1. ScoredFit(2, {<<1, first>>}, 1, 1, first)
      BY <1>4, <1>6, FirstIsScored
    <2>. QED
      BY <1>1, <1>4, <1>6, <1>7, <1>8, <2>1 DEF b
  <1>13. Len(beam'[1].left) \in Nat /\ level' \in 1..options'.levels
    <2>. HIDE DEF L
    <2>1. 1 \in 1..L
      BY <1>2
    <2>2. 1 \in 1..options.levels
      BY <2>1 DEF L
    <2>. QED
      BY <1>1, <1>4, <1>6, <1>7, <1>8, <2>2
  <1>. QED
    BY <1>1, <1>8, <1>9, <1>10, <1>11, <1>12, <1>13 DEF BeamInv, Reached

LEMMA LevelFits == SearchInv /\ BeamInv /\ Level => BeamInv'
  <1>. SUFFICES ASSUME SearchInv, BeamInv, Level PROVE BeamInv'
    OBVIOUS
  <1>. DEFINE L == options.levels
              step == Path[level]
              C == LevelOf(step, common')
              width == options.beam_width
              start == ForwardOf(hash, seeds[seed].left)
              len == Len(beam[1].left)
              longer == len + Len(step.bridge) + 1
  <1>1. /\ pc = "levels" /\ level < L /\ level' = level + 1 /\ common' = step.common
        /\ beam' = FirstOf(C, CandidateLess, width)
        /\ evaluated' = evaluated + Cardinality(C)
        /\ scored' = scored \cup Placed(level', C)
        /\ <<best_level', best'>> = Better(level', beam'[1], best_level, best)
        /\ hash' = hash /\ request' = request /\ options' = options /\ seeds' = seeds
        /\ seed' = seed /\ stack' = stack /\ pc' = pc
    BY DEF Level, LevelOf, Cut, inputVars, Placed, Better
  <1>2. /\ beam # <<>> /\ options.tool \in BeamTools /\ level \in 1..L /\ common = Reached
        /\ len \in Nat /\ BeamFits(hash, common, len, beam)
        /\ Len(beam) = Min({width, 2 ^ (2 * (level - 1))})
        /\ ScoredFit(len, scored, evaluated, best_level, best)
    BY <1>1 DEF BeamInv
  <1>3. /\ hash \in Hashes /\ options \in OptionSets /\ L \in 2..32 /\ Len(stack) = L
        /\ CallsAreFit(hash, L, start, stack) /\ request \in Requests
        /\ seeds = Catalogue(hash, request) /\ seed \in 0..Len(seeds) /\ Len(seeds) \in Nat
        /\ (stack # <<>> => seed >= 1) /\ stack \in Seq(Frames)
    BY <1>1, LevelsAssumption, CatalogueIsSequence DEF SearchInv, SearchOver, CallsAreFit
  <1>4. start \in States
    <2>1. seed \in 1..Len(seeds)
      <3>. HIDE DEF L
      <3>1. stack # <<>>
        BY <1>3, EmptySeq
      <3>2. seed >= 1 /\ seed \in 0..Len(seeds) /\ Len(seeds) \in Nat
        BY <1>3, <3>1
      <3>. QED
        BY <3>2
    <2>. QED
      BY <1>3, <2>1, SeedsAreAliases
  <1>5. level \in 1..(L - 1) /\ L \in Nat /\ level \in Nat /\ level' \in 1..L
    <2>. HIDE DEF L
    <2>. QED
      BY <1>1, <1>2, <1>3
  <1>6. /\ step = stack[level].steps[stack[level].tried]
        /\ step \in StepRecords /\ LeadsOn(hash, common, step)
        /\ Got(start, stack, level + 1) = step.common
    <2>1. Path[level] = stack[level].steps[stack[level].tried]
      BY <1>5 DEF Path
    <2>. HIDE DEF L, start
    <2>2. /\ stack[level].steps[stack[level].tried] \in StepRecords
          /\ LeadsOn(hash, Got(start, stack, level), stack[level].steps[stack[level].tried])
          /\ Got(start, stack, level + 1) = stack[level].steps[stack[level].tried].common
      <3>1. /\ L \in Nat /\ start \in States /\ CallsAreFit(hash, L, start, stack)
            /\ Len(stack) = L /\ level \in 1..(L - 1)
        BY <1>3, <1>4, <1>5
      <3>. QED
        BY <3>1, PathLeads
    <2>3. common = Got(start, stack, level)
      BY <1>2 DEF Reached, start
    <2>. QED
      BY <2>1, <2>2, <2>3
  <1>. HIDE DEF step, len, start, L, width
  <1>7. /\ C \in SUBSET Candidates
        /\ \A c \in C : Fits(hash, step.common, longer, c)
        /\ \A c, d \in C : MessagesOf(c) = MessagesOf(d) => c = d
        /\ IsFiniteSet(C) /\ Cardinality(C) = 4 * Len(beam) /\ C # {} /\ Len(step.bridge) \in Nat
    <2>1. /\ hash \in Hashes /\ len \in Nat /\ BeamFits(hash, common, len, beam)
          /\ beam # <<>> /\ step \in StepRecords /\ LeadsOn(hash, common, step)
      BY <1>2, <1>3, <1>6
    <2>2. common' = step.common
      BY <1>1
    <2>. QED
      BY <2>1, <2>2, CandidatesOfLevel
  <1>8. width \in Nat \ {0}
    <2>1. options \in OptionSets /\ options.tool \in BeamTools
      BY <1>2, <1>3
    <2>. QED
      BY <2>1, WidthIs DEF width
  <1>9. longer \in Nat /\ len < longer
    BY <1>2, <1>7
  <1>. HIDE DEF C, longer
  <1>15. LevelIsFit(hash, step.common, longer, C)
    BY <1>7 DEF LevelIsFit
  <1>10. /\ BeamFits(hash, step.common, longer, beam')
         /\ beam' # <<>> /\ beam'[1] \in C /\ Len(beam'[1].left) = longer
         /\ Len(beam') = Min({width, Cardinality(C)})
         /\ NoneBetter(C, beam'[1])
    <2>1. CutIsFit(hash, step.common, longer, C, width, FirstOf(C, CandidateLess, width))
      BY <1>8, <1>15, CutFits
    <2>. QED
      BY <1>1, <2>1 DEF CutIsFit
  <1>11. Len(beam') = Min({width, 2 ^ (2 * (level' - 1))})
    <2>. DEFINE P == 2 ^ (2 * (level - 1))
    <2>1. level - 1 \in Nat /\ (level - 1) + 1 = level' - 1
      BY <1>1, <1>5
    <2>2. P \in Nat /\ 2 ^ (2 * (level' - 1)) = 4 * P
      BY <2>1, FourTimes
    <2>. HIDE DEF P
    <2>3. Len(beam) = IF width <= P THEN width ELSE P
      BY <1>2, <1>8, <2>2, LessOfTwo DEF P
    <2>4. Len(beam') = IF width <= 4 * Len(beam) THEN width ELSE 4 * Len(beam)
      <3>1. 4 * Len(beam) \in Int
        BY <1>8, <2>2, <2>3
      <3>. QED
        BY <1>7, <1>8, <1>10, <3>1, LessOfTwo
    <2>5. Min({width, 4 * P}) = IF width <= 4 * P THEN width ELSE 4 * P
      BY <1>8, <2>2, LessOfTwo
    <2>6. Len(beam') = Min({width, 4 * P})
      BY <1>8, <2>2, <2>3, <2>4, <2>5
    <2>. QED
      BY <2>2, <2>6
  <1>12. ScoredFit(longer, scored', evaluated', best_level', best')
    <2>1. level' \in Nat
      BY <1>1, <1>5
    <2>2. ScoredFit(longer, scored \cup Placed(level', C), evaluated + Cardinality(C),
                    best_level', best')
      BY <1>1, <1>2, <1>9, <1>10, <1>15, <2>1, MoreIsScored
    <2>. QED
      BY <1>1, <2>2
  <1>13. common' = Got(ForwardOf(hash', seeds'[seed'].left), stack', level')
    BY <1>1, <1>6 DEF start
  <1>14. /\ options'.tool \in BeamTools /\ level' \in 1..options'.levels
         /\ Len(beam'[1].left) \in Nat
         /\ BeamFits(hash', common', Len(beam'[1].left), beam')
         /\ Len(beam') = Min({options'.beam_width, 2 ^ (2 * (level' - 1))})
         /\ ScoredFit(Len(beam'[1].left), scored', evaluated', best_level', best')
    BY <1>1, <1>2, <1>5, <1>9, <1>10, <1>11, <1>12 DEF L, width
  <1>. QED
    BY <1>1, <1>10, <1>13, <1>14 DEF BeamInv, Reached

LEMMA BeamGoesOn == SearchInv /\ BeamInv /\ [Next]_vars => BeamInv'
  <1>. SUFFICES ASSUME SearchInv, BeamInv, [Next]_vars PROVE BeamInv'
    OBVIOUS
  <1>1. CASE /\ UNCHANGED beamVars
             /\ \/ beam = <<>> /\ pc' # "levels"
                \/ UNCHANGED <<inputVars, seed, stack, level>>
                   /\ (pc' = pc \/ (pc = "levels" /\ pc' = "done"))
    <2>1. CASE beam = <<>> /\ pc' # "levels"
      BY <1>1, <2>1 DEF BeamInv, beamVars
    <2>2. CASE UNCHANGED <<inputVars, seed, stack, level>>
               /\ (pc' = pc \/ (pc = "levels" /\ pc' = "done"))
      BY <1>1, <2>2 DEF BeamInv, beamVars, inputVars, Reached
    <2>. QED
      BY <1>1, <2>1, <2>2
  <1>2. CASE PathNext /\ UNCHANGED beamVars
    <2>1. pc = "search" /\ pc' # "levels" /\ beam = <<>>
      BY <1>2 DEF PathNext, NextSeed, Extend, GiveUp, FindPath, NoPath, BeamInv
    <2>. QED
      BY <1>1, <1>2, <2>1
  <1>3. CASE BeamNext
    <2>1. CASE StartBeam
      BY <2>1, StartBeamFits
    <2>2. CASE DigestLevel \/ FoldbackLevel
      BY <2>2, LevelFits DEF DigestLevel, FoldbackLevel
    <2>3. CASE ReportBeam
      BY <1>1, <2>3 DEF ReportBeam
    <2>. QED
      BY <1>3, <2>1, <2>2, <2>3 DEF BeamNext
  <1>4. CASE FamilyNext /\ UNCHANGED beamVars
    <2>1. beam = <<>> /\ pc' # "levels"
      BY <1>4 DEF FamilyNext, Begin, Materialize, BeginEvaluation, Evaluate, ReportFamily, BeamInv
    <2>. QED
      BY <1>1, <1>4, <2>1
  <1>5. CASE UNCHANGED vars
    BY <1>1, <1>5 DEF vars, pathVars
  <1>. QED
    BY <1>2, <1>3, <1>4, <1>5 DEF Next, Ended

LEMMA BeamHolds == Spec => [](SearchInv /\ BeamInv)
  <1>. QED
    BY SearchBegins, SearchGoesOn, BeamBegins, BeamGoesOn, PTL DEF Spec

(* Along the whole path the messages of every pair in the beam keep the    *)
(* forward state that score_candidate resumes from, and differ.            *)
THEOREM BeamSharesItsState == Spec => []SharedForward
  <1>1. BeamInv => SharedForward
    <2>. SUFFICES ASSUME BeamInv, NEW n \in DOMAIN beam
                  PROVE  /\ beam[n].left # beam[n].right
                         /\ Forward(beam[n].left) = common /\ Forward(beam[n].right) = common
      BY DEF SharedForward
    <2>1. beam # <<>>
      OBVIOUS
    <2>2. BeamFits(hash, common, Len(beam[1].left), beam)
      BY <2>1 DEF BeamInv
    <2>3. n \in 1..Len(beam)
      BY <2>2, LenProperties DEF BeamFits
    <2>. QED
      BY <2>2, <2>3, ForwardIs DEF BeamFits, Fits
  <1>. QED
    BY <1>1, BeamHolds, PTL

(* The beam fills up by four choices a level and loses nothing before it   *)
(* is full; what is counted as evaluated are different pairs.              *)
THEOREM BeamFillsUp == Spec => []BeamFull
  <1>1. BeamInv => BeamFull
    BY DEF BeamInv, BeamFull, ScoredFit, PairsOf
  <1>. QED
    BY <1>1, BeamHolds, PTL

(* No pair ever scored, cut ones included, is better than the one          *)
(* reported.                                                               *)
THEOREM BestIsReported == Spec => []BestOfAll
  <1>1. BeamInv => BestOfAll
    BY DEF BeamInv, BestOfAll, ScoredFit
  <1>. QED
    BY <1>1, BeamHolds, PTL


-----------------------------------------------------------------------------
(* The family: each level doubles it.                                      *)

(* So many different messages of one length that lead to one state.        *)
FamilyIsFit(h, state, len, list, size) ==
  /\ list \in Seq(Messages) /\ Len(list) = size
  /\ \A n \in 1..size : Len(list[n]) = len /\ ForwardOf(h, list[n]) = state
  /\ \A m, n \in 1..size : list[m] = list[n] => m = n

Doubled(list, step) ==
  [n \in DOMAIN list |-> << Longer(step.bridge, list[n], step.left),
                            Longer(step.bridge, list[n], step.right) >>]

LEMMA FamilyDoubles ==
  ASSUME NEW h \in Hashes, NEW state, NEW len \in Nat, NEW list, NEW size \in Nat,
         FamilyIsFit(h, state, len, list, size), NEW step \in StepRecords, LeadsOn(h, state, step)
  PROVE  /\ FamilyIsFit(h, step.common, len + Len(step.bridge) + 1,
                        FlattenSeq(Doubled(list, step)), 2 * size)
         /\ Len(step.bridge) \in Nat
  <1>. DEFINE ss == Doubled(list, step)
              F == FlattenSeq(ss)
              new == len + Len(step.bridge) + 1
  <1>1. /\ list \in Seq(Messages) /\ Len(list) = size /\ DOMAIN list = 1..size
        /\ \A n \in 1..size : Len(list[n]) = len /\ ForwardOf(h, list[n]) = state
        /\ \A m, n \in 1..size : list[m] = list[n] => m = n
    BY LenProperties DEF FamilyIsFit
  <1>2. ASSUME NEW n \in 1..size, NEW x \in {step.left, step.right}
        PROVE  /\ Longer(step.bridge, list[n], x) \in Messages
               /\ ForwardOf(h, Longer(step.bridge, list[n], x)) = step.common
               /\ Len(Longer(step.bridge, list[n], x)) = new
               /\ list[n] \in Seq(Nat) /\ step.bridge \in Seq(Nat) /\ x \in Nat
               /\ Len(step.bridge) \in Nat /\ step.left < step.right
    <2>1. list[n] \in Messages /\ Len(list[n]) = len /\ ForwardOf(h, list[n]) = state
      BY <1>1, ElementOfSeq
    <2>. QED
      BY <2>1, LongerLeads
  <1>3. Sequences(ss, size, Messages) /\ AllPairs(ss, size)
    <2>1. ASSUME NEW n \in 1..size PROVE ss[n] \in Seq(Messages) /\ Len(ss[n]) = 2
      <3>1. ss[n] = << Longer(step.bridge, list[n], step.left),
                       Longer(step.bridge, list[n], step.right) >>
        BY <1>1 DEF Doubled
      <3>2. /\ Longer(step.bridge, list[n], step.left) \in Messages
            /\ Longer(step.bridge, list[n], step.right) \in Messages
        BY <1>2
      <3>. QED
        BY <3>1, <3>2
    <2>2. ss = [n \in 1..size |-> ss[n]]
      BY <1>1 DEF Doubled
    <2>. HIDE DEF ss
    <2>3. ss \in [1..size -> Seq(Messages)]
      BY <2>1, <2>2
    <2>. QED
      BY <2>1, <2>3 DEF Sequences, AllPairs
  <1>4. F \in Seq(Messages) /\ Len(F) = 2 * size /\ PairsInOrder(F, ss, size)
    <2>. HIDE DEF ss
    <2>. QED
      BY <1>3, FlattenPairs
  <1>. HIDE DEF F, new
  <1>5. ASSUME NEW n \in 1..size
        PROVE  /\ F[2 * n - 1] = Longer(step.bridge, list[n], step.left)
               /\ F[2 * n] = Longer(step.bridge, list[n], step.right)
    BY <1>1, <1>4 DEF PairsInOrder, Doubled
  <1>6. \A i \in 1..(2 * size) : \E n \in 1..size : i = 2 * n - 1 \/ i = 2 * n
    <2>. SUFFICES ASSUME NEW i \in 1..(2 * size)
                  PROVE  \E n \in 1..size : i = 2 * n - 1 \/ i = 2 * n
      OBVIOUS
    <2>1. (i + 1) \div 2 \in 1..size
      OBVIOUS
    <2>2. i = 2 * ((i + 1) \div 2) - 1 \/ i = 2 * ((i + 1) \div 2)
      OBVIOUS
    <2>. QED
      BY <2>1, <2>2
  <1>7. ASSUME NEW i \in 1..(2 * size)
        PROVE  \E n \in 1..size : \E x \in {step.left, step.right} :
                 /\ F[i] = Longer(step.bridge, list[n], x)
                 /\ i = IF x = step.left THEN 2 * n - 1 ELSE 2 * n
    <2>1. PICK n \in 1..size : i = 2 * n - 1 \/ i = 2 * n
      BY <1>6
    <2>2. step.left # step.right
      <3>1. step.left \in Nat /\ step.right \in Nat /\ step.left < step.right
        BY <1>2
      <3>. QED
        BY <3>1
    <2>3. CASE i = 2 * n - 1
      BY <1>5, <2>3
    <2>4. CASE i = 2 * n
      BY <1>5, <2>2, <2>4
    <2>. QED
      BY <2>1, <2>3, <2>4
  <1>8. \A i \in 1..(2 * size) : Len(F[i]) = new /\ ForwardOf(h, F[i]) = step.common
    BY <1>2, <1>7
  <1>9. ASSUME NEW i \in 1..(2 * size), NEW j \in 1..(2 * size), F[i] = F[j] PROVE i = j
    <2>1. PICK m \in 1..size : \E x \in {step.left, step.right} :
            /\ F[i] = Longer(step.bridge, list[m], x)
            /\ i = IF x = step.left THEN 2 * m - 1 ELSE 2 * m
      BY <1>7
    <2>2. PICK x \in {step.left, step.right} :
            /\ F[i] = Longer(step.bridge, list[m], x)
            /\ i = IF x = step.left THEN 2 * m - 1 ELSE 2 * m
      BY <2>1
    <2>3. PICK n \in 1..size : \E y \in {step.left, step.right} :
            /\ F[j] = Longer(step.bridge, list[n], y)
            /\ j = IF y = step.left THEN 2 * n - 1 ELSE 2 * n
      BY <1>7
    <2>4. PICK y \in {step.left, step.right} :
            /\ F[j] = Longer(step.bridge, list[n], y)
            /\ j = IF y = step.left THEN 2 * n - 1 ELSE 2 * n
      BY <2>3
    <2>5. /\ SameLength(list[m], list[n]) /\ step.bridge \in Seq(Nat) /\ x \in Nat /\ y \in Nat
          /\ Longer(step.bridge, list[m], x) = Longer(step.bridge, list[n], y)
      BY <1>1, <1>2, <1>9, <2>2, <2>4 DEF SameLength
    <2>6. list[m] = list[n] /\ x = y
      BY <2>5, LongerDiffers
    <2>7. m = n
      BY <1>1, <2>6
    <2>. QED
      BY <2>2, <2>4, <2>6, <2>7
  <1>10. Len(step.bridge) \in Nat
    BY BridgesAreSequences DEF StepRecords
  <1>11. FamilyIsFit(h, step.common, new, F, 2 * size)
    BY <1>4, <1>8, <1>9 DEF FamilyIsFit
  <1>. QED
    BY <1>10, <1>11 DEF F, new


FoldbackStates == {FoldbackState(m) : m \in Messages}

(* What has been counted of the messages evaluated so far.                 *)
CountedFit(list, states, table, counted) ==
  /\ states \in Seq(FoldbackStates) /\ Len(states) <= Len(list)
  /\ \A n \in 1..Len(states) : states[n] = FoldbackState(list[n])
  /\ table = {DigestOf(s) : s \in ToSet(states)}
  /\ IsFiniteSet(ToSet(states)) /\ IsFiniteSet(table)
  /\ counted \in [forward_mismatches : {0}, foldback_collisions : Nat, digest_collisions : Nat]
  /\ Cardinality(ToSet(states)) = Len(states) - counted.foldback_collisions
  /\ Cardinality(table) = Len(states) - counted.digest_collisions

LEMMA NoneCounted ==
  ASSUME NEW list \in Seq(Messages)
  PROVE  CountedFit(list, <<>>, {}, ZeroResult)
  <1>1. ToSet(<<>>) = {}
    BY DEF ToSet
  <1>2. IsFiniteSet({}) /\ Cardinality({}) = 0
    BY FS_EmptySet
  <1>3. Len(list) \in Nat
    BY LenProperties
  <1>4. /\ ZeroResult.foldback_collisions = 0 /\ ZeroResult.digest_collisions = 0
        /\ ZeroResult \in [forward_mismatches : {0}, foldback_collisions : Nat,
                           digest_collisions : Nat]
    BY DEF ZeroResult
  <1>. DEFINE none == <<>>
  <1>5. none \in Seq(FoldbackStates) /\ Len(none) = 0
    OBVIOUS
  <1>6. \A n \in 1..0 : none[n] = FoldbackState(list[n])
    OBVIOUS
  <1>7. ToSet(none) = {} /\ {} = {DigestOf(s) : s \in {}}
    BY <1>1
  <1>. HIDE DEF none
  <1>8. CountedFit(list, none, {}, ZeroResult)
    BY <1>2, <1>3, <1>4, <1>5, <1>6, <1>7 DEF CountedFit
  <1>. QED
    BY <1>8 DEF none

(* Numbers of what is new and what is not.                                 *)
Repeated(x, S) == Count(x \in S)

(* n times something has been put into S, repeated times it was there.     *)
Holding(S, n, repeated) ==
  /\ IsFiniteSet(S) /\ n \in Nat /\ repeated \in Nat
  /\ Cardinality(S) = n - repeated

LEMMA OneMore ==
  ASSUME NEW S, NEW x, NEW n, NEW repeated, Holding(S, n, repeated)
  PROVE  Holding(S \cup {x}, n + 1, repeated + Repeated(x, S))
  <1>0. IsFiniteSet(S) /\ n \in Nat /\ repeated \in Nat /\ Cardinality(S) = n - repeated
    BY DEF Holding
  <1>1. /\ IsFiniteSet(S \cup {x})
        /\ Cardinality(S \cup {x}) = IF x \in S THEN Cardinality(S) ELSE Cardinality(S) + 1
    BY <1>0, FS_AddElement
  <1>2. CASE x \in S
    <2>1. Repeated(x, S) = 1
      BY <1>2 DEF Count, Repeated
    <2>. QED
      BY <1>0, <1>1, <1>2, <2>1 DEF Holding
  <1>3. CASE x \notin S
    <2>1. Repeated(x, S) = 0
      BY <1>3 DEF Count, Repeated
    <2>. QED
      BY <1>0, <1>1, <1>3, <2>1 DEF Holding
  <1>. QED
    BY <1>2, <1>3

LEMMA OneCounted ==
  ASSUME NEW list \in Seq(Messages), NEW states, NEW table, NEW counted,
         CountedFit(list, states, table, counted), Len(states) < Len(list),
         NEW state, state = FoldbackState(list[Len(states) + 1]),
         NEW next,
         next = [forward_mismatches  |-> counted.forward_mismatches,
                 foldback_collisions |-> counted.foldback_collisions + Count(state \in ToSet(states)),
                 digest_collisions   |-> counted.digest_collisions + Count(DigestOf(state) \in table)]
  PROVE  CountedFit(list, Append(states, state), table \cup {DigestOf(state)}, next)
  <1>. DEFINE size == Len(states)
              more == Append(states, state)
  <1>1. /\ states \in Seq(FoldbackStates) /\ size \in Nat /\ Len(list) \in Nat
        /\ \A n \in 1..size : states[n] = FoldbackState(list[n])
        /\ table = {DigestOf(s) : s \in ToSet(states)}
        /\ IsFiniteSet(ToSet(states)) /\ IsFiniteSet(table)
        /\ counted \in [forward_mismatches : {0}, foldback_collisions : Nat,
                        digest_collisions : Nat]
        /\ Cardinality(ToSet(states)) = size - counted.foldback_collisions
        /\ Cardinality(table) = size - counted.digest_collisions
    BY LenProperties DEF CountedFit
  <1>2. size + 1 \in 1..Len(list)
    <2>1. size < Len(list)
      OBVIOUS
    <2>. HIDE DEF size
    <2>. QED
      BY <1>1, <2>1
  <1>3. state \in FoldbackStates
    <2>1. list[size + 1] \in Messages
      BY <1>2, ElementOfSeq
    <2>. QED
      BY <2>1 DEF FoldbackStates
  <1>4. /\ more \in Seq(FoldbackStates) /\ Len(more) = size + 1
        /\ \A i \in 1..size : more[i] = states[i]
        /\ more[size + 1] = state
    BY <1>1, <1>3, AppendProperties
  <1>5. DOMAIN states = 1..size /\ DOMAIN more = 1..(size + 1)
    BY <1>1, <1>4, LenProperties
  <1>6. state = FoldbackState(list[size + 1])
    OBVIOUS
  <1>. HIDE DEF more, size
  <1>7. ToSet(more) = ToSet(states) \cup {state}
    <2>1. \A i \in 1..(size + 1) : i \in 1..size \/ i = size + 1
      BY <1>1
    <2>2. \A i \in 1..size : i \in 1..(size + 1)
      BY <1>1
    <2>3. size + 1 \in 1..(size + 1)
      BY <1>1
    <2>. QED
      BY <1>4, <1>5, <2>1, <2>2, <2>3 DEF ToSet
  <1>8. \A n \in 1..(size + 1) : more[n] = FoldbackState(list[n])
    <2>1. \A i \in 1..(size + 1) : i \in 1..size \/ i = size + 1
      BY <1>1
    <2>. QED
      BY <1>1, <1>4, <1>6, <2>1
  <1>9. table \cup {DigestOf(state)} = {DigestOf(s) : s \in ToSet(more)}
    BY <1>1, <1>7
  <1>. DEFINE a == counted.foldback_collisions
              b == counted.digest_collisions
  <1>10. a \in Nat /\ b \in Nat /\ counted.forward_mismatches = 0
    BY <1>1
  <1>11. Holding(ToSet(states), size, a) /\ Holding(table, size, b)
    BY <1>1, <1>10 DEF Holding
  <1>12. /\ next.forward_mismatches = 0
         /\ next.foldback_collisions = a + Repeated(state, ToSet(states))
         /\ next.digest_collisions = b + Repeated(DigestOf(state), table)
         /\ next \in [forward_mismatches : {0},
                      foldback_collisions : {a + Repeated(state, ToSet(states))},
                      digest_collisions : {b + Repeated(DigestOf(state), table)}]
    BY <1>10 DEF Repeated
  <1>. HIDE DEF a, b
  <1>13. Holding(ToSet(states) \cup {state}, size + 1, a + Repeated(state, ToSet(states)))
    BY <1>11, OneMore
  <1>14. Holding(table \cup {DigestOf(state)}, size + 1, b + Repeated(DigestOf(state), table))
    BY <1>11, OneMore
  <1>15. next \in [forward_mismatches : {0}, foldback_collisions : Nat, digest_collisions : Nat]
    BY <1>12, <1>13, <1>14 DEF Holding
  <1>16. size + 1 <= Len(list)
    BY <1>1, <1>2
  <1>17. CountedFit(list, more, table \cup {DigestOf(state)}, next)
    BY <1>4, <1>7, <1>8, <1>9, <1>12, <1>13, <1>14, <1>15, <1>16
       DEF CountedFit, Holding
  <1>. QED
    BY <1>17 DEF more


LEMMA LevelsAre ==
  ASSUME options \in OptionSets, options.tool = "family"
  PROVE  Levels \in Nat /\ Levels <= options.levels /\ options.levels \in Nat
  <1>. DEFINE a == options.materialize_levels
              b == options.levels
  <1>1. a \in 0..20 /\ b \in 2..32
    BY MaterializeAssumption, LevelsAssumption
  <1>2. Levels = Min({a, b})
    BY DEF Levels
  <1>. HIDE DEF a, b
  <1>3. a \in Nat /\ b \in Nat
    BY <1>1
  <1>4. Min({a, b}) = IF a <= b THEN a ELSE b
    BY <1>3, LessOfTwo
  <1>5. Levels \in Nat /\ Levels <= b
    BY <1>2, <1>3, <1>4
  <1>. QED
    BY <1>3, <1>5 DEF b

(* common_state is the state the path has come to.                         *)
LEMMA CommonIsReached ==
  ASSUME NEW L \in Nat, L = options.levels, level \in 1..L
  PROVE  CommonState = Reached
  <1>1. CASE level = 1
    <2>1. SeedState(seed) = ForwardOf(hash, seeds[seed].left)
      BY ForwardIs DEF SeedState
    <2>. QED
      BY <1>1, <2>1 DEF CommonState, Reached, Got
  <1>2. CASE level # 1
    <2>1. level - 1 \in 1..(L - 1)
      BY <1>2
    <2>2. Path[level - 1] = stack[level - 1].steps[stack[level - 1].tried]
      BY <2>1 DEF Path
    <2>. QED
      BY <1>2, <2>2 DEF CommonState, Reached, Got, At
  <1>. QED
    BY <1>1, <1>2

FamilyInv ==
  /\ pc \notin {"materialize", "evaluate", "done"} => messages = <<>>
  /\ (messages = <<>> \/ pc = "materialize") =>
       foldback_states = <<>> /\ digest_table = {} /\ result = ZeroResult
  /\ pc \in {"materialize", "evaluate"} => messages # <<>>
  /\ messages # <<>> =>
       /\ options.tool = "family" /\ level \in 1..Levels
       /\ Len(messages[1]) \in Nat
       /\ FamilyIsFit(hash, Reached, Len(messages[1]), messages, 2 ^ level)
       /\ CountedFit(messages, foldback_states, digest_table, result)
       /\ pc = "done" => Len(foldback_states) = Len(messages)

LEMMA FamilyBegins == Init => FamilyInv
  BY DEF Init, PathInit, FamilyInit, FamilyInv

LEMMA BeginFits == SearchInv /\ FamilyInv /\ Begin => FamilyInv'
  <1>. SUFFICES ASSUME SearchInv, FamilyInv, Begin PROVE FamilyInv'
    OBVIOUS
  <1>. DEFINE L == options.levels
  <1>1. /\ pc = "found" /\ options.tool = "family" /\ messages = <<>>
        /\ foldback_states = <<>> /\ digest_table = {} /\ result = ZeroResult
        /\ foldback_states' = foldback_states /\ digest_table' = digest_table /\ result' = result
        /\ hash' = hash /\ request' = request /\ options' = options /\ seeds' = seeds
        /\ seed' = seed /\ stack' = stack
    BY DEF Begin, inputVars, FamilyInv
  <1>2. CASE Levels = 0
    BY <1>1, <1>2 DEF Begin, FamilyInv
  <1>3. CASE Levels # 0
    <2>1. /\ pc' = "materialize" /\ level' = 1
          /\ messages' = <<seeds[seed].left, seeds[seed].right>>
      BY <1>3 DEF Begin
    <2>2. /\ hash \in Hashes /\ request \in Requests /\ seeds = Catalogue(hash, request)
          /\ options \in OptionSets /\ seed \in 0..Len(seeds) /\ Len(seeds) \in Nat
          /\ L \in 2..32 /\ Len(stack) = L /\ (stack # <<>> => seed >= 1)
          /\ stack \in Seq(Frames)
      BY <1>1, LevelsAssumption, CatalogueIsSequence
         DEF SearchInv, SearchOver, CallsAreFit
    <2>3. seed \in 1..Len(seeds)
      <3>. HIDE DEF L
      <3>1. stack # <<>>
        BY <2>2, EmptySeq
      <3>2. seed >= 1 /\ seed \in 0..Len(seeds) /\ Len(seeds) \in Nat
        BY <2>2, <3>1
      <3>. QED
        BY <3>2
    <2>. DEFINE l == seeds[seed].left
                r == seeds[seed].right
                list == <<l, r>>
                start == ForwardOf(hash, l)
    <2>4. /\ l \in Messages /\ r \in Messages /\ Len(l) = 2 /\ Len(r) = 2 /\ l # r
          /\ ForwardOf(hash, r) = start
      BY <2>2, <2>3, SeedsAreAliases
    <2>5. messages' = list
      BY <2>1
    <2>6. Got(ForwardOf(hash', seeds'[seed'].left), stack', level') = start
      BY <1>1, <2>1 DEF Got
    <2>. HIDE DEF l, r, start
    <2>7. list \in Seq(Messages) /\ Len(list) = 2 /\ list[1] = l /\ list[2] = r /\ list # <<>>
      BY <2>4
    <2>. HIDE DEF list
    <2>8. 2 ^ level' = 2
      <3>1. 2 ^ 0 = 1 /\ 0 \in Nat /\ 0 + 1 = 1
        OBVIOUS
      <3>2. 2 ^ (0 + 1) = 2 * 2 ^ 0
        BY <3>1, PowerDoubles, Zenon
      <3>. QED
        BY <2>1, <3>1, <3>2
    <2>9. FamilyIsFit(hash, start, 2, list, 2)
      <3>1. start = ForwardOf(hash, l)
        BY DEF start
      <3>2. \A n \in 1..2 : n = 1 \/ n = 2
        OBVIOUS
      <3>. QED
        BY <2>4, <2>7, <3>1, <3>2 DEF FamilyIsFit
    <2>10. CountedFit(list, <<>>, {}, ZeroResult)
      BY <2>7, NoneCounted
    <2>11. level' \in 1..Levels'
      <3>1. Levels \in Nat /\ Levels' = Levels
        BY <1>1, <2>2, LevelsAre DEF Levels
      <3>. QED
        BY <1>3, <2>1, <3>1
    <2>12. /\ messages' # <<>> /\ Len(messages'[1]) = 2
           /\ FamilyIsFit(hash', Reached', 2, messages', 2 ^ level')
           /\ CountedFit(messages', foldback_states', digest_table', result')
      BY <1>1, <2>4, <2>5, <2>6, <2>7, <2>8, <2>9, <2>10 DEF Reached
    <2>13. /\ options'.tool = "family" /\ Len(messages'[1]) \in Nat
           /\ FamilyIsFit(hash', Reached', Len(messages'[1]), messages', 2 ^ level')
           /\ foldback_states' = <<>> /\ digest_table' = {} /\ result' = ZeroResult
      BY <1>1, <2>12
    <2>. QED
      BY <2>1, <2>11, <2>12, <2>13 DEF FamilyInv
  <1>. QED
    BY <1>2, <1>3

LEMMA MaterializeFits == SearchInv /\ FamilyInv /\ Materialize => FamilyInv'
  <1>. SUFFICES ASSUME SearchInv, FamilyInv, Materialize PROVE FamilyInv'
    OBVIOUS
  <1>. DEFINE L == options.levels
              step == Path[level]
              start == ForwardOf(hash, seeds[seed].left)
              len == Len(messages[1])
              longer == len + Len(step.bridge) + 1
              size == 2 ^ level
              list == FlattenSeq(Doubled(messages, step))
  <1>1. /\ pc = "materialize" /\ level < Levels /\ level' = level + 1
        /\ messages' = list
        /\ hash' = hash /\ request' = request /\ options' = options /\ seeds' = seeds
        /\ seed' = seed /\ stack' = stack /\ pc' = pc
        /\ foldback_states' = foldback_states /\ digest_table' = digest_table /\ result' = result
    BY DEF Materialize, Doubled, Longer, inputVars
  <1>2. /\ messages # <<>> /\ options.tool = "family" /\ level \in 1..Levels /\ len \in Nat
        /\ foldback_states = <<>> /\ digest_table = {} /\ result = ZeroResult
        /\ FamilyIsFit(hash, Reached, len, messages, size)
    BY <1>1 DEF FamilyInv
  <1>3. /\ hash \in Hashes /\ options \in OptionSets /\ L \in 2..32 /\ Len(stack) = L
        /\ CallsAreFit(hash, L, start, stack) /\ request \in Requests
        /\ seeds = Catalogue(hash, request) /\ seed \in 0..Len(seeds) /\ Len(seeds) \in Nat
        /\ (stack # <<>> => seed >= 1) /\ stack \in Seq(Frames)
    BY <1>1, LevelsAssumption, CatalogueIsSequence DEF SearchInv, SearchOver, CallsAreFit
  <1>4. Levels \in Nat /\ Levels <= L /\ L \in Nat
    BY <1>2, <1>3, LevelsAre
  <1>5. start \in States
    <2>1. seed \in 1..Len(seeds)
      <3>. HIDE DEF L
      <3>1. stack # <<>>
        BY <1>3, EmptySeq
      <3>2. seed >= 1 /\ seed \in 0..Len(seeds) /\ Len(seeds) \in Nat
        BY <1>3, <3>1
      <3>. QED
        BY <3>2
    <2>. QED
      BY <1>3, <2>1, SeedsAreAliases
  <1>6. level \in 1..(L - 1) /\ level \in Nat /\ level' \in 1..Levels
    <2>. HIDE DEF L
    <2>. QED
      BY <1>1, <1>2, <1>4
  <1>7. /\ step \in StepRecords /\ LeadsOn(hash, Reached, step)
        /\ Got(start, stack, level + 1) = step.common
    <2>1. Path[level] = stack[level].steps[stack[level].tried]
      BY <1>6 DEF Path
    <2>. HIDE DEF L, start
    <2>2. /\ stack[level].steps[stack[level].tried] \in StepRecords
          /\ LeadsOn(hash, Got(start, stack, level), stack[level].steps[stack[level].tried])
          /\ Got(start, stack, level + 1) = stack[level].steps[stack[level].tried].common
      <3>1. /\ L \in Nat /\ start \in States /\ CallsAreFit(hash, L, start, stack)
            /\ Len(stack) = L /\ level \in 1..(L - 1)
        BY <1>3, <1>4, <1>5, <1>6
      <3>. QED
        BY <3>1, PathLeads
    <2>3. Reached = Got(start, stack, level)
      BY DEF Reached, start
    <2>. QED
      BY <2>1, <2>2, <2>3
  <1>8. size \in Nat /\ 2 ^ level' = 2 * size
    BY <1>1, <1>6, PowerDoubles
  <1>. HIDE DEF step, len, start, L, size
  <1>9. FamilyIsFit(hash, step.common, longer, list, 2 * size) /\ Len(step.bridge) \in Nat
    BY <1>2, <1>3, <1>7, <1>8, FamilyDoubles
  <1>. HIDE DEF list
  <1>10. messages \in Seq(Messages) /\ Len(messages) = size /\ size >= 1
    <2>1. messages \in Seq(Messages) /\ Len(messages) = size
      BY <1>2 DEF FamilyIsFit
    <2>. QED
      BY <1>2, <1>8, <2>1, EmptySeq
  <1>11. longer \in Nat
    BY <1>2, <1>9
  <1>. HIDE DEF longer
  <1>12. list \in Seq(Messages) /\ list # <<>> /\ Len(list[1]) = longer
    <2>1. list \in Seq(Messages) /\ Len(list) = 2 * size
          /\ \A n \in 1..(2 * size) : Len(list[n]) = longer
      BY <1>9 DEF FamilyIsFit
    <2>2. 1 \in 1..(2 * size) /\ 2 * size # 0
      BY <1>8, <1>10
    <2>. QED
      BY <2>1, <2>2, EmptySeq
  <1>13. CountedFit(list, <<>>, {}, ZeroResult)
    BY <1>12, NoneCounted
  <1>14. Got(ForwardOf(hash', seeds'[seed'].left), stack', level') = step.common
    BY <1>1, <1>7 DEF start
  <1>15. Levels' = Levels
    BY <1>1 DEF Levels
  <1>. QED
    BY <1>1, <1>2, <1>6, <1>8, <1>9, <1>11, <1>12, <1>13, <1>14, <1>15 DEF FamilyInv, Reached

LEMMA EvaluateFits == SearchInv /\ FamilyInv /\ Evaluate => FamilyInv'
  <1>. SUFFICES ASSUME SearchInv, FamilyInv, Evaluate PROVE FamilyInv'
    OBVIOUS
  <1>. DEFINE m == messages[Len(foldback_states) + 1]
              state == FoldbackState(m)
  <1>1. /\ pc = "evaluate" /\ Len(foldback_states) < Len(messages)
        /\ result' = [forward_mismatches  |-> result.forward_mismatches
                                                + Count(Forward(m) # CommonState),
                      foldback_collisions |-> result.foldback_collisions
                        + Count(\E prior \in ToSet(foldback_states) :
                                  Fingerprint(prior) = Fingerprint(state) /\ prior = state),
                      digest_collisions   |-> result.digest_collisions
                                                + Count(DigestOf(state) \in digest_table)]
        /\ foldback_states' = Append(foldback_states, state)
        /\ digest_table' = digest_table \cup {DigestOf(state)}
        /\ hash' = hash /\ request' = request /\ options' = options /\ seeds' = seeds
        /\ seed' = seed /\ stack' = stack /\ pc' = pc /\ level' = level /\ messages' = messages
    BY DEF Evaluate, inputVars
  <1>2. /\ messages # <<>> /\ options.tool = "family" /\ level \in 1..Levels
        /\ Len(messages[1]) \in Nat
        /\ FamilyIsFit(hash, Reached, Len(messages[1]), messages, 2 ^ level)
        /\ CountedFit(messages, foldback_states, digest_table, result)
    BY <1>1 DEF FamilyInv
  <1>3. /\ messages \in Seq(Messages) /\ Len(messages) = 2 ^ level
        /\ \A n \in 1..Len(messages) : ForwardOf(hash, messages[n]) = Reached
    BY <1>2 DEF FamilyIsFit
  <1>4. Len(foldback_states) \in Nat /\ Len(messages) \in Nat
    BY <1>2, <1>3, LenProperties DEF CountedFit
  <1>5. Len(foldback_states) + 1 \in 1..Len(messages)
    BY <1>1, <1>4
  <1>6. Forward(m) = CommonState
    <2>1. options \in OptionSets
      BY DEF SearchInv
    <2>. DEFINE L == options.levels
    <2>2. Levels \in Nat /\ Levels <= L /\ L \in Nat
      BY <1>2, <2>1, LevelsAre
    <2>3. L = options.levels
      OBVIOUS
    <2>. HIDE DEF L
    <2>4. level \in 1..L
      BY <1>2, <2>2
    <2>5. CommonState = Reached
      BY <2>2, <2>3, <2>4, CommonIsReached
    <2>. QED
      BY <1>3, <1>5, <2>5, ForwardIs
  <1>. DEFINE known == \E prior \in ToSet(foldback_states) :
                         Fingerprint(prior) = Fingerprint(state) /\ prior = state
  <1>7. known <=> state \in ToSet(foldback_states)
    <2>. DEFINE S == ToSet(foldback_states)
    <2>. HIDE DEF state, S
    <2>. QED
      BY Zenon
  <1>8. Count(Forward(m) # CommonState) = 0
    BY <1>6 DEF Count
  <1>9. Count(known) = Count(state \in ToSet(foldback_states))
    BY <1>7 DEF Count
  <1>10. result.forward_mismatches = 0
    BY <1>2 DEF CountedFit
  <1>11. result' = [forward_mismatches  |-> result.forward_mismatches,
                    foldback_collisions |-> result.foldback_collisions
                                              + Count(state \in ToSet(foldback_states)),
                    digest_collisions   |-> result.digest_collisions
                                              + Count(DigestOf(state) \in digest_table)]
    <2>1. result.forward_mismatches + Count(Forward(m) # CommonState) = result.forward_mismatches
      BY <1>8, <1>10
    <2>2. result' = [forward_mismatches  |-> result.forward_mismatches
                                               + Count(Forward(m) # CommonState),
                     foldback_collisions |-> result.foldback_collisions + Count(known),
                     digest_collisions   |-> result.digest_collisions
                                               + Count(DigestOf(state) \in digest_table)]
      BY <1>1, Zenon
    <2>. HIDE DEF known, state, m
    <2>. QED
      BY <1>9, <2>1, <2>2, Zenon
  <1>12. state = FoldbackState(messages[Len(foldback_states) + 1])
    OBVIOUS
  <1>. HIDE DEF state, m, known
  <1>13. CountedFit(messages, Append(foldback_states, state),
                    digest_table \cup {DigestOf(state)}, result')
    BY <1>1, <1>2, <1>3, <1>11, <1>12, OneCounted
  <1>14. CountedFit(messages', foldback_states', digest_table', result')
    BY <1>1, <1>13
  <1>15. Levels' = Levels /\ Reached' = Reached
    BY <1>1 DEF Levels, Reached
  <1>. QED
    BY <1>1, <1>2, <1>14, <1>15 DEF FamilyInv

LEMMA FamilyGoesOn == SearchInv /\ BeamInv /\ FamilyInv /\ [Next]_vars => FamilyInv'
  <1>. SUFFICES ASSUME SearchInv, BeamInv, FamilyInv, [Next]_vars PROVE FamilyInv'
    OBVIOUS
  <1>1. CASE /\ UNCHANGED familyVars /\ messages = <<>>
             /\ pc' \notin {"materialize", "evaluate"}
    BY <1>1 DEF FamilyInv, familyVars
  <1>2. CASE PathNext /\ UNCHANGED familyVars
    <2>1. messages = <<>> /\ pc' \notin {"materialize", "evaluate"}
      BY <1>2 DEF PathNext, NextSeed, Extend, GiveUp, FindPath, NoPath, FamilyInv
    <2>. QED
      BY <1>1, <1>2, <2>1
  <1>3. CASE BeamNext /\ UNCHANGED familyVars
    <2>1. messages = <<>> /\ pc' \notin {"materialize", "evaluate"}
      BY <1>3 DEF BeamNext, StartBeam, DigestLevel, FoldbackLevel, Level, ReportBeam, FamilyInv
    <2>. QED
      BY <1>1, <1>3, <2>1
  <1>4. CASE Begin
    BY <1>4, BeginFits
  <1>5. CASE Materialize
    BY <1>5, MaterializeFits
  <1>6. CASE BeginEvaluation
    BY <1>6 DEF BeginEvaluation, FamilyInv, familyVars, inputVars, Reached, Levels
  <1>7. CASE Evaluate
    BY <1>7, EvaluateFits
  <1>8. CASE ReportFamily
    BY <1>8 DEF ReportFamily, FamilyInv, familyVars, inputVars, Reached, Levels
  <1>9. CASE UNCHANGED vars
    BY <1>9 DEF vars, pathVars, inputVars, familyVars, FamilyInv, Reached, Levels
  <1>. QED
    BY <1>2, <1>3, <1>4, <1>5, <1>6, <1>7, <1>8, <1>9 DEF Next, FamilyNext, Ended


LEMMA FamilyHolds == Spec => [](SearchInv /\ FamilyInv)
  <1>. QED
    BY SearchBegins, SearchGoesOn, BeamBegins, BeamGoesOn, FamilyBegins, FamilyGoesOn, PTL DEF Spec

(* The messages of the family are 2^level different ones that all have the *)
(* forward state the path leads to, whatever the hash, the bridges and the *)
(* levels are: materialize_messages repeats none, and evaluate_messages    *)
(* never counts a forward mismatch.                                        *)
THEOREM FamilySharesItsState == Spec => []FamilyShared
  <1>1. SearchInv /\ FamilyInv => FamilyShared
    <2>. SUFFICES ASSUME SearchInv, FamilyInv, messages # <<>>
                  PROVE  /\ Cardinality(ToSet(messages)) = 2 ^ level /\ Len(messages) = 2 ^ level
                         /\ \A message \in ToSet(messages) : Forward(message) = CommonState
                         /\ result.forward_mismatches = 0
      BY DEF FamilyShared
    <2>. DEFINE size == 2 ^ level
    <2>1. /\ options.tool = "family" /\ level \in 1..Levels
          /\ FamilyIsFit(hash, Reached, Len(messages[1]), messages, size)
          /\ CountedFit(messages, foldback_states, digest_table, result)
      BY DEF FamilyInv
    <2>2. /\ messages \in Seq(Messages) /\ Len(messages) = size /\ AllDiffer(messages, size)
          /\ \A n \in 1..size : ForwardOf(hash, messages[n]) = Reached
      BY <2>1 DEF FamilyIsFit, AllDiffer
    <2>. HIDE DEF size
    <2>3. /\ ToSet(messages) = {messages[n] : n \in 1..size}
          /\ Cardinality(ToSet(messages)) = size
      BY <2>2, MembersOfList
    <2>4. CommonState = Reached
      <3>1. options \in OptionSets
        BY DEF SearchInv
      <3>. DEFINE L == options.levels
      <3>2. Levels \in Nat /\ Levels <= L /\ L \in Nat
        BY <2>1, <3>1, LevelsAre
      <3>3. L = options.levels
        OBVIOUS
      <3>. HIDE DEF L
      <3>4. level \in 1..L
        BY <2>1, <3>2
      <3>. QED
        BY <3>2, <3>3, <3>4, CommonIsReached
    <2>5. \A message \in ToSet(messages) : Forward(message) = CommonState
      BY <2>2, <2>3, <2>4, ForwardIs
    <2>6. result.forward_mismatches = 0
      BY <2>1 DEF CountedFit
    <2>. QED
      BY <2>2, <2>3, <2>5, <2>6 DEF size
  <1>. QED
    BY <1>1, FamilyHolds, PTL

(* The counters printed for the family are exact: the states and digests   *)
(* called unique are as many as there are different ones, and the exit     *)
(* code is 0 just when all digests differ.                                 *)
THEOREM FamilyReportIsExact == Spec => []ReportExact
  <1>1. FamilyInv => ReportExact
    <2>. SUFFICES ASSUME FamilyInv, pc = "done", messages # <<>>
                  PROVE  /\ unique_foldback_states
                              = Cardinality({FoldbackState(m) : m \in ToSet(messages)})
                         /\ Cardinality(digest_table) = Len(messages) - result.digest_collisions
                         /\ result.foldback_collisions <= result.digest_collisions
                         /\ FamilyExitCode = 0 <=>
                              \A m, n \in DOMAIN messages : m # n =>
                                DigestOf(FoldbackState(messages[m]))
                                  # DigestOf(FoldbackState(messages[n]))
      BY DEF ReportExact
    <2>. DEFINE size == Len(messages)
                states == foldback_states
                a == result.foldback_collisions
                b == result.digest_collisions
                digests == [n \in 1..size |-> DigestOf(states[n])]
                Digests == {DigestOf(s) : s \in FoldbackStates}
    <2>1. /\ messages \in Seq(Messages) /\ size \in Nat /\ DOMAIN messages = 1..size
          /\ states \in Seq(FoldbackStates) /\ Len(states) = size
          /\ \A n \in 1..size : states[n] = FoldbackState(messages[n])
          /\ digest_table = {DigestOf(s) : s \in ToSet(states)}
          /\ result \in [forward_mismatches : {0}, foldback_collisions : Nat,
                         digest_collisions : Nat]
          /\ Cardinality(ToSet(states)) = size - a /\ Cardinality(digest_table) = size - b
      BY LenProperties DEF FamilyInv, FamilyIsFit, CountedFit
    <2>2. ToSet(messages) = {messages[n] : n \in 1..size}
      BY <2>1 DEF ToSet
    <2>3. ToSet(states) = {states[n] : n \in 1..size} /\ IsFiniteSet(ToSet(states))
      BY <2>1, MembersOfList
    <2>4. ToSet(states) = {FoldbackState(m) : m \in ToSet(messages)}
      BY <2>1, <2>2, <2>3
    <2>5. digests \in Seq(Digests) /\ Len(digests) = size
      <3>1. \A n \in 1..size : states[n] \in FoldbackStates
        BY <2>1, ElementOfSeq
      <3>2. \A n \in 1..size : DigestOf(states[n]) \in Digests
        BY <3>1
      <3>. HIDE DEF Digests, size
      <3>3. digests \in [1..size -> Digests]
        BY <3>2
      <3>4. DOMAIN digests = 1..size
        OBVIOUS
      <3>. HIDE DEF digests
      <3>5. digests \in Seq(Digests)
        BY <2>1, <3>3, SeqDef
      <3>. QED
        BY <2>1, <3>4, <3>5, LenProperties
    <2>6. digest_table = ToSet(digests)
      <3>1. ToSet(digests) = {digests[n] : n \in 1..size}
        <4>. HIDE DEF digests, Digests
        <4>. QED
          BY <2>5, MembersOfList
      <3>2. \A n \in 1..size : digests[n] = DigestOf(states[n])
        OBVIOUS
      <3>3. digest_table = {DigestOf(s) : s \in ToSet(states)}
        BY <2>1
      <3>. HIDE DEF digests, size
      <3>4. ASSUME NEW x \in digest_table PROVE x \in ToSet(digests)
        <4>1. PICK s \in ToSet(states) : x = DigestOf(s)
          BY <3>3
        <4>2. PICK n \in 1..size : s = states[n]
          BY <2>3
        <4>. QED
          BY <3>1, <3>2, <4>1, <4>2
      <3>5. ASSUME NEW x \in ToSet(digests) PROVE x \in digest_table
        <4>1. PICK n \in 1..size : x = digests[n]
          BY <3>1
        <4>2. states[n] \in ToSet(states)
          BY <2>3
        <4>. QED
          BY <3>2, <3>3, <4>1, <4>2
      <3>. QED
        BY <3>4, <3>5
    <2>7. a \in Nat /\ b \in Nat /\ result.forward_mismatches = 0
      BY <2>1
    <2>8. a <= b
      <3>. DEFINE S == ToSet(states)
                  f == [s \in S |-> DigestOf(s)]
      <3>1. f \in [S -> digest_table] /\ \A x \in digest_table : \E s \in S : f[s] = x
        BY <2>1
      <3>. HIDE DEF f, S
      <3>2. f \in Surjection(S, digest_table)
        BY <3>1 DEF Surjection
      <3>3. Cardinality(digest_table) <= Cardinality(S)
        BY <2>3, <3>2, FS_Surjection DEF S
      <3>4. Cardinality(S) = size - a /\ Cardinality(digest_table) = size - b
        BY <2>1 DEF S
      <3>. HIDE DEF a, b, size
      <3>. QED
        BY <2>1, <2>7, <3>3, <3>4
    <2>9. FamilyExitCode = 0 <=> b = 0
      <3>1. FamilyExitCode = 0 <=> result = ZeroResult
        BY DEF FamilyExitCode
      <3>2. result = ZeroResult <=> a = 0 /\ b = 0
        BY <2>1, <2>7 DEF ZeroResult
      <3>3. b = 0 => a = 0
        <4>. HIDE DEF a, b
        <4>. QED
          BY <2>7, <2>8
      <3>. QED
        BY <3>1, <3>2, <3>3
    <2>10. b = 0 <=> AllDiffer(digests, size)
      <3>1. Cardinality(ToSet(digests)) = size <=> AllDiffer(digests, size)
        <4>. HIDE DEF digests, Digests
        <4>. QED
          BY <2>5, MembersOfList
      <3>2. Cardinality(ToSet(digests)) = size - b
        BY <2>1, <2>6
      <3>. HIDE DEF digests, b, size
      <3>. QED
        BY <2>1, <2>7, <3>1, <3>2
    <2>11. AllDiffer(digests, size) <=>
             \A m, n \in DOMAIN messages : m # n =>
               DigestOf(FoldbackState(messages[m])) # DigestOf(FoldbackState(messages[n]))
      <3>1. \A n \in 1..size : digests[n] = DigestOf(FoldbackState(messages[n]))
        BY <2>1
      <3>. HIDE DEF digests
      <3>. QED
        BY <2>1, <3>1 DEF AllDiffer
    <2>12. unique_foldback_states = Cardinality({FoldbackState(m) : m \in ToSet(messages)})
      BY <2>1, <2>4 DEF unique_foldback_states
    <2>. QED
      BY <2>1, <2>8, <2>9, <2>10, <2>11, <2>12
  <1>. QED
    BY <1>1, FamilyHolds, PTL

=============================================================================
