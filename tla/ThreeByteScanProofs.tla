------------------------ MODULE ThreeByteScanProofs ------------------------
(***************************************************************************)
(* The scan of three-byte messages is a run of the worker pool whose       *)
(* threads fill the shared array without touching each other's slots; the  *)
(* passes of the sort put it in order and the numbers reported are those   *)
(* of the pairs of equal states, for every hash, every fingerprint, every  *)
(* number of symbols and every number of threads.                          *)
(***************************************************************************)
EXTENDS ThreeByteScan, PoolProofs, InductionTheorems, SequenceTheorems

LEMMA CountsType ==
  ASSUME options \in OptionRecords
  PROVE  /\ options.first_byte_count \in 1..Radix
         /\ Min({IF options.threads = 0 THEN Max({1, Hardware}) ELSE options.threads,
                 options.first_byte_count}) \in 1..MaxThreads
  <1>. DEFINE wanted == IF options.threads = 0 THEN Max({1, Hardware}) ELSE options.threads
              count == options.first_byte_count
  <1>1. /\ options.first_byte_count \in 1..Radix /\ options.threads \in Nat
        /\ Radix \in Nat \ {0} /\ Hardware \in Nat
        /\ MaxThreads \in Nat \ {0} /\ MaxThreads >= Radix
    BY OptionsAssumption, RadixAssumption, ThreadsAssumption, MaxThreadsAssumption
  <1>2. options.threads # 0 => options.threads \in Nat \ {0}
    BY <1>1
  <1>3. wanted \in Nat \ {0}
    <2>1. 1 \in Int /\ Hardware \in Int
      BY <1>1
    <2>2. Max({1, Hardware}) \in {1, Hardware} /\ Max({1, Hardware}) >= 1
      BY <2>1, MaxOfTwo, Zenon
    <2>3. Max({1, Hardware}) \in Nat \ {0}
      BY <1>1, <2>2
    <2>. QED
      BY <1>2, <2>3
  <1>. HIDE DEF wanted
  <1>4. wanted \in Int /\ count \in Int
    BY <1>1, <1>3
  <1>5. Min({wanted, count}) \in {wanted, count} /\ Min({wanted, count}) <= count
    BY <1>4, MinOfTwo, Zenon
  <1>6. Min({wanted, count}) \in 1..MaxThreads
    BY <1>1, <1>3, <1>5
  <1>. QED
    BY <1>1, <1>6 DEF wanted

LEMMA InitIsPoolInit == Init => PoolInit
  <1>. SUFFICES ASSUME Init PROVE PoolInit
    OBVIOUS
  <1>1. items \in Nat /\ threads \in 1..MaxThreads
    BY CountsType, RadixAssumption DEF Init
  <1>. QED
    BY <1>1 DEF Init, PoolInit

LEMMA NextIsPoolNext == [Next]_vars => [PoolNext]_poolVars
  <1>. SUFFICES ASSUME [Next]_vars PROVE [PoolNext]_poolVars
    OBVIOUS
  <1>1. CASE Caller
    BY <1>1 DEF Caller, Sort, Compare, Report, PoolNext
  <1>2. ASSUME NEW w \in Workers, Thread(w) PROVE [PoolNext]_poolVars
    BY <1>2 DEF Thread, ClaimFirst, Write, FinishFirst, PoolNext
  <1>3. CASE UNCHANGED vars
    BY <1>3 DEF vars
  <1>. QED
    BY <1>1, <1>2, <1>3 DEF Next, Returned

(* The scan implements the pool: what the pool promises for any work, it   *)
(* keeps.                                                                  *)
THEOREM ScanImplementsPool == Spec => PoolSpec
  BY InitIsPoolInit, NextIsPoolNext, PTL DEF Spec, PoolSpec

(* No first symbol is claimed by two threads, and behind the last join     *)
(* every one of them is done and no thread writes any more.                *)
THEOREM FirstSymbolsAreScannedOnce == Spec => [](EachItemOnce /\ AllDoneWhenOver)
  BY ScanImplementsPool, ItemsAreClaimedOnce, NothingIsLeftBehind, PTL

-----------------------------------------------------------------------------
(* Messages as numbers.                                                    *)

LEMMA DivisionIsUnique ==
  ASSUME NEW d \in Nat \ {0}, NEW q \in Nat, NEW r \in 0..(d - 1)
  PROVE  (q * d + r) \div d = q /\ (q * d + r) % d = r
  OBVIOUS

(* The first symbol of a message and its number among those that share it. *)
First(value) == value \div (Radix * Radix)
Place(value) == value % (Radix * Radix)

LEMMA MessagesByFirstSymbol ==
  ASSUME options \in OptionRecords
  PROVE  /\ Radix * Radix \in Nat \ {0}
         /\ \A value \in Values :
              /\ DecodeMessage(value)[1] = First(value)
              /\ First(value) \in 0..(options.first_byte_count - 1)
              /\ Place(value) \in 0..(Radix * Radix - 1)
              /\ value = First(value) * Radix * Radix + Place(value)
         /\ \A f \in 0..(options.first_byte_count - 1), p \in 0..(Radix * Radix - 1) :
              /\ f * Radix * Radix + p \in Values
              /\ First(f * Radix * Radix + p) = f
              /\ Place(f * Radix * Radix + p) = p
  <1>. DEFINE square == Radix * Radix
              count == options.first_byte_count
  <1>1. count \in 1..Radix /\ Radix \in Nat \ {0}
    BY OptionsAssumption, RadixAssumption
  <1>2. square \in Nat \ {0}
    BY <1>1
  <1>3. \A f \in Nat : f * Radix * Radix = f * square /\ f * square \in Nat
    BY <1>1
  <1>4. Values = 0..(count * square - 1) /\ count * square \in Nat
    BY <1>1, <1>3 DEF Values, Domain
  <1>. HIDE DEF square, count
  <1>5. ASSUME NEW value \in Values
        PROVE  /\ value \div square \in 0..(count - 1)
               /\ value % square \in 0..(square - 1)
               /\ value = (value \div square) * square + (value % square)
    <2>1. value \in Nat /\ value < count * square
      BY <1>4
    <2>2. value % square \in 0..(square - 1)
      BY <1>2, <2>1
    <2>3. value = (value \div square) * square + (value % square)
      BY <1>2, <2>1
    <2>4. value \div square \in Nat
      BY <1>2, <2>1
    <2>5. value \div square < count
      BY <1>1, <1>2, <2>1
    <2>. QED
      BY <1>1, <2>2, <2>3, <2>4, <2>5
  <1>6. ASSUME NEW value \in Values PROVE DecodeMessage(value)[1] = value \div square
    <2>1. value \div square \in 0..(Radix - 1)
      BY <1>1, <1>5
    <2>2. (value \div square) % Radix = value \div square
      BY <1>1, <2>1
    <2>. QED
      BY <2>2 DEF DecodeMessage, square
  <1>7. ASSUME NEW f \in 0..(count - 1), NEW p \in 0..(square - 1)
        PROVE  /\ f * square + p \in Values
               /\ (f * square + p) \div square = f
               /\ (f * square + p) % square = p
    <2>1. f * square + p \in Nat
      BY <1>1, <1>2
    <2>2. f * square + p < count * square
      BY <1>1, <1>2
    <2>. QED
      BY <1>1, <1>2, <1>4, <2>1, <2>2, DivisionIsUnique
  <1>8. \A f \in 0..(count - 1) : f * Radix * Radix = f * square
    BY <1>1, <1>3
  <1>9. \A value \in Values : First(value) * Radix * Radix = First(value) * square
    BY <1>5, <1>8 DEF First, square
  <1>. QED
    BY <1>2, <1>5, <1>6, <1>7, <1>8, <1>9 DEF First, Place, square, count

-----------------------------------------------------------------------------
(* The slots.                                                              *)

(* The thread of the message's first symbol has come past the message.     *)
Past(value) ==
  \/ First(value) \in finished
  \/ \E w \in Workers : /\ worker[w] = "work" /\ item[w] = First(value)
                        /\ Place(value) < at[w]

(* The items of the pool are the first symbols of the scan, and a thread   *)
(* begins an item at the first of its slots.                               *)
PlacesOK ==
  /\ options \in OptionRecords /\ items = options.first_byte_count
  /\ at \in [Workers -> 0..(Radix * Radix)]
  /\ \A w \in Workers : worker[w] # "work" => at[w] = 0

SlotsOK ==
  stage = "generate" =>
    /\ entries = [n \in 1..Domain |-> entries[n]]
    /\ \A value \in Values : entries[value + 1] = IF Past(value) THEN EntryOf(value) ELSE Blank

(* The sort comes after the last join.                                     *)
StageOK == stage # "generate" => main = "over"

SlotInv == PoolInv /\ PlacesOK /\ SlotsOK /\ StageOK

LEMMA InitEstablishesSlotInv == Init => SlotInv
  <1>. SUFFICES ASSUME Init PROVE SlotInv
    OBVIOUS
  <1>. USE DEF Init
  <1>1. PoolInv
    BY InitIsPoolInit, PoolInitEstablishesInv
  <1>2. 0 \in 0..(Radix * Radix)
    <2>1. Radix * Radix \in Nat
      BY RadixAssumption
    <2>. QED
      BY <2>1
  <1>3. PlacesOK
    BY <1>2 DEF PlacesOK
  <1>4. ASSUME NEW value \in Values PROVE entries[value + 1] = Blank /\ ~Past(value)
    <2>1. value + 1 \in 1..Domain
      <3>1. Domain \in Int /\ value \in 0..(Domain - 1)
        <4>1. options.first_byte_count \in Int /\ Radix \in Int
          BY CountsType, RadixAssumption
        <4>. QED
          BY <4>1 DEF Domain, Values
      <3>. QED
        BY <3>1
    <2>. QED
      BY <2>1 DEF Past
  <1>5. SlotsOK
    BY <1>4 DEF SlotsOK
  <1>6. StageOK
    BY DEF StageOK
  <1>. QED
    BY <1>1, <1>3, <1>5, <1>6 DEF SlotInv

(* A step that neither begins, writes nor ends an item.                    *)
LEMMA ElsewhereKeepsSlots ==
  ASSUME PlacesOK, SlotsOK, UNCHANGED scanVars, items' = items, finished' = finished,
         \A w \in Workers : /\ worker'[w] = "work" <=> worker[w] = "work"
                            /\ worker[w] = "work" => item'[w] = item[w]
  PROVE  PlacesOK' /\ SlotsOK'
  <1>1. PlacesOK'
    BY DEF PlacesOK, scanVars, Workers
  <1>2. \A value : Past(value)' <=> Past(value)
    BY DEF Past, First, Place, scanVars, Workers
  <1>3. SlotsOK'
    BY <1>2 DEF SlotsOK, scanVars, Values, Domain, EntryOf, ScannedState, PrefixState
  <1>. QED
    BY <1>1, <1>3

LEMMA ClaimKeepsSlots ==
  ASSUME SlotInv, NEW w \in Workers, ClaimFirst(w)
  PROVE  PlacesOK' /\ SlotsOK'
  <1>1. /\ worker \in [Workers -> {"absent", "claim", "work", "exited"}]
        /\ \A v \in Workers : v # w => worker'[v] = worker[v] /\ item'[v] = item[v]
        /\ worker[w] = "claim" /\ worker'[w] \in {"work", "exited"}
        /\ UNCHANGED <<items, finished>> /\ UNCHANGED scanVars
    BY DEF SlotInv, PoolInv, PoolTypeOK, ClaimFirst, Claim
  <1>2. at[w] = 0
    BY <1>1 DEF SlotInv, PlacesOK
  <1>3. PlacesOK'
    BY <1>1, <1>2 DEF SlotInv, PlacesOK, scanVars, Workers
  <1>4. ASSUME NEW value \in Values PROVE Past(value)' <=> Past(value)
    <2>1. ~(Place(value) < at[w])
      <3>1. Place(value) \in Nat
        BY MessagesByFirstSymbol DEF SlotInv, PlacesOK
      <3>. QED
        BY <1>2, <3>1
    <2>2. ~(Place(value) < at'[w]) /\ at' = at
      BY <1>1, <2>1 DEF scanVars
    <2>. QED
      BY <1>1, <2>1, <2>2 DEF Past, First, Place, Workers
  <1>5. SlotsOK'
    BY <1>1, <1>4 DEF SlotInv, SlotsOK, scanVars, Values, Domain, EntryOf, ScannedState, PrefixState
  <1>. QED
    BY <1>3, <1>5

(* Writing fills the slot the thread has come to and no other.             *)
LEMMA WriteKeepsSlots ==
  ASSUME SlotInv, stage = "generate", NEW w \in Workers, Write(w)
  PROVE  PlacesOK' /\ SlotsOK'
  <1>0. PICK value : value = item[w] * Radix * Radix + at[w]
    OBVIOUS
  <1>1. /\ UNCHANGED <<poolVars, hash, options, stage>>
        /\ worker[w] = "work" /\ at[w] < Radix * Radix
        /\ entries' = [entries EXCEPT ![value + 1] = EntryOf(value)]
        /\ at' = [at EXCEPT ![w] = @ + 1]
    BY <1>0 DEF Write
  <1>2. /\ options \in OptionRecords /\ at \in [Workers -> 0..(Radix * Radix)]
        /\ Radix * Radix \in Nat
        /\ item[w] \in 0..(options.first_byte_count - 1)
        /\ \A v \in Workers : worker[v] = "work" /\ item[v] = item[w] => v = w
    BY <1>1, MessagesByFirstSymbol DEF SlotInv, PlacesOK, PoolInv, EachItemOnce, Items
  <1>3. at[w] \in 0..(Radix * Radix - 1)
    BY <1>1, <1>2
  <1>4. value \in Values /\ First(value) = item[w] /\ Place(value) = at[w]
    BY <1>0, <1>2, <1>3, MessagesByFirstSymbol
  <1>5. PlacesOK'
    <2>1. at' \in [Workers -> 0..(Radix * Radix)]
      <3>. DEFINE square == Radix * Radix
      <3>. HIDE DEF square
      <3>1. at \in [Workers -> 0..square] /\ at[w] \in 0..(square - 1) /\ square \in Nat
        BY <1>2, <1>3 DEF square
      <3>2. at' \in [Workers -> 0..square]
        BY <1>1, <3>1
      <3>. QED
        BY <3>2 DEF square
    <2>2. \A v \in Workers : v # w => at'[v] = at[v]
      BY <1>1, <1>2
    <2>. QED
      BY <1>1, <2>1, <2>2 DEF SlotInv, PlacesOK, poolVars, Workers
  <1>6. ASSUME NEW other \in Values, other # value
        PROVE  Past(other)' <=> Past(other)
    <2>1. First(other) = item[w] => Place(other) # at[w]
      <3>1. other = First(other) * Radix * Radix + Place(other)
        BY <1>2, MessagesByFirstSymbol
      <3>. QED
        BY <1>0, <1>6, <3>1
    <2>2. Place(other) \in Nat /\ at[w] \in Nat
      BY <1>2, <1>3, MessagesByFirstSymbol
    <2>3. /\ \A v \in Workers : v # w => at'[v] = at[v]
          /\ at'[w] = at[w] + 1
      BY <1>1, <1>2
    <2>4. First(other) = item[w] => (Place(other) < at'[w] <=> Place(other) < at[w])
      BY <2>1, <2>2, <2>3
    <2>5. UNCHANGED <<worker, item, finished>>
      BY <1>1 DEF poolVars
    <2>. HIDE DEF First, Place
    <2>. QED
      BY <2>3, <2>4, <2>5 DEF Past, First, Place, Workers
  <1>7. Past(value)'
    <2>1. at'[w] = at[w] + 1 /\ at[w] \in Nat
      BY <1>1, <1>2, <1>3
    <2>2. First(value) = item[w] /\ Place(value) = at[w]
      BY <1>4
    <2>3. UNCHANGED <<worker, item>>
      BY <1>1 DEF poolVars
    <2>. QED
      BY <1>1, <2>1, <2>2, <2>3 DEF Past, First, Place, Workers
  <1>8. /\ Values \subseteq Nat /\ \A other \in Values : other + 1 \in 1..Domain
        /\ Domain' = Domain
    <2>1. Domain \in Int
      <3>1. options.first_byte_count \in Int /\ Radix \in Int
        BY <1>2, CountsType, RadixAssumption
      <3>. QED
        BY <3>1 DEF Domain
    <2>. QED
      BY <1>1, <2>1 DEF Values, Domain
  <1>9. SlotsOK'
    <2>1. /\ entries = [n \in 1..Domain |-> entries[n]]
          /\ \A other \in Values :
               entries[other + 1] = IF Past(other) THEN EntryOf(other) ELSE Blank
      BY DEF SlotInv, SlotsOK
    <2>2. entries' = [n \in 1..Domain' |-> entries'[n]]
      BY <1>1, <1>8, <2>1
    <2>3. ASSUME NEW other \in Values
          PROVE  entries'[other + 1] = IF Past(other)' THEN EntryOf(other) ELSE Blank
      <3>1. CASE other = value
        BY <1>1, <1>4, <1>7, <1>8, <2>1, <3>1
      <3>2. CASE other # value
        <4>1. entries'[other + 1] = entries[other + 1]
          BY <1>1, <1>4, <1>8, <2>1, <3>2
        <4>. QED
          BY <1>6, <2>1, <3>2, <4>1
      <3>. QED
        BY <3>1, <3>2
    <2>4. /\ Values' = Values
          /\ \A other : EntryOf(other)' = EntryOf(other)
      BY <1>1 DEF Values, Domain, EntryOf, ScannedState, PrefixState
    <2>. QED
      BY <2>2, <2>3, <2>4 DEF SlotsOK
  <1>. QED
    BY <1>5, <1>9

(* Ending an item: all its slots have been written.                        *)
LEMMA FinishKeepsSlots ==
  ASSUME SlotInv, NEW w \in Workers, FinishFirst(w)
  PROVE  PlacesOK' /\ SlotsOK'
  <1>1. /\ UNCHANGED <<hash, options, entries, stage, items, item>>
        /\ worker[w] = "work" /\ worker'[w] = "claim"
        /\ \A v \in Workers : v # w => worker'[v] = worker[v] /\ at'[v] = at[v]
        /\ at[w] = Radix * Radix /\ at'[w] = 0
        /\ finished' = finished \cup {item[w]}
    BY DEF FinishFirst, Finish, SlotInv, PoolInv, PoolTypeOK, PlacesOK
  <1>2. options \in OptionRecords /\ Radix * Radix \in Nat
    BY MessagesByFirstSymbol DEF SlotInv, PlacesOK
  <1>3. PlacesOK'
    <2>1. at' \in [Workers -> 0..(Radix * Radix)]
      <3>. DEFINE square == Radix * Radix
      <3>. HIDE DEF square
      <3>1. at \in [Workers -> 0..square] /\ square \in Nat
        BY <1>2 DEF square, SlotInv, PlacesOK
      <3>2. at' = [at EXCEPT ![w] = 0]
        BY DEF FinishFirst
      <3>3. at' \in [Workers -> 0..square]
        BY <3>1, <3>2
      <3>. QED
        BY <3>3 DEF square
    <2>. QED
      BY <1>1, <2>1 DEF SlotInv, PlacesOK, Workers
  <1>4. ASSUME NEW value \in Values PROVE Past(value)' <=> Past(value)
    <2>1. Place(value) < at[w]
      <3>1. Place(value) \in 0..(Radix * Radix - 1)
        BY <1>2, MessagesByFirstSymbol
      <3>. QED
        BY <1>1, <1>2, <3>1
    <2>2. First(value)' = First(value) /\ Place(value)' = Place(value)
      BY DEF First, Place
    <2>3. CASE First(value) = item[w]
      BY <1>1, <2>1, <2>3 DEF Past, First, Place
    <2>4. CASE First(value) # item[w]
      BY <1>1, <2>4 DEF Past, First, Place, Workers
    <2>. QED
      BY <2>3, <2>4
  <1>5. SlotsOK'
    BY <1>1, <1>4 DEF SlotInv, SlotsOK, Values, Domain, EntryOf, ScannedState, PrefixState
  <1>. QED
    BY <1>3, <1>5

LEMMA NextKeepsSlotInv == SlotInv /\ [Next]_vars => SlotInv'
  <1>. SUFFICES ASSUME SlotInv, [Next]_vars PROVE SlotInv'
    OBVIOUS
  <1>1. PoolInv'
    BY NextIsPoolNext, PoolNextKeepsInv DEF SlotInv
  <1>0. StageOK'
    BY DEF SlotInv, StageOK, Next, Caller, Thread, Returned, Spawn, StartJoining, Join, Leave,
           Sort, Compare, Report, ClaimFirst, Claim, Write, FinishFirst, Finish, vars, poolVars,
           scanVars
  <1>2. CASE (Spawn \/ StartJoining \/ Join \/ Leave) /\ UNCHANGED scanVars
    <2>1. items' = items /\ finished' = finished /\ item' = item
      BY <1>2 DEF Spawn, StartJoining, Join, Leave
    <2>2. ASSUME NEW w \in Workers PROVE worker'[w] = "work" <=> worker[w] = "work"
      <3>1. CASE Spawn
        <4>1. worker \in [Workers -> {"absent", "claim", "work", "exited"}]
              /\ k \in Workers /\ worker[k] = "absent"
          BY <3>1, MaxThreadsAssumption
          DEF Spawn, SlotInv, PoolInv, PoolTypeOK, CallerOK, Workers
        <4>. QED
          BY <3>1, <4>1 DEF Spawn
      <3>2. CASE StartJoining \/ Join \/ Leave
        BY <3>2 DEF StartJoining, Join, Leave
      <3>. QED
        BY <1>2, <3>1, <3>2
    <2>. QED
      BY <1>0, <1>1, <1>2, <2>1, <2>2, ElsewhereKeepsSlots DEF SlotInv
  <1>3. CASE Sort \/ Compare \/ Report
    <2>1. /\ UNCHANGED <<poolVars, options, at>> /\ stage' # "generate"
      BY <1>3 DEF Sort, Compare, Report
    <2>2. PlacesOK' /\ SlotsOK'
      BY <2>1 DEF SlotInv, PlacesOK, SlotsOK, poolVars
    <2>. QED
      BY <1>0, <1>1, <2>2 DEF SlotInv
  <1>4. ASSUME NEW w \in Workers, ClaimFirst(w) PROVE SlotInv'
    BY <1>0, <1>1, <1>4, ClaimKeepsSlots DEF SlotInv
  <1>5. ASSUME NEW w \in Workers, Write(w) PROVE SlotInv'
    <2>1. CASE stage = "generate"
      BY <1>0, <1>1, <1>5, <2>1, WriteKeepsSlots DEF SlotInv
    <2>2. CASE stage # "generate"
      <3>1. worker[w] # "work"
        BY <2>2, OverMeansDone DEF SlotInv, StageOK, AllDoneWhenOver
      <3>. QED
        BY <1>5, <3>1 DEF Write
    <2>. QED
      BY <2>1, <2>2
  <1>6. ASSUME NEW w \in Workers, FinishFirst(w) PROVE SlotInv'
    BY <1>0, <1>1, <1>6, FinishKeepsSlots DEF SlotInv
  <1>7. CASE UNCHANGED vars
    <2>1. PlacesOK' /\ SlotsOK'
      BY <1>7, ElsewhereKeepsSlots DEF SlotInv, vars, poolVars
    <2>. QED
      BY <1>0, <1>1, <2>1 DEF SlotInv
  <1>. QED
    BY <1>2, <1>3, <1>4, <1>5, <1>6, <1>7 DEF Next, Caller, Thread, Returned

LEMMA SlotInvHolds == Spec => []SlotInv
  BY InitEstablishesSlotInv, NextKeepsSlotInv, PTL DEF Spec

(* While the threads run, a slot holds the entry of its message if the     *)
(* thread of its first symbol has come past it and is untouched otherwise: *)
(* no thread writes where another does, however many there are and however *)
(* their writes interleave.                                                *)
THEOREM SlotsAreFilled == Spec => []SlotsFilled
  <1>1. SlotInv => SlotsFilled
    <2>. SUFFICES ASSUME SlotInv, stage = "generate", NEW value \in Values
                  PROVE  entries[value + 1]
                           = IF \/ DecodeMessage(value)[1] \in finished
                                \/ \E w \in Workers :
                                     /\ worker[w] = "work" /\ item[w] = DecodeMessage(value)[1]
                                     /\ value % (Radix * Radix) < at[w]
                             THEN EntryOf(value) ELSE Blank
      BY DEF SlotsFilled
    <2>1. entries[value + 1] = IF Past(value) THEN EntryOf(value) ELSE Blank
      BY DEF SlotInv, SlotsOK
    <2>2. DecodeMessage(value)[1] = First(value)
      BY MessagesByFirstSymbol DEF SlotInv, PlacesOK
    <2>. QED
      BY <2>1, <2>2 DEF Past, Place
  <1>. QED
    BY <1>1, SlotInvHolds, PTL

(* When the caller sorts the array, no slot is missing.                    *)
THEOREM SortedArrayIsComplete ==
  Spec => [](main = "over" /\ stage = "generate" =>
               \A value \in Values : entries[value + 1] = EntryOf(value))
  <1>1. SlotInv => (main = "over" /\ stage = "generate" =>
                      \A value \in Values : entries[value + 1] = EntryOf(value))
    <2>. SUFFICES ASSUME SlotInv, main = "over", stage = "generate", NEW value \in Values
                  PROVE  entries[value + 1] = EntryOf(value)
      OBVIOUS
    <2>1. finished = 0..(options.first_byte_count - 1)
      BY OverMeansDone DEF SlotInv, AllDoneWhenOver, Items, PlacesOK
    <2>2. First(value) \in finished
      BY <2>1, MessagesByFirstSymbol DEF SlotInv, PlacesOK
    <2>. QED
      BY <2>2 DEF SlotInv, SlotsOK, Past
  <1>. QED
    BY <1>1, SlotInvHolds, PTL


-----------------------------------------------------------------------------
(* The sort.                                                               *)

(* Each digit counts as often as there are numbers of the lower ones.      *)
LEMMA WeightsMultiply ==
  /\ Weight[0] = 1
  /\ \A n \in Nat : Weight[n] \in Nat \ {0} /\ Weight[n + 1] = DigitBase * Weight[n]
  <1>. DEFINE S == Nat \ {0}
              step == [x \in S |-> DigitBase * x]
              Rest(f) == [n \in Nat |-> IF n = 0 THEN 1 ELSE DigitBase * f[n - 1]]
  <1>1. 1 \in S /\ step \in [S -> S]
    <2>1. \A x \in S : DigitBase * x \in S
      BY SortAssumption
    <2>. QED
      BY <2>1
  <1>2. PICK f \in [Nat -> S] : f[0] = 1 /\ \A n \in Nat : f[n + 1] = step[f[n]]
    <2>. DEFINE GoesOn(f, T, first, g) ==
                  f \in [Nat -> T] /\ f[0] = first /\ \A n \in Nat : f[n + 1] = g[f[n]]
    <2>1. \A T, first, g : first \in T /\ g \in [T -> T] => \E f : GoesOn(f, T, first, g)
      BY RecursionOnNat
    <2>. HIDE DEF S, step, GoesOn
    <2>2. \E f : GoesOn(f, S, 1, step)
      BY <1>1, <2>1
    <2>. QED
      BY <2>2 DEF GoesOn
  <1>3. f = Rest(f)
    <2>1. ASSUME NEW n \in Nat PROVE f[n] = IF n = 0 THEN 1 ELSE DigitBase * f[n - 1]
      <3>1. CASE n = 0
        BY <1>2, <3>1
      <3>2. CASE n # 0
        <4>1. n - 1 \in Nat /\ (n - 1) + 1 = n
          BY <3>2
        <4>2. f[n] = step[f[n - 1]] /\ f[n - 1] \in S
          BY <1>2, <4>1
        <4>. QED
          BY <3>2, <4>2
      <3>. QED
        BY <3>1, <3>2
    <2>. QED
      BY <2>1
  <1>4. Weight = CHOOSE g : g = Rest(g)
    BY DEF Weight
  <1>. HIDE DEF Rest
  <1>5. Weight = Rest(Weight)
    BY <1>3, <1>4
  <1>6. \A n \in Nat : Weight[n] = IF n = 0 THEN 1 ELSE DigitBase * Weight[n - 1]
    BY <1>5 DEF Rest
  <1>7. Weight[0] = 1 /\ \A n \in Nat : Weight[n + 1] = DigitBase * Weight[n]
    <2>1. \A n \in Nat : n + 1 \in Nat /\ n + 1 # 0 /\ (n + 1) - 1 = n
      OBVIOUS
    <2>. QED
      BY <1>6, <2>1
  <1>8. \A n \in Nat : Weight[n] \in S
    <2>. DEFINE T == {n \in Nat : Weight[n] \in S}
    <2>1. 0 \in T
      BY <1>7
    <2>2. ASSUME NEW n \in Nat, n \in T PROVE n + 1 \in T
      BY <1>7, <2>2, SortAssumption
    <2>. HIDE DEF T
    <2>3. Nat \subseteq T
      BY <2>1, <2>2, InductionOnNat
    <2>. QED
      BY <2>3 DEF T
  <1>. QED
    BY <1>7, <1>8

(* A number up to and with one more digit.                                 *)
LEMMA OneDigitMore ==
  ASSUME NEW f \in Nat, NEW w \in Nat \ {0}, NEW b \in Nat \ {0}
  PROVE  /\ (f \div w) % b \in 0..(b - 1) /\ f % w \in 0..(w - 1)
         /\ f % (b * w) = ((f \div w) % b) * w + (f % w)
  <1>. DEFINE q == f \div w
              r == f % w
              d == q % b
              h == q \div b
  <1>1. q \in Nat /\ r \in 0..(w - 1) /\ f = q * w + r
    OBVIOUS
  <1>. HIDE DEF q, r
  <1>2. d \in 0..(b - 1) /\ h \in Nat /\ q = h * b + d
    BY <1>1
  <1>. HIDE DEF d, h
  <1>3. d * w + r \in 0..(b * w - 1)
    <2>1. d * w \in Nat /\ d * w <= (b - 1) * w
      BY <1>2
    <2>2. (b - 1) * w = b * w - w /\ b * w \in Nat
      OBVIOUS
    <2>. QED
      BY <1>1, <2>1, <2>2
  <1>4. f = h * (b * w) + (d * w + r)
    <2>1. q * w = h * b * w + d * w
      BY <1>2
    <2>2. h * b * w = h * (b * w)
      BY <1>2
    <2>. QED
      BY <1>1, <1>2, <2>1, <2>2
  <1>5. b * w \in Nat \ {0}
    OBVIOUS
  <1>6. f % (b * w) = d * w + r
    <2>. DEFINE e == b * w
                s == d * w + r
    <2>. HIDE DEF e, s
    <2>1. e \in Nat \ {0} /\ s \in 0..(e - 1) /\ f = h * e + s
      BY <1>3, <1>4, <1>5 DEF e, s
    <2>2. f % e = s
      BY <1>2, <2>1, DivisionIsUnique
    <2>. QED
      BY <2>2 DEF e, s
  <1>. QED
    BY <1>1, <1>2, <1>6 DEF q, r, d

(* A pass rearranges the entries by their digit and leaves those with the  *)
(* same digit in their order.                                              *)
Stably(perm, list) ==
  \A m, n \in DOMAIN list :
    m < n => \/ Digit(list[perm[m]]) < Digit(list[perm[n]])
             \/ /\ Digit(list[perm[m]]) = Digit(list[perm[n]])
                /\ perm[m] < perm[n]

LEMMA PassIsStable ==
  ASSUME NEW S, NEW list, ListsOnce(list, S), \A x \in S : Digit(x) \in Nat
  PROVE  \E perm \in [DOMAIN list -> DOMAIN list] :
           /\ SortedBy(list, DigitBefore) = [n \in DOMAIN list |-> list[perm[n]]]
           /\ ListsOnce(SortedBy(list, DigitBefore), S)
           /\ Stably(perm, list)
  <1>. DEFINE D == DOMAIN list
              digit == [i \in D |-> Digit(list[i])]
              Q == {p \in D \X D : \/ digit[p[1]] < digit[p[2]]
                                   \/ ~(digit[p[2]] < digit[p[1]]) /\ p[1] < p[2]}
              place == [i \in DOMAIN list |->
                          1 + Cardinality({j \in DOMAIN list :
                                \/ DigitBefore(list[j], list[i])
                                \/ ~DigitBefore(list[i], list[j]) /\ j < i})]
              perm == Listed(D, Q)
              sorted == SortedBy(list, DigitBefore)
  <1>1. list \in Seq(S) /\ D = 1..Len(list) /\ Len(list) \in Nat
    BY LenProperties DEF ListsOnce
  <1>2. IsFiniteSet(D) /\ Cardinality(D) = Len(list)
    BY <1>1, FS_Interval, SMTT(30)
  <1>3. \A i \in D : list[i] \in S /\ digit[i] \in Nat /\ i \in Nat
    <2>1. \A i \in D : list[i] \in S /\ i \in Nat
      BY <1>1, ElementOfSeq
    <2>. QED
      BY <2>1
  <1>4. \A i, j \in D : <<i, j>> \in Q <=> \/ digit[i] < digit[j]
                                           \/ ~(digit[j] < digit[i]) /\ i < j
    OBVIOUS
  <1>5. \A i, j \in D : DigitBefore(list[i], list[j]) <=> digit[i] < digit[j]
    BY DEF DigitBefore
  <1>. HIDE DEF Q, digit
  <1>6. StrictlyOrders(Q, D)
    <2>1. \A x \in D : <<x, x>> \notin Q
      BY <1>3, <1>4
    <2>2. \A x, y, z \in D : <<x, y>> \in Q /\ <<y, z>> \in Q => <<x, z>> \in Q
      BY <1>3, <1>4
    <2>3. \A x, y \in D : x # y => <<x, y>> \in Q \/ <<y, x>> \in Q
      BY <1>3, <1>4
    <2>. QED
      BY <2>1, <2>2, <2>3 DEF StrictlyOrders
  <1>7. \A i \in D : Rank(Q, D, i) \in Nat
    <2>1. \A i \in D : Below(Q, D, i) \subseteq D
      BY DEF Below
    <2>. HIDE DEF D
    <2>. QED
      BY <1>2, <2>1, FS_Subset, FS_CardinalityType DEF Rank
  <1>8. \A i \in D : place[i] = 1 + Rank(Q, D, i)
    <2>. SUFFICES ASSUME NEW i \in D PROVE place[i] = 1 + Rank(Q, D, i)
      OBVIOUS
    <2>. DEFINE before == {j \in DOMAIN list :
                             \/ DigitBefore(list[j], list[i])
                             \/ ~DigitBefore(list[i], list[j]) /\ j < i}
    <2>1. before = Below(Q, D, i)
      BY <1>4, <1>5 DEF Below
    <2>2. place[i] = 1 + Cardinality(before)
      OBVIOUS
    <2>. HIDE DEF before, place
    <2>. QED
      BY <2>1, <2>2, Zenon DEF Rank
  <1>9. sorted = [n \in D |-> list[CHOOSE i \in D : place[i] = n]]
    BY Zenon DEF SortedBy
  <1>10. \A n \in D : \A i \in D : place[i] = n <=> Rank(Q, D, i) = n - 1
    <2>. HIDE DEF place
    <2>. QED
      BY <1>3, <1>7, <1>8
  <1>11. D = 1..Cardinality(D)
    BY <1>1, <1>2
  <1>12. \A n \in D : perm[n] = CHOOSE i \in D : Rank(Q, D, i) = n - 1
    BY <1>11 DEF Listed
  <1>13. sorted = [n \in D |-> list[perm[n]]]
    <2>. HIDE DEF place, D, sorted, perm
    <2>1. ASSUME NEW n \in D
          PROVE  (CHOOSE i \in D : place[i] = n) = CHOOSE i \in D : Rank(Q, D, i) = n - 1
      BY <1>10
    <2>2. \A n \in D : list[CHOOSE i \in D : place[i] = n] = list[perm[n]]
      BY <1>12, <2>1
    <2>. QED
      BY <1>9, <2>2
  <1>14. perm \in [1..Cardinality(D) -> D] /\ ListsOnce(perm, D) /\ InRankOrder(perm, Q)
    <2>. HIDE DEF D, perm
    <2>. QED
      BY <1>2, <1>6, ListedByRank DEF perm
  <1>. HIDE DEF perm, sorted
  <1>15. perm \in [D -> D]
    BY <1>11, <1>14
  <1>16. ListsOnce(sorted, S)
    <2>1. sorted \in [1..Len(list) -> S]
      BY <1>1, <1>3, <1>13, <1>15
    <2>2. sorted \in Seq(S)
      BY <1>1, <2>1, SeqDef
    <2>3. ASSUME NEW x \in S PROVE \E n \in DOMAIN sorted : sorted[n] = x
      <3>1. PICK i \in D : list[i] = x
        BY DEF ListsOnce
      <3>2. PICK n \in D : perm[n] = i
        BY <1>14, <1>15 DEF ListsOnce
      <3>. QED
        BY <1>13, <3>1, <3>2
    <2>4. \A m, n \in DOMAIN sorted : sorted[m] = sorted[n] => m = n
      <3>1. \A i, j \in D : list[i] = list[j] => i = j
        BY DEF ListsOnce
      <3>2. \A m, n \in D : perm[m] = perm[n] => m = n
        BY <1>14, <1>15 DEF ListsOnce
      <3>. QED
        BY <1>13, <1>15, <3>1, <3>2
    <2>. QED
      BY <2>2, <2>3, <2>4 DEF ListsOnce
  <1>17. Stably(perm, list)
    <2>. SUFFICES ASSUME NEW m \in D, NEW n \in D, m < n
                  PROVE  \/ digit[perm[m]] < digit[perm[n]]
                         \/ digit[perm[m]] = digit[perm[n]] /\ perm[m] < perm[n]
      BY <1>15 DEF Stably, digit
    <2>1. <<perm[m], perm[n]>> \in Q /\ perm[m] \in D /\ perm[n] \in D
      BY <1>14, <1>15 DEF InRankOrder
    <2>. QED
      BY <1>3, <1>4, <2>1
  <1>. QED
    BY <1>13, <1>15, <1>16, <1>17 DEF sorted


(* What the scan computes for each message.                                *)
EntriesOfAll == {EntryOf(value) : value \in Values}

LEMMA EntriesAreTyped ==
  ASSUME hash \in Hashes, options \in OptionRecords
  PROVE  \A e \in EntriesOfAll : /\ e.fingerprint \in 0..(Weight[Passes] - 1)
                                 /\ e.fingerprint \in Nat /\ e.message \in Nat
  <1>1. Weight[Passes] \in Nat
    BY WeightsMultiply, SortAssumption
  <1>. SUFFICES ASSUME NEW value \in Values
                PROVE  Fingerprint[ScannedState(value)] \in 0..(Weight[Passes] - 1) /\ value \in Nat
    BY <1>1 DEF EntriesOfAll, EntryOf
  <1>2. value \in Nat
    <2>1. Domain \in Int
      BY OptionsAssumption, RadixAssumption DEF Domain
    <2>. QED
      BY <2>1 DEF Values
  <1>3. /\ (value \div (Radix * Radix)) % Radix \in Symbols
        /\ (value \div Radix) % Radix \in Symbols
        /\ value % Radix \in Symbols
    <2>1. Radix \in Nat \ {0} /\ Radix * Radix \in Nat \ {0}
      BY RadixAssumption
    <2>2. value \div (Radix * Radix) \in Nat /\ value \div Radix \in Nat
      <3>. DEFINE square == Radix * Radix
      <3>1. square \in Nat \ {0}
        BY <2>1
      <3>. HIDE DEF square
      <3>2. value \div square \in Nat
        BY <1>2, <3>1
      <3>3. value \div Radix \in Nat
        BY <1>2, <2>1
      <3>. QED
        BY <3>2, <3>3 DEF square
    <2>3. \A n \in Nat : n % Radix \in Symbols
      BY <2>1 DEF Symbols
    <2>. QED
      BY <1>2, <2>2, <2>3
  <1>4. PICK a, b, c \in Symbols : DecodeMessage(value) = <<a, b, c>>
    BY <1>3 DEF DecodeMessage
  <1>5. ScannedState(value) \in DOMAIN Fingerprint
    <2>1. /\ <<a, b>> \in Symbols \X Symbols
          /\ <<a, b, c>> \in Symbols \X Symbols \X Symbols
      OBVIOUS
    <2>2. hash.folded[<<a, b, c>>] \in DOMAIN Fingerprint
      BY <2>1, HashAssumption
    <2>3. hash.absorb[hash.behind[<<a, b>>]][c] \in DOMAIN Fingerprint
      BY <2>1, HashAssumption
    <2>. QED
      BY <1>4, <2>2, <2>3 DEF ScannedState, PrefixState
  <1>. QED
    BY <1>2, <1>5, SortAssumption

(* In order of what the fingerprints are below a weight, and of the        *)
(* messages.                                                               *)
OrderedBelow(list, w) ==
  \A m, n \in DOMAIN list :
    m < n => \/ list[m].fingerprint % w < list[n].fingerprint % w
             \/ /\ list[m].fingerprint % w = list[n].fingerprint % w
                /\ list[m].message < list[n].message

(* The array as the threads leave it is in the order of the messages.      *)
LEMMA GeneratedInOrder ==
  ASSUME SlotInv, hash \in Hashes, main = "over", stage = "generate"
  PROVE  ListsOnce(entries, EntriesOfAll) /\ OrderedBelow(entries, 1)
  <1>1. options \in OptionRecords
    BY DEF SlotInv, PlacesOK
  <1>2. Domain \in Nat /\ Values = 0..(Domain - 1)
    <2>1. options.first_byte_count \in Nat /\ Radix \in Nat
      BY <1>1, OptionsAssumption, RadixAssumption
    <2>. QED
      BY <2>1 DEF Domain, Values
  <1>3. \A value \in Values : entries[value + 1] = EntryOf(value)
    <2>1. finished = 0..(options.first_byte_count - 1)
      BY OverMeansDone DEF SlotInv, AllDoneWhenOver, Items, PlacesOK
    <2>2. \A value \in Values : First(value) \in finished
      BY <1>1, <2>1, MessagesByFirstSymbol
    <2>. QED
      BY <2>2 DEF SlotInv, SlotsOK, Past
  <1>4. entries = [n \in 1..Domain |-> entries[n]]
    BY DEF SlotInv, SlotsOK
  <1>5. ASSUME NEW n \in 1..Domain
        PROVE  /\ n - 1 \in Values /\ entries[n] = EntryOf(n - 1)
               /\ entries[n] \in EntriesOfAll /\ entries[n].message = n - 1
    <2>1. n - 1 \in Values /\ (n - 1) + 1 = n
      BY <1>2
    <2>2. entries[n] = EntryOf(n - 1)
      BY <1>3, <2>1
    <2>3. EntryOf(n - 1).message = n - 1
      BY DEF EntryOf
    <2>. QED
      BY <2>1, <2>2, <2>3 DEF EntriesOfAll
  <1>6. ListsOnce(entries, EntriesOfAll)
    <2>1. entries \in [1..Domain -> EntriesOfAll]
      BY <1>4, <1>5
    <2>2. entries \in Seq(EntriesOfAll) /\ DOMAIN entries = 1..Domain
      BY <1>2, <2>1, SeqDef
    <2>3. ASSUME NEW e \in EntriesOfAll PROVE \E n \in DOMAIN entries : entries[n] = e
      <3>1. PICK value \in Values : e = EntryOf(value)
        BY DEF EntriesOfAll
      <3>2. value + 1 \in 1..Domain
        BY <1>2
      <3>. QED
        BY <1>3, <2>2, <3>1, <3>2
    <2>4. \A m, n \in DOMAIN entries : entries[m] = entries[n] => m = n
      <3>. SUFFICES ASSUME NEW m \in 1..Domain, NEW n \in 1..Domain, entries[m] = entries[n]
                    PROVE  m = n
        BY <2>2
      <3>1. m - 1 = n - 1
        BY <1>5
      <3>. QED
        BY <1>2, <3>1
    <2>. QED
      BY <2>2, <2>3, <2>4 DEF ListsOnce
  <1>7. OrderedBelow(entries, 1)
    <2>. SUFFICES ASSUME NEW m \in 1..Domain, NEW n \in 1..Domain, m < n
                  PROVE  /\ entries[m].fingerprint % 1 = entries[n].fingerprint % 1
                         /\ entries[m].message < entries[n].message
      BY <1>4 DEF OrderedBelow
    <2>1. entries[m].fingerprint \in Nat /\ entries[n].fingerprint \in Nat
      BY <1>1, <1>5, EntriesAreTyped
    <2>2. entries[m].message = m - 1 /\ entries[n].message = n - 1
      BY <1>5
    <2>. QED
      BY <1>2, <2>1, <2>2
  <1>. QED
    BY <1>6, <1>7

(* One pass more orders them by one digit more.                            *)
LEMMA PassOrders ==
  ASSUME hash \in Hashes, options \in OptionRecords, pass \in Nat,
         NEW list, ListsOnce(list, EntriesOfAll), OrderedBelow(list, Weight[pass])
  PROVE  /\ ListsOnce(SortedBy(list, DigitBefore), EntriesOfAll)
         /\ OrderedBelow(SortedBy(list, DigitBefore), Weight[pass + 1])
  <1>. DEFINE w == Weight[pass]
              sorted == SortedBy(list, DigitBefore)
              D == DOMAIN list
  <1>1. w \in Nat \ {0} /\ DigitBase \in Nat \ {0} /\ Weight[pass + 1] = DigitBase * w
    BY WeightsMultiply, SortAssumption
  <1>2. ASSUME NEW e \in EntriesOfAll
        PROVE  /\ Digit(e) \in Nat /\ e.fingerprint % w \in 0..(w - 1)
               /\ e.fingerprint % (DigitBase * w) = Digit(e) * w + (e.fingerprint % w)
               /\ e.message \in Nat
    <2>1. e.fingerprint \in Nat /\ e.message \in Nat
      BY EntriesAreTyped
    <2>2. PICK f : f = e.fingerprint
      OBVIOUS
    <2>3. f \in Nat
      BY <2>1, <2>2
    <2>4. /\ (f \div w) % DigitBase \in 0..(DigitBase - 1) /\ f % w \in 0..(w - 1)
          /\ f % (DigitBase * w) = ((f \div w) % DigitBase) * w + (f % w)
      <3>. HIDE DEF w
      <3>. QED
        BY <1>1, <2>3, OneDigitMore
    <2>5. Digit(e) = (f \div w) % DigitBase
      BY <2>2 DEF Digit
    <2>. QED
      BY <1>1, <2>1, <2>2, <2>4, <2>5
  <1>3. PICK perm \in [D -> D] :
          /\ sorted = [n \in D |-> list[perm[n]]]
          /\ ListsOnce(sorted, EntriesOfAll)
          /\ Stably(perm, list)
    <2>. HIDE DEF w
    <2>1. \A e \in EntriesOfAll : Digit(e) \in Nat
      BY <1>2
    <2>. QED
      BY <2>1, PassIsStable
  <1>4. \A n \in D : list[n] \in EntriesOfAll
    BY LenProperties, ElementOfSeq DEF ListsOnce
  <1>5. OrderedBelow(sorted, DigitBase * w)
    <2>. SUFFICES ASSUME NEW m \in D, NEW n \in D, m < n
                  PROVE  LET a == list[perm[m]]
                             b == list[perm[n]]
                         IN  \/ a.fingerprint % (DigitBase * w) < b.fingerprint % (DigitBase * w)
                             \/ /\ a.fingerprint % (DigitBase * w) = b.fingerprint % (DigitBase * w)
                                /\ a.message < b.message
      BY <1>3 DEF OrderedBelow
    <2>1. PICK a : a = list[perm[m]]
      OBVIOUS
    <2>2. PICK b : b = list[perm[n]]
      OBVIOUS
    <2>3. a \in EntriesOfAll /\ b \in EntriesOfAll
      BY <1>4, <2>1, <2>2
    <2>4. PICK i, j, x, y \in Nat :
            /\ i = Digit(a) /\ j = Digit(b) /\ x = a.fingerprint % w /\ y = b.fingerprint % w
            /\ x \in 0..(w - 1) /\ y \in 0..(w - 1)
            /\ a.fingerprint % (DigitBase * w) = i * w + x
            /\ b.fingerprint % (DigitBase * w) = j * w + y
      <3>1. \A x \in 0..(w - 1) : x \in Nat
        BY <1>1
      <3>. HIDE DEF w
      <3>. QED
        BY <1>2, <2>3, <3>1
    <2>5. \/ i < j
          \/ i = j /\ perm[m] < perm[n]
      BY <1>3, <2>1, <2>2, <2>4 DEF Stably
    <2>6. CASE i < j
      <3>1. i * w + x < j * w + y
        <4>. HIDE DEF w
        <4>1. i * w + w = (i + 1) * w /\ i * w \in Nat /\ j * w \in Nat
          BY <1>1, <2>4
        <4>2. (i + 1) * w <= j * w
          BY <1>1, <2>4, <2>6
        <4>. QED
          BY <1>1, <2>4, <4>1, <4>2
      <3>. QED
        BY <2>1, <2>2, <2>4, <3>1
    <2>7. CASE i = j /\ perm[m] < perm[n]
      <3>1. \/ x < y
            \/ x = y /\ a.message < b.message
        BY <2>1, <2>2, <2>4, <2>7 DEF OrderedBelow
      <3>2. x < y => i * w + x < j * w + y
        <4>. HIDE DEF w
        <4>1. i * w \in Nat /\ i * w = j * w
          BY <1>1, <2>4, <2>7
        <4>. QED
          BY <2>4, <4>1
      <3>. QED
        BY <2>1, <2>2, <2>4, <2>7, <3>1, <3>2
    <2>. QED
      BY <2>5, <2>6, <2>7
  <1>. QED
    BY <1>1, <1>3, <1>5

(* Behind each pass the entries are in the order of the digits seen.       *)
SortInv ==
  /\ hash \in Hashes
  /\ stage \in {"generate", "sort", "compare", "done"}
  /\ pass \in Nat
  /\ pass = 0 <=> stage = "generate"
  /\ stage = "sort" => pass < Passes
  /\ stage \in {"compare", "done"} => pass = Passes
  /\ stage # "generate" =>
       ListsOnce(entries, EntriesOfAll) /\ OrderedBelow(entries, Weight[pass])

LEMMA InitEstablishesSortInv == Init => SortInv
  BY DEF Init, SortInv

LEMMA SortKeepsSortInv ==
  ASSUME SlotInv, SortInv, Sort
  PROVE  SortInv'
  <1>1. /\ main = "over" /\ stage \in {"generate", "sort"} /\ pass' = pass + 1
        /\ entries' = SortedBy(entries, DigitBefore)
        /\ stage' = IF pass' = Passes THEN "compare" ELSE "sort"
        /\ UNCHANGED <<hash, options>>
    BY DEF Sort
  <1>2. hash \in Hashes /\ options \in OptionRecords /\ pass \in Nat
    BY DEF SortInv, SlotInv, PlacesOK
  <1>3. ListsOnce(entries, EntriesOfAll) /\ OrderedBelow(entries, Weight[pass])
    <2>1. CASE stage = "generate"
      <3>1. pass = 0 /\ Weight[0] = 1
        BY <2>1, WeightsMultiply DEF SortInv
      <3>. QED
        BY <1>1, <1>2, <2>1, <3>1, GeneratedInOrder
    <2>2. CASE stage = "sort"
      BY <2>2 DEF SortInv
    <2>. QED
      BY <1>1, <2>1, <2>2
  <1>4. ListsOnce(entries', EntriesOfAll) /\ OrderedBelow(entries', Weight[pass'])
    BY <1>1, <1>2, <1>3, PassOrders
  <1>5. EntriesOfAll' = EntriesOfAll
    BY <1>1 DEF EntriesOfAll, Values, Domain, EntryOf, ScannedState, PrefixState
  <1>6. pass' \in Nat /\ pass' # 0 /\ (pass' # Passes => pass' < Passes)
    <2>1. pass < Passes /\ Passes \in Nat
      BY <1>1, SortAssumption DEF SortInv
    <2>. QED
      BY <1>1, <1>2, <2>1
  <1>7. /\ OrderedBelow(entries, Weight[pass])' /\ ListsOnce(entries, EntriesOfAll)'
    BY <1>4, <1>5 DEF OrderedBelow, ListsOnce
  <1>. QED
    BY <1>1, <1>2, <1>6, <1>7 DEF SortInv

LEMMA ElsewhereKeepsSortInv ==
  ASSUME SortInv, UNCHANGED <<hash, options, pass>>,
         stage # "generate" => UNCHANGED entries,
         stage' = stage \/ (stage = "compare" /\ stage' = "done")
  PROVE  SortInv'
  <1>1. EntriesOfAll' = EntriesOfAll
    BY DEF EntriesOfAll, Values, Domain, EntryOf, ScannedState, PrefixState
  <1>. QED
    BY <1>1 DEF SortInv, OrderedBelow, ListsOnce

LEMMA NextKeepsSortInv == SlotInv /\ SortInv /\ [Next]_vars => SortInv'
  <1>. SUFFICES ASSUME SlotInv, SortInv, [Next]_vars PROVE SortInv'
    OBVIOUS
  <1>1. CASE (Spawn \/ StartJoining \/ Join \/ Leave) /\ UNCHANGED scanVars
    BY <1>1, ElsewhereKeepsSortInv DEF scanVars
  <1>2. CASE Sort
    BY <1>2, SortKeepsSortInv
  <1>3. CASE Compare \/ Report
    BY <1>3, ElsewhereKeepsSortInv DEF Compare, Report
  <1>4. ASSUME NEW w \in Workers, ClaimFirst(w) \/ FinishFirst(w) PROVE SortInv'
    BY <1>4, ElsewhereKeepsSortInv DEF ClaimFirst, FinishFirst, scanVars
  <1>5. ASSUME NEW w \in Workers, Write(w) PROVE SortInv'
    <2>1. stage = "generate"
      <3>1. worker[w] = "work"
        BY <1>5 DEF Write
      <3>. QED
        BY <3>1, OverMeansDone DEF SlotInv, StageOK, AllDoneWhenOver
    <2>. QED
      BY <1>5, <2>1, ElsewhereKeepsSortInv DEF Write
  <1>6. CASE UNCHANGED vars
    BY <1>6, ElsewhereKeepsSortInv DEF vars, scanVars
  <1>. QED
    BY <1>1, <1>2, <1>3, <1>4, <1>5, <1>6 DEF Next, Caller, Thread, Returned

LEMMA SortInvHolds == Spec => []SortInv
  <1>1. Init /\ [][Next]_vars /\ []SlotInv => []SortInv
    BY InitEstablishesSortInv, NextKeepsSortInv, PTL
  <1>. QED
    BY <1>1, SlotInvHolds, PTL DEF Spec

(* Behind the last pass the array holds the entry of every message, equal  *)
(* fingerprints are next to each other and the smaller message is first,   *)
(* for every fingerprint, every base of the sort and every number of       *)
(* threads that filled the array.                                          *)
THEOREM ArrayIsSorted == Spec => []Sorted
  <1>1. SlotInv /\ SortInv => Sorted
    <2>. SUFFICES ASSUME SlotInv, SortInv, stage \in {"compare", "done"}
                  PROVE  /\ ToSet(entries) = EntriesOfAll
                         /\ \A m, n \in DOMAIN entries :
                              m < n => \/ entries[m].fingerprint < entries[n].fingerprint
                                       \/ /\ entries[m].fingerprint = entries[n].fingerprint
                                          /\ entries[m].message < entries[n].message
      BY DEF Sorted, EntriesOfAll
    <2>1. ListsOnce(entries, EntriesOfAll) /\ OrderedBelow(entries, Weight[Passes])
      BY DEF SortInv
    <2>2. \A n \in DOMAIN entries : entries[n] \in EntriesOfAll
      BY <2>1, LenProperties, ElementOfSeq DEF ListsOnce
    <2>3. ToSet(entries) = EntriesOfAll
      <3>1. ToSet(entries) = {entries[n] : n \in DOMAIN entries}
        BY Zenon DEF ToSet
      <3>. QED
        BY <2>1, <2>2, <3>1 DEF ListsOnce
    <2>4. \A n \in DOMAIN entries :
            entries[n].fingerprint % Weight[Passes] = entries[n].fingerprint
      <3>1. Weight[Passes] \in Nat \ {0}
        BY WeightsMultiply, SortAssumption
      <3>2. \A f \in 0..(Weight[Passes] - 1) : f % Weight[Passes] = f
        <4>. DEFINE w == Weight[Passes]
        <4>1. w \in Nat \ {0}
          BY <3>1
        <4>. HIDE DEF w
        <4>2. \A f \in 0..(w - 1) : f % w = f
          BY <4>1
        <4>. QED
          BY <4>2 DEF w
      <3>3. \A e \in EntriesOfAll : e.fingerprint \in 0..(Weight[Passes] - 1)
        BY EntriesAreTyped DEF SortInv, SlotInv, PlacesOK
      <3>. QED
        BY <2>2, <3>2, <3>3
    <2>. QED
      BY <2>1, <2>3, <2>4 DEF OrderedBelow
  <1>. QED
    BY <1>1, SlotInvHolds, SortInvHolds, PTL

-----------------------------------------------------------------------------
(* What the comparison of the buckets has counted.                         *)

(* The messages in front of a place, their pairs of equal states, their    *)
(* states, and the states of more than one.                                *)
Compared(list, place) == {list[n].message : n \in 1..(place - 1)}

PairsOf(M) == {p \in M \X M : p[1] < p[2] /\ ScannedState(p[1]) = ScannedState(p[2])}
StatesOf(M) == {ScannedState(m) : m \in M}
RepeatedOf(M) == {s \in StatesOf(M) : \E p \in PairsOf(M) : ScannedState(p[1]) = s}

(* The pairs a counter is about, and the counters there are in a phase.    *)
TestFields == {"inherited", "new", "third", "identical", "distinct", "positions", "foldback"}

CountsPair(field, l, r) ==
  CASE field = "inherited" -> Inherited(l, r)
    [] field = "new"       -> ~Inherited(l, r)
    [] field = "third"     -> LocalThird(l, r)
    [] field = "identical" -> LocalThird(l, r) /\ SamePhysicalTrace(l, r)
    [] field = "distinct"  -> LocalThird(l, r) /\ ~SamePhysicalTrace(l, r)
    [] field = "positions" -> ~LocalThird(l, r) /\ DifferingPositions(l, r) > 1
    [] field = "foldback"  -> FoldbackEqual(l, r)

PairsFor(field) == {p \in Values \X Values : CountsPair(field, p[1], p[2])}

IsCounted(field) == field = "foldback" \/ options.phase = "forward"

CountsExactly(M) ==
  /\ summary.pairs = Cardinality(PairsOf(M))
  /\ summary.duplicates = Cardinality(M) - Cardinality(StatesOf(M))
  /\ summary.groups = Cardinality(RepeatedOf(M))
  /\ \A field \in TestFields :
       IsCounted(field) => summary[field] = Cardinality(PairsOf(M) \cap PairsFor(field))

CompareInv ==
  /\ stage \notin {"compare", "done"} => begin = 1 /\ summary = ZeroSummary
  /\ stage \in {"compare", "done"} =>
       /\ DOMAIN summary = DOMAIN ZeroSummary
       /\ begin \in 1..(Len(entries) + 1)
       /\ begin \in 2..Len(entries) =>
            entries[begin - 1].fingerprint # entries[begin].fingerprint
       /\ CountsExactly(Compared(entries, begin))
  /\ stage = "done" => begin = Len(entries) + 1

(* The array that is compared.                                             *)
SortedEntries ==
  /\ Len(entries) \in Nat /\ DOMAIN entries = 1..Len(entries)
  /\ \A n \in 1..Len(entries) :
       /\ entries[n].message \in Values
       /\ entries[n].fingerprint = Fingerprint[ScannedState(entries[n].message)]
       /\ entries[n].fingerprint \in Nat
  /\ \A value \in Values : \E n \in 1..Len(entries) : entries[n].message = value
  /\ \A m, n \in 1..Len(entries) :
       m < n => \/ entries[m].fingerprint < entries[n].fingerprint
                \/ /\ entries[m].fingerprint = entries[n].fingerprint
                   /\ entries[m].message < entries[n].message

LEMMA ValuesAreNumbers ==
  ASSUME options \in OptionRecords
  PROVE  /\ Domain \in Nat \ {0} /\ Values = 0..(Domain - 1)
         /\ Values \subseteq Nat /\ IsFiniteSet(Values) /\ Cardinality(Values) = Domain
  <1>1. Domain \in Nat \ {0}
    BY OptionsAssumption, RadixAssumption DEF Domain
  <1>2. IsFiniteSet(0..(Domain - 1)) /\ Cardinality(0..(Domain - 1)) = Domain
    BY <1>1, FS_Interval
  <1>. QED
    BY <1>1, <1>2 DEF Values

LEMMA ArrayIsArranged ==
  ASSUME SlotInv, SortInv, Sorted, stage \in {"compare", "done"}
  PROVE  SortedEntries
  <1>1. ListsOnce(entries, EntriesOfAll) /\ hash \in Hashes /\ options \in OptionRecords
    BY DEF SortInv, SlotInv, PlacesOK
  <1>2. Len(entries) \in Nat /\ DOMAIN entries = 1..Len(entries)
    BY <1>1, LenProperties DEF ListsOnce
  <1>3. \A n \in 1..Len(entries) : entries[n] \in EntriesOfAll
    BY <1>1, <1>2, ElementOfSeq DEF ListsOnce
  <1>4. \A e \in EntriesOfAll : /\ e.fingerprint \in Nat /\ e.message \in Values
                                /\ e.fingerprint = Fingerprint[ScannedState(e.message)]
    BY <1>1, EntriesAreTyped DEF EntriesOfAll, EntryOf
  <1>5. ASSUME NEW value \in Values PROVE \E n \in 1..Len(entries) : entries[n].message = value
    <2>1. EntryOf(value) \in EntriesOfAll /\ EntryOf(value).message = value
      BY DEF EntriesOfAll, EntryOf
    <2>. QED
      BY <1>1, <1>2, <2>1 DEF ListsOnce
  <1>. QED
    BY <1>2, <1>3, <1>4, <1>5 DEF Sorted, SortedEntries

(* A bucket ends in front of the next fingerprint.                         *)
LEMMA BucketEnds ==
  ASSUME SortedEntries, begin \in 1..Len(entries)
  PROVE  /\ BucketEnd \in begin..Len(entries)
         /\ \A n \in begin..BucketEnd : entries[n].fingerprint = entries[begin].fingerprint
         /\ BucketEnd < Len(entries) =>
              entries[BucketEnd + 1].fingerprint # entries[begin].fingerprint
  <1>. DEFINE L == Len(entries)
              T == {n \in (begin + 1)..(L + 1) :
                      n = L + 1 \/ entries[n].fingerprint # entries[begin].fingerprint}
              Ends(last) ==
                /\ \A n \in begin..last : entries[n].fingerprint = entries[begin].fingerprint
                /\ last < L => entries[last + 1].fingerprint # entries[begin].fingerprint
  <1>1. L \in Nat /\ begin \in Nat
    BY DEF SortedEntries
  <1>2. T \subseteq Nat /\ L + 1 \in T
    BY <1>1
  <1>3. PICK n \in T : \A m \in T : n <= m
    <2>. HIDE DEF T
    <2>. QED
      BY <1>2, LeastNat
  <1>4. n - 1 \in begin..L /\ Ends(n - 1)
    <2>1. n \in (begin + 1)..(L + 1)
      BY <1>3
    <2>2. \A m \in begin..(n - 1) : m = begin \/ m \in (begin + 1)..(L + 1)
      BY <1>1, <2>1
    <2>3. \A m \in begin..(n - 1) : entries[m].fingerprint = entries[begin].fingerprint
      BY <1>1, <1>3, <2>1, <2>2
    <2>4. n - 1 < L => entries[(n - 1) + 1].fingerprint # entries[begin].fingerprint
      BY <1>1, <1>3, <2>1
    <2>. QED
      BY <1>1, <2>1, <2>3, <2>4
  <1>5. BucketEnd = CHOOSE last \in begin..L : Ends(last)
    BY DEF BucketEnd
  <1>. HIDE DEF Ends
  <1>6. BucketEnd \in begin..L /\ Ends(BucketEnd)
    BY <1>4, <1>5, Zenon
  <1>. QED
    BY <1>6 DEF Ends

(* The operator that adds up, over the groups of a bucket.                 *)
LEMMA SumsOverGroups ==
  ASSUME NEW S, IsFiniteSet(S), NEW others, NEW pairs,
         \A g \in S : /\ others[g] = Cardinality(g) - 1 /\ others[g] \in Int
                      /\ pairs[g] = (Cardinality(g) * (Cardinality(g) - 1)) \div 2
                      /\ pairs[g] \in Int
  PROVE  /\ MapThenSumSet(LAMBDA group : Cardinality(group) - 1, S) = SumOver(others, S)
         /\ MapThenSumSet(LAMBDA group : (Cardinality(group) * (Cardinality(group) - 1)) \div 2, S)
              = SumOver(pairs, S)
  <1>1. \A s \in (SUBSET S) \ {{}} : Some(s) \in S
    BY SomeIsMember
  <1>2. MapThenSumSet(LAMBDA group : Cardinality(group) - 1, S) = SumOver(others, S)
    <2>. DEFINE Adds(h) == h = [s \in SUBSET S |->
                                  IF s = {} THEN 0
                                  ELSE (Cardinality(Some(s)) - 1) + h[s \ {Some(s)}]]
                iter == CHOOSE h : Adds(h)
    <2>1. PICK g \in [SUBSET S -> Int] : Sums(g, others, S)
      BY SumsExist
    <2>2. Adds(g)
      <3>1. \A s \in SUBSET S :
              g[s] = IF s = {} THEN 0 ELSE (Cardinality(Some(s)) - 1) + g[s \ {Some(s)}]
        BY <1>1, <2>1 DEF Sums
      <3>. QED
        BY <2>1, <3>1
    <2>3. Adds(iter)
      BY <2>2, Zenon
    <2>4. MapThenSumSet(LAMBDA group : Cardinality(group) - 1, S) = iter[S]
      BY Zenon DEF MapThenSumSet, MapThenFoldSet, Some
    <2>. HIDE DEF iter
    <2>5. Sums(iter, others, S)
      <3>1. \A s \in SUBSET S :
              iter[s] = IF s = {} THEN 0 ELSE (Cardinality(Some(s)) - 1) + iter[s \ {Some(s)}]
        BY <2>3
      <3>. QED
        BY <1>1, <3>1 DEF Sums
    <2>. QED
      BY <2>4, <2>5, SumIs
  <1>3. MapThenSumSet(LAMBDA group : (Cardinality(group) * (Cardinality(group) - 1)) \div 2, S)
          = SumOver(pairs, S)
    <2>. DEFINE Adds(h) == h = [s \in SUBSET S |->
                                  IF s = {} THEN 0
                                  ELSE ((Cardinality(Some(s)) * (Cardinality(Some(s)) - 1)) \div 2)
                                         + h[s \ {Some(s)}]]
                iter == CHOOSE h : Adds(h)
    <2>1. PICK g \in [SUBSET S -> Int] : Sums(g, pairs, S)
      BY SumsExist
    <2>2. Adds(g)
      <3>1. \A s \in SUBSET S :
              g[s] = IF s = {} THEN 0
                     ELSE ((Cardinality(Some(s)) * (Cardinality(Some(s)) - 1)) \div 2)
                            + g[s \ {Some(s)}]
        BY <1>1, <2>1 DEF Sums
      <3>. QED
        BY <2>1, <3>1
    <2>3. Adds(iter)
      BY <2>2, Zenon
    <2>4. MapThenSumSet(LAMBDA group : (Cardinality(group) * (Cardinality(group) - 1)) \div 2, S)
            = iter[S]
      BY Zenon DEF MapThenSumSet, MapThenFoldSet, Some
    <2>. HIDE DEF iter
    <2>5. Sums(iter, pairs, S)
      <3>1. \A s \in SUBSET S :
              iter[s] = IF s = {} THEN 0
                        ELSE ((Cardinality(Some(s)) * (Cardinality(Some(s)) - 1)) \div 2)
                               + iter[s \ {Some(s)}]
        BY <2>3
      <3>. QED
        BY <1>1, <3>1 DEF Sums
    <2>. QED
      BY <2>4, <2>5, SumIs
  <1>. QED
    BY <1>2, <1>3

(* What one bucket adds, in terms of its messages.                         *)
InBucket == {entries[n].message : n \in begin..BucketEnd}

LEMMA BucketOfMessages ==
  ASSUME SortedEntries, options \in OptionRecords, begin \in 1..Len(entries)
  PROVE  /\ InBucket \in SUBSET Values /\ IsFiniteSet(InBucket)
         /\ IsFiniteSet(begin..BucketEnd) /\ begin..BucketEnd \subseteq Int
         /\ \A m, n \in begin..BucketEnd :
              (m < n <=> entries[m].message < entries[n].message)
              /\ (entries[m].message = entries[n].message => m = n)
         /\ Cardinality(InBucket) = Cardinality(begin..BucketEnd)
  <1>. DEFINE P == begin..BucketEnd
              message == [n \in P |-> entries[n].message]
  <1>1. P \subseteq 1..Len(entries) /\ Len(entries) \in Nat /\ BucketEnd \in Int /\ begin \in Int
    BY BucketEnds DEF SortedEntries
  <1>2. IsFiniteSet(P) /\ P \subseteq Int
    BY <1>1, FS_Interval
  <1>3. InBucket = {message[n] : n \in P} /\ \A n \in P : message[n] = entries[n].message
    BY DEF InBucket
  <1>4. \A n \in P : message[n] \in Values /\ message[n] \in Int
    <2>1. \A n \in P : entries[n].message \in Values
      BY <1>1 DEF SortedEntries
    <2>. QED
      BY <1>3, <2>1, ValuesAreNumbers
  <1>5. \A m, n \in P : m < n => message[m] < message[n]
    <2>1. \A n \in P : entries[n].fingerprint = entries[begin].fingerprint
      BY BucketEnds
    <2>2. \A n \in P : entries[n].fingerprint \in Nat /\ n \in 1..Len(entries)
      BY <1>1 DEF SortedEntries
    <2>3. \A m, n \in P : ~(entries[m].fingerprint < entries[n].fingerprint)
      BY <2>1, <2>2
    <2>. HIDE DEF P, message
    <2>. QED
      BY <1>3, <2>2, <2>3 DEF SortedEntries
  <1>. HIDE DEF P, message
  <1>6. \A m, n \in P : (m < n <=> message[m] < message[n]) /\ (message[m] = message[n] => m = n)
    BY <1>2, <1>4, <1>5
  <1>7. IsFiniteSet(InBucket) /\ Cardinality(InBucket) = Cardinality(P)
    <2>1. \A n \in P : message[n] \in InBucket
      BY <1>3
    <2>2. \A v \in InBucket : \E n \in P : message[n] = v
      BY <1>3
    <2>3. \A m, n \in P : message[m] = message[n] => m = n
      BY <1>6
    <2>. QED
      BY <1>2, <2>1, <2>2, <2>3, SameNumber
  <1>. QED
    BY <1>2, <1>3, <1>4, <1>6, <1>7 DEF P

LEMMA BucketIsCounted ==
  ASSUME SortedEntries, options \in OptionRecords, begin \in 1..Len(entries)
  PROVE  LET counted == Counted(begin..BucketEnd)
         IN  /\ DOMAIN counted = DOMAIN ZeroSummary
             /\ counted.pairs = Cardinality(PairsOf(InBucket))
             /\ counted.duplicates = Cardinality(InBucket) - Cardinality(StatesOf(InBucket))
             /\ counted.groups = Cardinality(RepeatedOf(InBucket))
             /\ \A field \in TestFields :
                  IsCounted(field) =>
                    counted[field] = Cardinality(PairsOf(InBucket) \cap PairsFor(field))
  <1>. DEFINE P == begin..BucketEnd
              message == [n \in P |-> entries[n].message]
              state == [n \in P |-> ScannedState(entries[n].message)]
              groups == Groups(P)
              found == UNION {PairsIn(group) : group \in groups}
              others == [g \in groups |-> Cardinality(g) - 1]
              pairs == [g \in groups |-> (Cardinality(g) * (Cardinality(g) - 1)) \div 2]
              B == InBucket
  <1>1. /\ B \in SUBSET Values /\ IsFiniteSet(B) /\ IsFiniteSet(P) /\ P \subseteq Int
        /\ \A m, n \in P : (m < n <=> message[m] < message[n]) /\ (message[m] = message[n] => m = n)
        /\ Cardinality(B) = Cardinality(P)
    BY BucketOfMessages
  <1>2. \A n \in P : message[n] = entries[n].message /\ state[n] = ScannedState(message[n])
    OBVIOUS
  <1>3. B = {message[n] : n \in P} /\ ClassNames(P, state) = StatesOf(B)
    BY DEF ClassNames, InBucket, StatesOf
  <1>4. groups = Shared(P, state)
    <2>. DEFINE Alike(m) == {n \in P : ScannedState(entries[n].message)
                                         = ScannedState(entries[m].message)}
                Alike2(m) == {n \in P : state[n] = state[m]}
    <2>1. \A m \in P : Alike(m) = Alike2(m)
      OBVIOUS
    <2>2. groups = {g \in {Alike(m) : m \in P} : Cardinality(g) > 1}
      BY DEF Groups
    <2>3. Shared(P, state) = {g \in {Alike2(m) : m \in P} : Cardinality(g) > 1}
      BY DEF Shared, ClassesOf
    <2>4. {Alike(m) : m \in P} = {Alike2(m) : m \in P}
      <3>. HIDE DEF Alike, Alike2, P
      <3>. QED
        BY <2>1
    <2>. QED
      BY <2>2, <2>3, <2>4
  <1>5. \A g \in groups : /\ others[g] = Cardinality(g) - 1
                          /\ pairs[g] = (Cardinality(g) * (Cardinality(g) - 1)) \div 2
    OBVIOUS
  <1>6. /\ Counted(P).pairs =
             MapThenSumSet(LAMBDA group : (Cardinality(group) * (Cardinality(group) - 1)) \div 2,
                           groups)
        /\ Counted(P).duplicates = MapThenSumSet(LAMBDA group : Cardinality(group) - 1, groups)
        /\ Counted(P).groups = Cardinality(groups)
        /\ DOMAIN Counted(P) = DOMAIN ZeroSummary
    BY DEF Counted, ZeroSummary
  <1>7. /\ options.phase = "forward" =>
             /\ Counted(P).inherited = Cardinality({p \in found : Inherited(p[1], p[2])})
             /\ Counted(P).new = Cardinality({p \in found : ~Inherited(p[1], p[2])})
             /\ Counted(P).third = Cardinality({p \in found : LocalThird(p[1], p[2])})
             /\ Counted(P).identical =
                  Cardinality({p \in found : LocalThird(p[1], p[2]) /\ SamePhysicalTrace(p[1], p[2])})
             /\ Counted(P).distinct =
                  Cardinality({p \in found : LocalThird(p[1], p[2]) /\ ~SamePhysicalTrace(p[1], p[2])})
             /\ Counted(P).positions =
                  Cardinality({p \in found : /\ ~LocalThird(p[1], p[2])
                                             /\ DifferingPositions(p[1], p[2]) > 1})
        /\ Counted(P).foldback =
             IF options.phase = "foldback" THEN Cardinality(found)
             ELSE Cardinality({p \in found : FoldbackEqual(p[1], p[2])})
    BY DEF Counted
  <1>8. \A group : PairsIn(group) = {<<entries[m[1]].message, entries[m[2]].message>> :
                                       m \in PairsBelow(group)}
    BY DEF PairsIn, PairsBelow
  <1>. HIDE DEF P, message, state, groups, others, pairs, B
  <1>9. /\ \A g \in groups : g \in SUBSET P /\ PairsBelow(g) \subseteq TwinsBelow(P, state)
        /\ \A p \in TwinsBelow(P, state) : \E g \in groups : p \in PairsBelow(g)
    <2>1. FiniteInts(P)
      BY <1>1 DEF FiniteInts
    <2>2. /\ \A g \in Shared(P, state) : g \in SUBSET P /\ PairsBelow(g) \subseteq TwinsBelow(P, state)
          /\ \A p \in TwinsBelow(P, state) : \E g \in Shared(P, state) : p \in PairsBelow(g)
      BY <2>1, TwinsByClass
    <2>. QED
      BY <1>4, <2>2
  <1>10. \A p \in TwinsBelow(P, state) : /\ p[1] \in P /\ p[2] \in P
                                    /\ <<message[p[1]], message[p[2]]>> \in PairsOf(B)
    <2>. SUFFICES ASSUME NEW p \in TwinsBelow(P, state)
                  PROVE  /\ p[1] \in P /\ p[2] \in P
                         /\ <<message[p[1]], message[p[2]]>> \in PairsOf(B)
      OBVIOUS
    <2>1. p[1] \in P /\ p[2] \in P /\ p[1] < p[2] /\ state[p[1]] = state[p[2]]
      BY DEF TwinsBelow
    <2>. QED
      BY <1>1, <1>2, <1>3, <2>1 DEF PairsOf
  <1>11. \A q \in PairsOf(B) : \E p \in TwinsBelow(P, state) : q = <<message[p[1]], message[p[2]]>>
    <2>. SUFFICES ASSUME NEW q \in PairsOf(B)
                  PROVE  \E p \in TwinsBelow(P, state) : q = <<message[p[1]], message[p[2]]>>
      OBVIOUS
    <2>1. /\ q = <<q[1], q[2]>> /\ q[1] \in B /\ q[2] \in B /\ q[1] < q[2]
          /\ ScannedState(q[1]) = ScannedState(q[2])
      BY DEF PairsOf
    <2>2. PICK m \in P, n \in P : q[1] = message[m] /\ q[2] = message[n]
      BY <1>3, <2>1
    <2>3. m < n /\ state[m] = state[n]
      BY <1>1, <1>2, <2>1, <2>2
    <2>4. <<m, n>> \in TwinsBelow(P, state)
      BY <2>3 DEF TwinsBelow
    <2>. QED
      BY <2>1, <2>2, <2>4
  <1>12. found = PairsOf(B)
    <2>1. ASSUME NEW q \in found PROVE q \in PairsOf(B)
      <3>1. PICK g \in groups : q \in PairsIn(g)
        BY <2>1
      <3>2. q \in {<<entries[m[1]].message, entries[m[2]].message>> : m \in PairsBelow(g)}
        BY <1>8, <3>1
      <3>3. PICK p \in PairsBelow(g) : q = <<entries[p[1]].message, entries[p[2]].message>>
        BY <3>2
      <3>4. p \in TwinsBelow(P, state)
        BY <1>9
      <3>. QED
        BY <1>2, <1>10, <3>3, <3>4
    <2>2. ASSUME NEW q \in PairsOf(B) PROVE q \in found
      <3>1. PICK p \in TwinsBelow(P, state) : q = <<message[p[1]], message[p[2]]>>
        BY <1>11
      <3>2. PICK g \in groups : p \in PairsBelow(g)
        BY <1>9
      <3>3. q \in PairsIn(g)
        BY <1>2, <1>8, <1>10, <3>1, <3>2
      <3>. QED
        BY <3>3
    <2>. HIDE DEF found
    <2>. QED
      BY <2>1, <2>2
  <1>. HIDE DEF found
  <1>13. /\ IsFiniteSet(Shared(P, state)) /\ IsFiniteSet(TwinsBelow(P, state))
         /\ \A g \in Shared(P, state) : others[g] \in Int /\ pairs[g] \in Int
         /\ SumOver(others, Shared(P, state)) = Cardinality(P) - Cardinality(ClassNames(P, state))
         /\ SumOver(pairs, Shared(P, state)) = Cardinality(TwinsBelow(P, state))
         /\ Cardinality(Shared(P, state))
              = Cardinality({v \in ClassNames(P, state) : \E p \in TwinsBelow(P, state) : state[p[1]] = v})
    <2>1. PerClass(P, state, others, pairs)
      BY <1>4, <1>5 DEF PerClass
    <2>2. FiniteInts(P)
      BY <1>1 DEF FiniteInts
    <2>3. IsFiniteSet(Shared(P, state)) /\ IsFiniteSet(TwinsBelow(P, state))
      BY <2>1, <2>2, CountByClass
    <2>4. \A g \in Shared(P, state) : others[g] \in Int /\ pairs[g] \in Int
      BY <2>1, <2>2, CountByClass
    <2>5. /\ SumOver(others, Shared(P, state)) = Cardinality(P) - Cardinality(ClassNames(P, state))
          /\ SumOver(pairs, Shared(P, state)) = Cardinality(TwinsBelow(P, state))
      BY <2>1, <2>2, CountByClass
    <2>6. Cardinality(Shared(P, state))
            = Cardinality({v \in ClassNames(P, state) : \E p \in TwinsBelow(P, state) : state[p[1]] = v})
      BY <2>1, <2>2, CountByClass
    <2>. QED
      BY <2>3, <2>4, <2>5, <2>6
  <1>14. /\ MapThenSumSet(LAMBDA group : Cardinality(group) - 1, groups) = SumOver(others, groups)
         /\ MapThenSumSet(LAMBDA group : (Cardinality(group) * (Cardinality(group) - 1)) \div 2, groups)
              = SumOver(pairs, groups)
    BY <1>4, <1>5, <1>13, SumsOverGroups, Zenon
  <1>15. Cardinality(PairsOf(B)) = Cardinality(TwinsBelow(P, state))
    <2>. DEFINE f == [p \in TwinsBelow(P, state) |-> <<message[p[1]], message[p[2]]>>]
    <2>1. \A p \in TwinsBelow(P, state) : f[p] \in PairsOf(B)
      BY <1>10
    <2>2. \A p, q \in TwinsBelow(P, state) : f[p] = f[q] => p = q
      <3>. SUFFICES ASSUME NEW p \in TwinsBelow(P, state), NEW q \in TwinsBelow(P, state), f[p] = f[q]
                    PROVE  p = q
        OBVIOUS
      <3>1. p = <<p[1], p[2]>> /\ q = <<q[1], q[2]>>
        BY DEF TwinsBelow
      <3>2. message[p[1]] = message[q[1]] /\ message[p[2]] = message[q[2]]
        OBVIOUS
      <3>3. p[1] = q[1] /\ p[2] = q[2]
        BY <1>1, <1>10, <3>2
      <3>. QED
        BY <3>1, <3>3
    <2>3. \A q \in PairsOf(B) : \E p \in TwinsBelow(P, state) : f[p] = q
      BY <1>11
    <2>. HIDE DEF f
    <2>. QED
      BY <1>13, <2>1, <2>2, <2>3, SameNumber
  <1>16. {v \in ClassNames(P, state) : \E p \in TwinsBelow(P, state) : state[p[1]] = v} = RepeatedOf(B)
    <2>1. ASSUME NEW v, NEW p \in TwinsBelow(P, state), state[p[1]] = v
          PROVE  \E q \in PairsOf(B) : ScannedState(q[1]) = v
      BY <1>2, <1>10, <2>1
    <2>2. ASSUME NEW q \in PairsOf(B)
          PROVE  \E p \in TwinsBelow(P, state) : state[p[1]] = ScannedState(q[1])
      BY <1>2, <1>10, <1>11
    <2>. QED
      BY <1>3, <2>1, <2>2 DEF RepeatedOf
  <1>17. PairsOf(B) \subseteq Values \X Values
    BY <1>1 DEF PairsOf
  <1>18. options.phase \in {"forward", "foldback"}
    BY OptionsAssumption
  <1>19. \A field \in TestFields :
           IsCounted(field) => Counted(P)[field] = Cardinality(PairsOf(B) \cap PairsFor(field))
    <2>. DEFINE F == PairsOf(B)
    <2>1. /\ {p \in F : Inherited(p[1], p[2])} = F \cap PairsFor("inherited")
          /\ {p \in F : ~Inherited(p[1], p[2])} = F \cap PairsFor("new")
          /\ {p \in F : LocalThird(p[1], p[2])} = F \cap PairsFor("third")
          /\ {p \in F : LocalThird(p[1], p[2]) /\ SamePhysicalTrace(p[1], p[2])}
               = F \cap PairsFor("identical")
          /\ {p \in F : LocalThird(p[1], p[2]) /\ ~SamePhysicalTrace(p[1], p[2])}
               = F \cap PairsFor("distinct")
          /\ {p \in F : ~LocalThird(p[1], p[2]) /\ DifferingPositions(p[1], p[2]) > 1}
               = F \cap PairsFor("positions")
          /\ {p \in F : FoldbackEqual(p[1], p[2])} = F \cap PairsFor("foldback")
      BY <1>17 DEF PairsFor, CountsPair
    <2>2. options.phase = "foldback" => F \cap PairsFor("foldback") = F
      BY <1>17 DEF PairsFor, CountsPair, PairsOf, ScannedState, FoldbackEqual
    <2>. QED
      BY <1>7, <1>12, <1>18, <2>1, <2>2 DEF TestFields, IsCounted
  <1>. QED
    BY <1>1, <1>3, <1>4, <1>6, <1>13, <1>14, <1>15, <1>16, <1>19 DEF P, B

LEMMA CountsAreNumbers ==
  ASSUME options \in OptionRecords, NEW S \in SUBSET Values
  PROVE  /\ IsFiniteSet(S) /\ IsFiniteSet(PairsOf(S)) /\ IsFiniteSet(StatesOf(S))
         /\ IsFiniteSet(RepeatedOf(S))
         /\ Cardinality(PairsOf(S)) \in Nat /\ Cardinality(RepeatedOf(S)) \in Nat
         /\ Cardinality(S) - Cardinality(StatesOf(S)) \in Int
         /\ \A field \in TestFields : Cardinality(PairsOf(S) \cap PairsFor(field)) \in Nat
  <1>1. IsFiniteSet(S)
    BY ValuesAreNumbers, FS_Subset
  <1>2. PairsOf(S) \in SUBSET (S \X S)
    BY DEF PairsOf
  <1>3. IsFiniteSet(PairsOf(S))
    BY <1>1, <1>2, FS_Product, FS_Subset
  <1>4. IsFiniteSet(StatesOf(S))
    <2>. DEFINE f == [m \in S |-> ScannedState(m)]
    <2>1. f \in Surjection(S, StatesOf(S))
      BY DEF Surjection, StatesOf
    <2>. HIDE DEF f
    <2>. QED
      BY <1>1, <2>1, FS_Surjection
  <1>5. IsFiniteSet(RepeatedOf(S))
    <2>1. RepeatedOf(S) \in SUBSET StatesOf(S)
      BY DEF RepeatedOf
    <2>. QED
      BY <1>4, <2>1, FS_Subset
  <1>6. \A field \in TestFields : Cardinality(PairsOf(S) \cap PairsFor(field)) \in Nat
    BY <1>3, FS_Intersection, FS_CardinalityType
  <1>7. Cardinality(S) \in Nat /\ Cardinality(StatesOf(S)) \in Nat
    BY <1>1, <1>4, FS_CardinalityType
  <1>. QED
    BY <1>1, <1>3, <1>4, <1>5, <1>6, <1>7, FS_CardinalityType

(* Sets of messages that share no state are counted apart.                 *)
LEMMA PartsAdd ==
  ASSUME options \in OptionRecords, NEW M \in SUBSET Values, NEW B \in SUBSET Values,
         \A m \in M, b \in B : ScannedState(m) # ScannedState(b)
  PROVE  /\ Cardinality(PairsOf(M \cup B)) = Cardinality(PairsOf(M)) + Cardinality(PairsOf(B))
         /\ Cardinality(M \cup B) - Cardinality(StatesOf(M \cup B))
              = (Cardinality(M) - Cardinality(StatesOf(M)))
                  + (Cardinality(B) - Cardinality(StatesOf(B)))
         /\ Cardinality(RepeatedOf(M \cup B))
              = Cardinality(RepeatedOf(M)) + Cardinality(RepeatedOf(B))
         /\ \A field \in TestFields :
              Cardinality(PairsOf(M \cup B) \cap PairsFor(field))
                = Cardinality(PairsOf(M) \cap PairsFor(field))
                    + Cardinality(PairsOf(B) \cap PairsFor(field))
  <1>1. ASSUME NEW S \in SUBSET Values
        PROVE  IsFiniteSet(S) /\ IsFiniteSet(PairsOf(S)) /\ IsFiniteSet(StatesOf(S))
               /\ IsFiniteSet(RepeatedOf(S))
    BY CountsAreNumbers
  <1>2. M \cap B = {}
    OBVIOUS
  <1>3. PairsOf(M \cup B) = PairsOf(M) \cup PairsOf(B) /\ PairsOf(M) \cap PairsOf(B) = {}
    <2>1. ASSUME NEW p \in PairsOf(M \cup B) PROVE p \in PairsOf(M) \cup PairsOf(B)
      <3>1. /\ p \in (M \cup B) \X (M \cup B) /\ p[1] < p[2]
            /\ ScannedState(p[1]) = ScannedState(p[2])
        BY DEF PairsOf
      <3>2. p \in M \X M \/ p \in B \X B
        BY <3>1
      <3>. QED
        BY <3>1, <3>2 DEF PairsOf
    <2>2. \A p \in PairsOf(M) \cup PairsOf(B) : p \in PairsOf(M \cup B)
      BY DEF PairsOf
    <2>3. \A p \in PairsOf(M) : p[1] \in M
      BY DEF PairsOf
    <2>4. \A p \in PairsOf(B) : p[1] \in B
      BY DEF PairsOf
    <2>. QED
      BY <1>2, <2>1, <2>2, <2>3, <2>4
  <1>4. StatesOf(M \cup B) = StatesOf(M) \cup StatesOf(B) /\ StatesOf(M) \cap StatesOf(B) = {}
    BY DEF StatesOf
  <1>5. /\ RepeatedOf(M \cup B) = RepeatedOf(M) \cup RepeatedOf(B)
        /\ RepeatedOf(M) \cap RepeatedOf(B) = {}
    <2>1. \A S : RepeatedOf(S) = {ScannedState(p[1]) : p \in PairsOf(S)}
      BY DEF RepeatedOf, StatesOf, PairsOf
    <2>2. RepeatedOf(M) \subseteq StatesOf(M) /\ RepeatedOf(B) \subseteq StatesOf(B)
      BY DEF RepeatedOf
    <2>. QED
      BY <1>3, <1>4, <2>1, <2>2
  <1>6. M \cup B \in SUBSET Values
    OBVIOUS
  <1>7. Cardinality(PairsOf(M \cup B)) = Cardinality(PairsOf(M)) + Cardinality(PairsOf(B))
    BY <1>1, <1>3, TwoParts
  <1>8. Cardinality(RepeatedOf(M \cup B)) = Cardinality(RepeatedOf(M)) + Cardinality(RepeatedOf(B))
    BY <1>1, <1>5, TwoParts
  <1>9. /\ Cardinality(StatesOf(M \cup B)) = Cardinality(StatesOf(M)) + Cardinality(StatesOf(B))
        /\ Cardinality(StatesOf(M)) \in Nat /\ Cardinality(StatesOf(B)) \in Nat
    BY <1>1, <1>4, TwoParts
  <1>10. /\ Cardinality(M \cup B) = Cardinality(M) + Cardinality(B)
         /\ Cardinality(M) \in Nat /\ Cardinality(B) \in Nat
    BY <1>1, <1>2, TwoParts
  <1>11. ASSUME NEW field \in TestFields
         PROVE  Cardinality(PairsOf(M \cup B) \cap PairsFor(field))
                  = Cardinality(PairsOf(M) \cap PairsFor(field))
                      + Cardinality(PairsOf(B) \cap PairsFor(field))
    <2>. DEFINE X == PairsOf(M) \cap PairsFor(field)
                Y == PairsOf(B) \cap PairsFor(field)
    <2>1. PairsOf(M \cup B) \cap PairsFor(field) = X \cup Y /\ X \cap Y = {}
      BY <1>3
    <2>2. IsFiniteSet(X) /\ IsFiniteSet(Y)
      BY <1>1, FS_Intersection
    <2>. HIDE DEF X, Y
    <2>3. Cardinality(X \cup Y) = Cardinality(X) + Cardinality(Y)
      BY <2>1, <2>2, TwoParts
    <2>. QED
      BY <2>1, <2>3 DEF X, Y
  <1>12. Cardinality(M \cup B) - Cardinality(StatesOf(M \cup B))
           = (Cardinality(M) - Cardinality(StatesOf(M)))
               + (Cardinality(B) - Cardinality(StatesOf(B)))
    BY <1>9, <1>10
  <1>. QED
    BY <1>7, <1>8, <1>11, <1>12

(* A message alone has no pair.                                            *)
LEMMA AloneInBucket ==
  ASSUME options \in OptionRecords, NEW m \in Values
  PROVE  /\ Cardinality(PairsOf({m})) = 0
         /\ Cardinality({m}) - Cardinality(StatesOf({m})) = 0
         /\ Cardinality(RepeatedOf({m})) = 0
         /\ \A field \in TestFields : Cardinality(PairsOf({m}) \cap PairsFor(field)) = 0
  <1>1. PairsOf({m}) = {}
    <2>1. m \in Nat
      BY ValuesAreNumbers
    <2>2. \A p \in {m} \X {m} : p[1] = m /\ p[2] = m
      OBVIOUS
    <2>. QED
      BY <2>1, <2>2 DEF PairsOf
  <1>2. RepeatedOf({m}) = {} /\ StatesOf({m}) = {ScannedState(m)}
    BY <1>1 DEF RepeatedOf, StatesOf
  <1>3. Cardinality({m}) = 1 /\ Cardinality({ScannedState(m)}) = 1
    BY FS_Singleton
  <1>4. \A field \in TestFields : PairsOf({m}) \cap PairsFor(field) = {}
    BY <1>1
  <1>. QED
    BY <1>1, <1>2, <1>3, <1>4, FS_EmptySet

(* One bucket more.                                                        *)
LEMMA BucketBehind ==
  ASSUME SortedEntries, options \in OptionRecords, begin \in 1..Len(entries),
         begin \in 2..Len(entries) =>
           entries[begin - 1].fingerprint # entries[begin].fingerprint
  PROVE  /\ Compared(entries, begin) \in SUBSET Values
         /\ Compared(entries, BucketEnd + 1) = Compared(entries, begin) \cup InBucket
         /\ \A m \in Compared(entries, begin), b \in InBucket : ScannedState(m) # ScannedState(b)
  <1>1. /\ BucketEnd \in begin..Len(entries)
        /\ \A n \in begin..BucketEnd : entries[n].fingerprint = entries[begin].fingerprint
    BY BucketEnds
  <1>2. Len(entries) \in Nat /\ begin \in Nat /\ BucketEnd \in Nat
    BY <1>1 DEF SortedEntries
  <1>3. Compared(entries, begin) \in SUBSET Values
    <2>1. 1..(begin - 1) \subseteq 1..Len(entries)
      BY <1>2
    <2>. QED
      BY <2>1 DEF Compared, SortedEntries
  <1>4. Compared(entries, BucketEnd + 1) = Compared(entries, begin) \cup InBucket
    <2>1. 1..((BucketEnd + 1) - 1) = (1..(begin - 1)) \cup (begin..BucketEnd)
      BY <1>1, <1>2
    <2>. QED
      BY <2>1 DEF Compared, InBucket
  <1>5. ASSUME NEW m \in 1..(begin - 1), NEW n \in begin..BucketEnd
        PROVE  ScannedState(entries[m].message) # ScannedState(entries[n].message)
    <2>1. /\ m \in 1..Len(entries) /\ n \in 1..Len(entries) /\ begin - 1 \in 1..Len(entries)
          /\ begin \in 2..Len(entries) /\ begin - 1 < begin
          /\ m = begin - 1 \/ m < begin - 1
      BY <1>1, <1>2
    <2>2. entries[begin - 1].fingerprint < entries[begin].fingerprint
      BY <2>1 DEF SortedEntries
    <2>3. m < begin - 1 => \/ entries[m].fingerprint < entries[begin - 1].fingerprint
                           \/ entries[m].fingerprint = entries[begin - 1].fingerprint
      BY <2>1 DEF SortedEntries
    <2>4. /\ entries[m].fingerprint \in Nat /\ entries[begin - 1].fingerprint \in Nat
          /\ entries[begin].fingerprint \in Nat
          /\ entries[m].fingerprint = Fingerprint[ScannedState(entries[m].message)]
          /\ entries[n].fingerprint = Fingerprint[ScannedState(entries[n].message)]
      BY <2>1 DEF SortedEntries
    <2>5. entries[m].fingerprint < entries[begin].fingerprint
      BY <2>1, <2>2, <2>3, <2>4
    <2>6. entries[m].fingerprint # entries[n].fingerprint
      BY <1>1, <2>4, <2>5
    <2>. QED
      BY <2>4, <2>6
  <1>. QED
    BY <1>3, <1>4, <1>5 DEF Compared, InBucket

(* Nothing that is counted depends on the loop.                            *)
LEMMA PairsStay ==
  ASSUME UNCHANGED <<hash, options>>
  PROVE  /\ \A M : /\ PairsOf(M)' = PairsOf(M) /\ StatesOf(M)' = StatesOf(M)
                   /\ RepeatedOf(M)' = RepeatedOf(M)
         /\ \A field \in TestFields :
              PairsFor(field)' = PairsFor(field) /\ (IsCounted(field)' <=> IsCounted(field))
  <1>1. \A m : ScannedState(m)' = ScannedState(m) /\ PrefixState(m)' = PrefixState(m)
    BY DEF ScannedState, PrefixState
  <1>2. \A l, r : /\ Inherited(l, r)' <=> Inherited(l, r)
                  /\ SamePhysicalTrace(l, r)' <=> SamePhysicalTrace(l, r)
                  /\ FoldbackEqual(l, r)' <=> FoldbackEqual(l, r)
    <2>1. \A l, r : Inherited(l, r)' <=> Inherited(l, r)
      BY <1>1, Zenon DEF Inherited
    <2>2. \A l, r : SamePhysicalTrace(l, r)' <=> SamePhysicalTrace(l, r)
      <3>1. \A l, r : SamePhysicalTrace(l, r)'
                       <=> hash.path[PrefixState(l)'][DecodeMessage(l)[3]]
                             = hash.path[PrefixState(l)'][DecodeMessage(r)[3]]
        BY Zenon DEF SamePhysicalTrace
      <3>. QED
        BY <1>1, <3>1, Zenon DEF SamePhysicalTrace
    <2>3. \A l, r : FoldbackEqual(l, r)' <=> FoldbackEqual(l, r)
      BY Zenon DEF FoldbackEqual
    <2>. QED
      BY <2>1, <2>2, <2>3
  <1>3. ASSUME NEW field \in TestFields, NEW l, NEW r
        PROVE  CountsPair(field, l, r)' <=> CountsPair(field, l, r)
    <2>1. /\ LocalThird(l, r)' <=> LocalThird(l, r)
          /\ DifferingPositions(l, r)' = DifferingPositions(l, r)
      BY DEF LocalThird, DifferingPositions, DecodeMessage
    <2>2. CASE field \in {"inherited", "new"}
      BY <1>2, <2>2 DEF CountsPair
    <2>3. CASE field \in {"third", "positions"}
      BY <2>1, <2>3 DEF CountsPair
    <2>4. CASE field \in {"identical", "distinct"}
      BY <1>2, <2>1, <2>4 DEF CountsPair
    <2>5. CASE field = "foldback"
      BY <1>2, <2>5 DEF CountsPair
    <2>. QED
      BY <2>2, <2>3, <2>4, <2>5 DEF TestFields
  <1>4. Values' = Values
    BY DEF Values, Domain
  <1>5. \A field \in TestFields : PairsFor(field)' = PairsFor(field)
    BY <1>3, <1>4 DEF PairsFor
  <1>6. \A M : PairsOf(M)' = PairsOf(M) /\ StatesOf(M)' = StatesOf(M)
    BY <1>1 DEF PairsOf, StatesOf
  <1>7. \A M : RepeatedOf(M)' = RepeatedOf(M)
    BY <1>1, <1>6 DEF RepeatedOf
  <1>. QED
    BY <1>5, <1>6, <1>7 DEF IsCounted

LEMMA CountsStay ==
  ASSUME UNCHANGED <<hash, options>>, NEW M,
         /\ summary'.pairs = Cardinality(PairsOf(M))
         /\ summary'.duplicates = Cardinality(M) - Cardinality(StatesOf(M))
         /\ summary'.groups = Cardinality(RepeatedOf(M))
         /\ \A field \in TestFields :
              IsCounted(field) => summary'[field] = Cardinality(PairsOf(M) \cap PairsFor(field))
  PROVE  CountsExactly(M)'
  <1>1. /\ PairsOf(M)' = PairsOf(M) /\ StatesOf(M)' = StatesOf(M)
        /\ RepeatedOf(M)' = RepeatedOf(M)
    BY PairsStay
  <1>2. ASSUME NEW field \in TestFields
        PROVE  PairsFor(field)' = PairsFor(field) /\ (IsCounted(field)' <=> IsCounted(field))
    BY PairsStay, Zenon
  <1>3. TestFields' = TestFields
    BY DEF TestFields
  <1>4. \A field \in TestFields :
          IsCounted(field)' => summary'[field] = Cardinality(PairsOf(M)' \cap PairsFor(field)')
    BY <1>1, <1>2
  <1>. QED
    BY <1>1, <1>3, <1>4 DEF CountsExactly

LEMMA CompareKeepsCounts ==
  ASSUME SortedEntries, options \in OptionRecords, CompareInv, Compare
  PROVE  CompareInv'
  <1>1. /\ stage = "compare" /\ begin <= Len(entries)
        /\ summary' = IF BucketEnd = begin THEN summary
                      ELSE [field \in DOMAIN summary |->
                              summary[field] + Counted(begin..BucketEnd)[field]]
        /\ begin' = BucketEnd + 1
        /\ UNCHANGED <<hash, options, entries, stage>>
    BY DEF Compare
  <1>2. /\ DOMAIN summary = DOMAIN ZeroSummary
        /\ begin \in 1..Len(entries) /\ Len(entries) \in Nat
        /\ begin \in 2..Len(entries) =>
             entries[begin - 1].fingerprint # entries[begin].fingerprint
        /\ CountsExactly(Compared(entries, begin))
    <2>1. begin \in 1..(Len(entries) + 1)
      BY <1>1 DEF CompareInv
    <2>. QED
      BY <1>1, <2>1 DEF CompareInv, SortedEntries
  <1>. DEFINE M == Compared(entries, begin)
              B == InBucket
              counted == Counted(begin..BucketEnd)
  <1>3. /\ BucketEnd \in begin..Len(entries)
        /\ \A n \in begin..BucketEnd : entries[n].fingerprint = entries[begin].fingerprint
        /\ BucketEnd < Len(entries) =>
             entries[BucketEnd + 1].fingerprint # entries[begin].fingerprint
    BY <1>2, BucketEnds
  <1>4. /\ M \in SUBSET Values /\ B \in SUBSET Values
        /\ Compared(entries, BucketEnd + 1) = M \cup B
        /\ \A m \in M, b \in B : ScannedState(m) # ScannedState(b)
    BY <1>2, BucketBehind, BucketOfMessages
  <1>5. begin' \in 1..(Len(entries) + 1)
        /\ (begin' \in 2..Len(entries) =>
              entries[begin' - 1].fingerprint # entries[begin'].fingerprint)
    <2>1. begin' - 1 = BucketEnd /\ begin' \in 1..(Len(entries) + 1)
      BY <1>1, <1>2, <1>3
    <2>2. BucketEnd \in begin..BucketEnd
      BY <1>2, <1>3
    <2>3. entries[BucketEnd].fingerprint = entries[begin].fingerprint
      BY <1>3, <2>2
    <2>4. begin' \in 2..Len(entries) => BucketEnd < Len(entries)
      BY <1>1, <1>2, <1>3
    <2>. QED
      BY <1>1, <1>3, <2>1, <2>3, <2>4
  <1>. HIDE DEF M, B, counted
  <1>6. /\ summary.pairs = Cardinality(PairsOf(M))
        /\ summary.duplicates = Cardinality(M) - Cardinality(StatesOf(M))
        /\ summary.groups = Cardinality(RepeatedOf(M))
        /\ \A field \in TestFields :
             IsCounted(field) => summary[field] = Cardinality(PairsOf(M) \cap PairsFor(field))
    BY <1>2 DEF CountsExactly, M
  <1>7. /\ Cardinality(PairsOf(M \cup B)) = Cardinality(PairsOf(M)) + Cardinality(PairsOf(B))
        /\ Cardinality(M \cup B) - Cardinality(StatesOf(M \cup B))
             = (Cardinality(M) - Cardinality(StatesOf(M)))
                 + (Cardinality(B) - Cardinality(StatesOf(B)))
        /\ Cardinality(RepeatedOf(M \cup B))
             = Cardinality(RepeatedOf(M)) + Cardinality(RepeatedOf(B))
        /\ \A field \in TestFields :
             Cardinality(PairsOf(M \cup B) \cap PairsFor(field))
               = Cardinality(PairsOf(M) \cap PairsFor(field))
                   + Cardinality(PairsOf(B) \cap PairsFor(field))
    BY <1>4, PartsAdd
  <1>8. /\ DOMAIN summary' = DOMAIN ZeroSummary
        /\ summary'.pairs = Cardinality(PairsOf(M \cup B))
        /\ summary'.duplicates = Cardinality(M \cup B) - Cardinality(StatesOf(M \cup B))
        /\ summary'.groups = Cardinality(RepeatedOf(M \cup B))
        /\ \A field \in TestFields :
             IsCounted(field) => summary'[field] = Cardinality(PairsOf(M \cup B) \cap PairsFor(field))
    <2>1. CASE BucketEnd = begin
      <3>1. begin..BucketEnd = {begin} /\ entries[begin].message \in Values
        BY <1>2, <2>1 DEF SortedEntries
      <3>2. B = {entries[begin].message}
        BY <3>1 DEF B, InBucket
      <3>3. summary' = summary
        BY <1>1, <2>1
      <3>4. /\ Cardinality(PairsOf(B)) = 0
            /\ Cardinality(B) - Cardinality(StatesOf(B)) = 0
            /\ Cardinality(RepeatedOf(B)) = 0
            /\ \A field \in TestFields : Cardinality(PairsOf(B) \cap PairsFor(field)) = 0
        BY <3>1, <3>2, AloneInBucket
      <3>5. \A S : S \in SUBSET Values =>
              /\ Cardinality(PairsOf(S)) \in Int
              /\ Cardinality(S) - Cardinality(StatesOf(S)) \in Int
              /\ Cardinality(RepeatedOf(S)) \in Int
              /\ \A field \in TestFields : Cardinality(PairsOf(S) \cap PairsFor(field)) \in Int
        BY CountsAreNumbers
      <3>6. \A n \in Int : n + 0 = n
        OBVIOUS
      <3>7. /\ Cardinality(PairsOf(M \cup B)) = Cardinality(PairsOf(M))
            /\ Cardinality(M \cup B) - Cardinality(StatesOf(M \cup B))
                 = Cardinality(M) - Cardinality(StatesOf(M))
            /\ Cardinality(RepeatedOf(M \cup B)) = Cardinality(RepeatedOf(M))
        BY <1>4, <1>7, <3>4, <3>5, <3>6
      <3>8. \A field \in TestFields :
              Cardinality(PairsOf(M \cup B) \cap PairsFor(field))
                = Cardinality(PairsOf(M) \cap PairsFor(field))
        BY <1>4, <1>7, <3>4, <3>5, <3>6
      <3>. QED
        BY <1>2, <1>6, <3>3, <3>7, <3>8
    <2>2. CASE BucketEnd # begin
      <3>1. \A field \in DOMAIN ZeroSummary : summary'[field] = summary[field] + counted[field]
        BY <1>1, <1>2, <2>2 DEF counted
      <3>2. DOMAIN summary' = DOMAIN ZeroSummary
        BY <1>1, <1>2, <2>2
      <3>3. /\ counted.pairs = Cardinality(PairsOf(B))
            /\ counted.duplicates = Cardinality(B) - Cardinality(StatesOf(B))
            /\ counted.groups = Cardinality(RepeatedOf(B))
            /\ \A field \in TestFields :
                 IsCounted(field) => counted[field] = Cardinality(PairsOf(B) \cap PairsFor(field))
        BY <1>2, BucketIsCounted DEF counted, B
      <3>4. {"pairs", "duplicates", "groups"} \cup TestFields \subseteq DOMAIN ZeroSummary
        BY DEF TestFields, ZeroSummary
      <3>5. /\ summary'.pairs = summary.pairs + counted.pairs
            /\ summary'.duplicates = summary.duplicates + counted.duplicates
            /\ summary'.groups = summary.groups + counted.groups
            /\ \A field \in TestFields : summary'[field] = summary[field] + counted[field]
        BY <3>1, <3>4
      <3>. QED
        BY <1>6, <1>7, <3>2, <3>3, <3>5
    <2>. QED
      BY <2>1, <2>2
  <1>9. CountsExactly(Compared(entries, begin))'
    <2>1. PICK S : S = M \cup B
      OBVIOUS
    <2>2. Compared(entries, begin)' = S
      BY <1>1, <1>4, <2>1 DEF Compared
    <2>3. CountsExactly(S)'
      BY <1>1, <1>8, <2>1, CountsStay
    <2>. QED
      BY <2>2, <2>3 DEF CountsExactly
  <1>. QED
    BY <1>1, <1>5, <1>8, <1>9 DEF CompareInv, ZeroSummary

LEMMA InitEstablishesCompareInv == Init => CompareInv
  BY DEF Init, CompareInv

(* Nothing has been compared in front of the first place.                  *)
LEMMA NothingCompared ==
  ASSUME options \in OptionRecords, NEW list, begin = 1, summary = ZeroSummary
  PROVE  CountsExactly(Compared(list, begin))
  <1>1. Compared(list, begin) = {}
    <2>1. 1..(1 - 1) = {}
      OBVIOUS
    <2>. QED
      BY <2>1 DEF Compared
  <1>2. PairsOf({}) = {} /\ StatesOf({}) = {} /\ RepeatedOf({}) = {}
    BY DEF PairsOf, StatesOf, RepeatedOf
  <1>3. Cardinality({}) = 0
    BY FS_EmptySet
  <1>4. \A field \in TestFields : summary[field] = 0 /\ PairsOf({}) \cap PairsFor(field) = {}
    BY <1>2 DEF TestFields, ZeroSummary
  <1>5. summary.pairs = 0 /\ summary.duplicates = 0 /\ summary.groups = 0
    BY DEF ZeroSummary
  <1>. QED
    BY <1>1, <1>2, <1>3, <1>4, <1>5 DEF CountsExactly

LEMMA SortKeepsCompareInv ==
  ASSUME SlotInv, SortInv, SortInv', CompareInv, Sort
  PROVE  CompareInv'
  <1>1. /\ stage \in {"generate", "sort"} /\ stage' \in {"compare", "sort"}
        /\ UNCHANGED <<hash, options, begin, summary>>
    BY DEF Sort
  <1>2. begin' = 1 /\ summary' = ZeroSummary /\ options' \in OptionRecords
    BY <1>1 DEF CompareInv, SlotInv, PlacesOK
  <1>3. stage' = "compare" => Len(entries') \in Nat
    BY LenProperties DEF SortInv, ListsOnce
  <1>4. begin = 1 /\ summary = ZeroSummary /\ options \in OptionRecords
    BY <1>1, <1>2
  <1>5. CountsExactly(Compared(entries', begin))
    BY <1>4, NothingCompared
  <1>6. CountsExactly(Compared(entries, begin))'
    <2>1. PICK S : S = Compared(entries', begin)
      OBVIOUS
    <2>2. Compared(entries, begin)' = S
      BY <1>1, <2>1 DEF Compared
    <2>3. CountsExactly(S)
      BY <1>5, <2>1
    <2>4. CountsExactly(S)'
      BY <1>1, <2>3, CountsStay DEF CountsExactly
    <2>. QED
      BY <2>2, <2>4 DEF CountsExactly
  <1>. QED
    BY <1>1, <1>2, <1>3, <1>6 DEF CompareInv, ZeroSummary

LEMMA ElsewhereKeepsCompareInv ==
  ASSUME CompareInv, UNCHANGED <<hash, options, begin, summary>>,
         stage \in {"compare", "done"} => UNCHANGED entries,
         \/ stage' = stage
         \/ stage = "compare" /\ stage' = "done" /\ begin = Len(entries) + 1
  PROVE  CompareInv'
  <1>1. CASE stage \notin {"compare", "done"}
    BY <1>1 DEF CompareInv
  <1>2. CASE stage \in {"compare", "done"}
    <2>1. CountsExactly(Compared(entries, begin)) /\ UNCHANGED <<entries, begin>>
      BY <1>2 DEF CompareInv
    <2>2. CountsExactly(Compared(entries, begin))'
      <3>1. PICK S : S = Compared(entries, begin)
        OBVIOUS
      <3>2. Compared(entries, begin)' = S
        BY <2>1, <3>1 DEF Compared
      <3>3. CountsExactly(S)
        BY <2>1, <3>1
      <3>4. CountsExactly(S)'
        BY <3>3, CountsStay DEF CountsExactly
      <3>. QED
        BY <3>2, <3>4 DEF CountsExactly
    <2>. QED
      BY <1>2, <2>1, <2>2 DEF CompareInv
  <1>. QED
    BY <1>1, <1>2

LEMMA NextKeepsCompareInv ==
  SlotInv /\ SortInv /\ Sorted /\ SortInv' /\ CompareInv /\ [Next]_vars => CompareInv'
  <1>. SUFFICES ASSUME SlotInv, SortInv, Sorted, SortInv', CompareInv, [Next]_vars
                PROVE  CompareInv'
    OBVIOUS
  <1>1. CASE (Spawn \/ StartJoining \/ Join \/ Leave) /\ UNCHANGED scanVars
    BY <1>1, ElsewhereKeepsCompareInv DEF scanVars
  <1>2. CASE Sort
    BY <1>2, SortKeepsCompareInv
  <1>3. CASE Compare
    <2>1. stage = "compare" /\ options \in OptionRecords
      BY <1>3 DEF Compare, SlotInv, PlacesOK
    <2>2. SortedEntries
      BY <2>1, ArrayIsArranged
    <2>. QED
      BY <1>3, <2>1, <2>2, CompareKeepsCounts
  <1>4. CASE Report
    <2>1. /\ stage = "compare" /\ begin > Len(entries) /\ stage' = "done"
          /\ UNCHANGED <<hash, options, entries, begin, summary>>
      BY <1>4 DEF Report
    <2>2. begin \in 1..(Len(entries) + 1) /\ Len(entries) \in Nat
      BY <2>1, ArrayIsArranged DEF CompareInv, SortedEntries
    <2>3. begin = Len(entries) + 1
      BY <2>1, <2>2
    <2>. QED
      BY <2>1, <2>3, ElsewhereKeepsCompareInv
  <1>5. ASSUME NEW w \in Workers, ClaimFirst(w) \/ FinishFirst(w) PROVE CompareInv'
    BY <1>5, ElsewhereKeepsCompareInv DEF ClaimFirst, FinishFirst, scanVars
  <1>6. ASSUME NEW w \in Workers, Write(w) PROVE CompareInv'
    <2>1. stage = "generate"
      <3>1. worker[w] = "work"
        BY <1>6 DEF Write
      <3>. QED
        BY <3>1, OverMeansDone DEF SlotInv, StageOK, AllDoneWhenOver
    <2>. QED
      BY <1>6, <2>1, ElsewhereKeepsCompareInv DEF Write
  <1>7. CASE UNCHANGED vars
    BY <1>7, ElsewhereKeepsCompareInv DEF vars, scanVars
  <1>. QED
    BY <1>1, <1>2, <1>3, <1>4, <1>5, <1>6, <1>7 DEF Next, Caller, Thread, Returned

LEMMA CompareInvHolds == Spec => []CompareInv
  <1>1. Init /\ [][Next]_vars /\ []SlotInv /\ []SortInv /\ []Sorted => []CompareInv
    BY InitEstablishesCompareInv, NextKeepsCompareInv, PTL
  <1>. QED
    BY <1>1, SlotInvHolds, SortInvHolds, ArrayIsSorted, PTL DEF Spec

(* The first two symbols of a message as one number.                       *)
LEMMA SymbolsOfMessages ==
  ASSUME options \in OptionRecords, NEW value \in Values
  PROVE  /\ DecodeMessage(value)[1] \in Nat /\ DecodeMessage(value)[2] \in 0..(Radix - 1)
         /\ DecodeMessage(value)[3] = value % Radix
         /\ value \div Radix = DecodeMessage(value)[1] * Radix + DecodeMessage(value)[2]
         /\ value = (value \div Radix) * Radix + (value % Radix)
  <1>. DEFINE q == value \div Radix
              c == value % Radix
              a == q \div Radix
              b == q % Radix
  <1>1. Radix \in Nat \ {0} /\ value \in Nat
    BY RadixAssumption, ValuesAreNumbers
  <1>2. q \in Nat /\ c \in 0..(Radix - 1) /\ value = q * Radix + c
    BY <1>1
  <1>3. DecodeMessage(value)[1] = value \div (Radix * Radix)
    BY MessagesByFirstSymbol DEF First
  <1>4. DecodeMessage(value)[2] = b /\ DecodeMessage(value)[3] = c
    BY DEF DecodeMessage
  <1>. HIDE DEF q, c
  <1>5. a \in Nat /\ b \in 0..(Radix - 1) /\ q = a * Radix + b
    BY <1>1, <1>2
  <1>. HIDE DEF a, b
  <1>6. value \div (Radix * Radix) = a
    <2>. DEFINE square == Radix * Radix
                r == b * Radix + c
    <2>1. value = a * square + r
      <3>1. q * Radix = a * Radix * Radix + b * Radix
        BY <1>1, <1>5
      <3>2. a * Radix * Radix = a * square
        BY <1>1, <1>5
      <3>. QED
        BY <1>1, <1>2, <1>5, <3>1, <3>2
    <2>2. square \in Nat \ {0}
      BY <1>1
    <2>3. r \in 0..(square - 1)
      <3>1. b * Radix \in Nat /\ b * Radix <= (Radix - 1) * Radix
        BY <1>1, <1>5
      <3>2. (Radix - 1) * Radix = square - Radix
        BY <1>1
      <3>. QED
        BY <1>1, <1>2, <2>2, <3>1, <3>2
    <2>. HIDE DEF square, r
    <2>4. (a * square + r) \div square = a
      BY <1>5, <2>2, <2>3, DivisionIsUnique
    <2>. QED
      BY <2>1, <2>4 DEF square
  <1>. QED
    BY <1>2, <1>3, <1>4, <1>5, <1>6 DEF q, c

(* Two messages share their first two symbols when the numbers of these    *)
(* are one, and then differ in the third.                                  *)
LEMMA ThirdSymbolsDiffer ==
  ASSUME options \in OptionRecords, NEW l \in Values, NEW r \in Values, l # r
  PROVE  /\ LocalThird(l, r) <=> l \div Radix = r \div Radix
         /\ DifferingPositions(l, r) \in Nat \ {0}
  <1>. DEFINE d == DecodeMessage(l)
              e == DecodeMessage(r)
              S == {position \in 1..3 : d[position] # e[position]}
  <1>1. /\ d[1] \in Nat /\ d[2] \in 0..(Radix - 1) /\ d[3] = l % Radix
        /\ l \div Radix = d[1] * Radix + d[2] /\ l = (l \div Radix) * Radix + (l % Radix)
    BY SymbolsOfMessages
  <1>2. /\ e[1] \in Nat /\ e[2] \in 0..(Radix - 1) /\ e[3] = r % Radix
        /\ r \div Radix = e[1] * Radix + e[2] /\ r = (r \div Radix) * Radix + (r % Radix)
    BY SymbolsOfMessages
  <1>3. LocalThird(l, r) <=> d[1] = e[1] /\ d[2] = e[2] /\ d[3] # e[3]
    BY DEF LocalThird
  <1>4. DifferingPositions(l, r) = Cardinality(S)
    BY DEF DifferingPositions
  <1>. HIDE DEF d, e
  <1>5. l \div Radix = r \div Radix => d[1] = e[1] /\ d[2] = e[2]
    <2>1. /\ (d[1] * Radix + d[2]) \div Radix = d[1] /\ (d[1] * Radix + d[2]) % Radix = d[2]
          /\ (e[1] * Radix + e[2]) \div Radix = e[1] /\ (e[1] * Radix + e[2]) % Radix = e[2]
      BY <1>1, <1>2, RadixAssumption, DivisionIsUnique
    <2>. QED
      BY <1>1, <1>2, <2>1
  <1>6. l \div Radix = r \div Radix => d[3] # e[3]
    BY <1>1, <1>2
  <1>7. S # {}
    <2>1. SUFFICES ASSUME S = {} PROVE FALSE
      OBVIOUS
    <2>2. d[1] = e[1] /\ d[2] = e[2] /\ d[3] = e[3]
      <3>1. 1 \in 1..3 /\ 2 \in 1..3 /\ 3 \in 1..3
        OBVIOUS
      <3>. QED
        BY <2>1, <3>1
    <2>. QED
      BY <1>1, <1>2, <1>6, <2>2
  <1>8. Cardinality(S) \in Nat \ {0}
    <2>1. IsFiniteSet(1..3)
      BY FS_Interval, 1 \in Int, 3 \in Int
    <2>2. IsFiniteSet(S)
      BY <2>1, FS_Subset
    <2>. QED
      BY <1>7, <2>2, FS_EmptySet, FS_CardinalityType
  <1>. QED
    BY <1>1, <1>2, <1>3, <1>4, <1>5, <1>6, <1>8

(* Of all pairs of equal states, those with and those without a test.      *)
LEMMA PairsByTest ==
  ASSUME options \in OptionRecords
  PROVE  LET E == PairsOf(Values)
             number(field) == Cardinality(E \cap PairsFor(field))
             rest == {p \in E : p[1] \div Radix # p[2] \div Radix
                                  /\ DifferingPositions(p[1], p[2]) = 1}
         IN  /\ number("inherited") + number("new") = Cardinality(E)
             /\ number("identical") + number("distinct") = number("third")
             /\ number("third") + number("positions") + Cardinality(rest) = Cardinality(E)
  <1>. DEFINE E == PairsOf(Values)
              With(field) == E \cap PairsFor(field)
              rest == {p \in E : p[1] \div Radix # p[2] \div Radix
                                   /\ DifferingPositions(p[1], p[2]) = 1}
  <1>1. IsFiniteSet(E)
    BY CountsAreNumbers
  <1>2. ASSUME NEW p \in E
        PROVE  /\ p \in Values \X Values
               /\ LocalThird(p[1], p[2]) <=> p[1] \div Radix = p[2] \div Radix
               /\ DifferingPositions(p[1], p[2]) \in Nat \ {0}
    <2>1. p \in Values \X Values /\ p[1] < p[2]
      BY DEF PairsOf
    <2>2. p[1] \in Nat /\ p[2] \in Nat /\ p[1] \in Values /\ p[2] \in Values
      BY <2>1, ValuesAreNumbers
    <2>3. p[1] # p[2]
      BY <2>1, <2>2
    <2>. QED
      BY <2>1, <2>2, <2>3, ThirdSymbolsDiffer
  <1>3. ASSUME NEW p \in E
        PROVE  /\ p \in With("inherited") <=> Inherited(p[1], p[2])
               /\ p \in With("new") <=> ~Inherited(p[1], p[2])
               /\ p \in With("third") <=> LocalThird(p[1], p[2])
               /\ p \in With("identical")
                    <=> LocalThird(p[1], p[2]) /\ SamePhysicalTrace(p[1], p[2])
               /\ p \in With("distinct")
                    <=> LocalThird(p[1], p[2]) /\ ~SamePhysicalTrace(p[1], p[2])
               /\ p \in With("positions")
                    <=> ~LocalThird(p[1], p[2]) /\ DifferingPositions(p[1], p[2]) > 1
    BY <1>2 DEF PairsFor, CountsPair
  <1>4. ASSUME NEW p \in E
        PROVE  p \in rest <=> /\ p[1] \div Radix # p[2] \div Radix
                              /\ DifferingPositions(p[1], p[2]) = 1
    OBVIOUS
  <1>5. \A field : With(field) \subseteq E
    OBVIOUS
  <1>6. rest \subseteq E
    OBVIOUS
  <1>. HIDE DEF E, With, rest
  <1>7. /\ With("inherited") \cup With("new") = E /\ With("inherited") \cap With("new") = {}
        /\ With("identical") \cup With("distinct") = With("third")
        /\ With("identical") \cap With("distinct") = {}
    BY <1>3, <1>5
  <1>8. /\ With("third") \cap With("positions") = {}
        /\ (With("third") \cup With("positions")) \cap rest = {}
        /\ (With("third") \cup With("positions")) \cup rest = E
    <2>1. ASSUME NEW p \in E
          PROVE  /\ ~(p \in With("third") /\ p \in With("positions"))
                 /\ ~((p \in With("third") \/ p \in With("positions")) /\ p \in rest)
                 /\ p \in With("third") \/ p \in With("positions") \/ p \in rest
      <3>1. PICK n \in Nat \ {0} : n = DifferingPositions(p[1], p[2])
        BY <1>2
      <3>2. n > 1 \/ n = 1
        OBVIOUS
      <3>. QED
        BY <1>2, <1>3, <1>4, <3>1, <3>2
    <2>. QED
      BY <1>5, <1>6, <2>1
  <1>9. \A S \in SUBSET E : IsFiniteSet(S)
    BY <1>1, FS_Subset
  <1>10. Cardinality(With("inherited")) + Cardinality(With("new")) = Cardinality(E)
    BY <1>5, <1>7, <1>9, TwoParts
  <1>11. Cardinality(With("identical")) + Cardinality(With("distinct"))
           = Cardinality(With("third"))
    BY <1>5, <1>7, <1>9, TwoParts
  <1>12. Cardinality(With("third")) + Cardinality(With("positions")) + Cardinality(rest)
           = Cardinality(E)
    <2>1. Cardinality(With("third") \cup With("positions"))
            = Cardinality(With("third")) + Cardinality(With("positions"))
      BY <1>5, <1>8, <1>9, TwoParts
    <2>2. With("third") \cup With("positions") \subseteq E
      BY <1>5
    <2>3. Cardinality(E)
            = Cardinality(With("third") \cup With("positions")) + Cardinality(rest)
      BY <1>6, <1>8, <1>9, <2>2, TwoParts
    <2>. QED
      BY <2>1, <2>3
  <1>. QED
    BY <1>10, <1>11, <1>12 DEF E, With, rest

(* The numbers that are printed are those of the pairs of equal states:    *)
(* no pair is missed at the end of a bucket, none is counted twice, equal  *)
(* fingerprints of different states add nothing, and the exit status is    *)
(* the existence of a pair the final fold leaves equal, for every          *)
(* fingerprint.                                                            *)
THEOREM SummaryIsExact == Spec => []SummaryExact
  <1>1. SlotInv /\ SortInv /\ Sorted /\ CompareInv => SummaryExact
    <2>. SUFFICES ASSUME SlotInv, SortInv, Sorted, CompareInv, stage = "done"
                  PROVE  SummaryExact
      BY DEF SummaryExact
    <2>1. options \in OptionRecords /\ options.phase \in {"forward", "foldback"}
      BY OptionsAssumption DEF SlotInv, PlacesOK
    <2>2. Compared(entries, begin) = Values
      <3>1. SortedEntries /\ begin = Len(entries) + 1
        BY ArrayIsArranged DEF CompareInv
      <3>2. 1..(begin - 1) = 1..Len(entries)
        BY <3>1 DEF SortedEntries
      <3>. QED
        BY <3>1, <3>2 DEF Compared, SortedEntries
    <2>3. CountsExactly(Values)
      BY <2>2 DEF CompareInv
    <2>4. EqualPairs = PairsOf(Values) /\ StatesReached = StatesOf(Values)
      BY DEF EqualPairs, PairsOf, StatesReached, StatesOf
    <2>5. Cardinality(Values) = Domain
      BY <2>1, ValuesAreNumbers
    <2>. DEFINE With(field) == EqualPairs \cap PairsFor(field)
    <2>6. /\ With("new") = {p \in EqualPairs : ~Inherited(p[1], p[2])}
          /\ With("foldback") = {p \in EqualPairs : FoldbackEqual(p[1], p[2])}
      BY DEF EqualPairs, PairsFor, CountsPair
    <2>7. RepeatedOf(Values) = {state \in StatesReached :
                                  \E p \in EqualPairs : ScannedState(p[1]) = state}
      BY <2>4 DEF RepeatedOf
    <2>8. \A field \in TestFields :
            IsCounted(field) => summary[field] = Cardinality(With(field))
      BY <2>3, <2>4 DEF CountsExactly
    <2>9. /\ summary.pairs = Cardinality(EqualPairs)
          /\ summary.duplicates = Domain - Cardinality(StatesReached)
          /\ summary.groups = Cardinality(RepeatedOf(Values))
      BY <2>3, <2>4, <2>5 DEF CountsExactly
    <2>10. summary.foldback = Cardinality(With("foldback"))
      BY <2>8 DEF TestFields, IsCounted
    <2>11. ASSUME options.phase = "forward"
           PROVE  /\ summary.inherited + summary.new = summary.pairs
                  /\ summary.new = Cardinality(With("new"))
                  /\ summary.identical + summary.distinct = summary.third
                  /\ summary.third + summary.positions
                       + Cardinality({p \in EqualPairs : p[1] \div Radix # p[2] \div Radix
                                                        /\ DifferingPositions(p[1], p[2]) = 1})
                     = summary.pairs
      <3>1. /\ summary.inherited = Cardinality(With("inherited"))
            /\ summary.new = Cardinality(With("new"))
            /\ summary.third = Cardinality(With("third"))
            /\ summary.identical = Cardinality(With("identical"))
            /\ summary.distinct = Cardinality(With("distinct"))
            /\ summary.positions = Cardinality(With("positions"))
        BY <2>8, <2>11 DEF TestFields, IsCounted
      <3>2. /\ Cardinality(With("inherited")) + Cardinality(With("new"))
                 = Cardinality(EqualPairs)
            /\ Cardinality(With("identical")) + Cardinality(With("distinct"))
                 = Cardinality(With("third"))
            /\ Cardinality(With("third")) + Cardinality(With("positions"))
                 + Cardinality({p \in EqualPairs : p[1] \div Radix # p[2] \div Radix
                                                  /\ DifferingPositions(p[1], p[2]) = 1})
               = Cardinality(EqualPairs)
        BY <2>1, <2>4, PairsByTest
      <3>. QED
        BY <2>9, <3>1, <3>2
    <2>12. ExitCode = 1 <=> \E p \in EqualPairs : FoldbackEqual(p[1], p[2])
      <3>1. \A S \in SUBSET EqualPairs : Cardinality(S) = 0 <=> S = {}
        <4>1. IsFiniteSet(EqualPairs)
          BY <2>1, <2>4, CountsAreNumbers
        <4>. QED
          BY <4>1, FS_Subset, FS_EmptySet
      <3>2. options.phase = "foldback" =>
              \A p \in EqualPairs : FoldbackEqual(p[1], p[2])
        BY DEF EqualPairs, ScannedState, FoldbackEqual
      <3>3. CASE options.phase = "foldback"
        <4>1. ExitCode = 1 <=> EqualPairs # {}
          BY <2>9, <3>1, <3>3 DEF ExitCode
        <4>. QED
          BY <3>2, <3>3, <4>1
      <3>4. CASE options.phase = "forward"
        <4>1. ExitCode = 1 <=> With("foldback") # {}
          BY <2>10, <3>1, <3>4 DEF ExitCode
        <4>. QED
          BY <2>6, <4>1
      <3>. QED
        BY <2>1, <3>3, <3>4
    <2>. HIDE DEF With
    <2>. QED
      BY <2>6, <2>7, <2>9, <2>10, <2>11, <2>12 DEF SummaryExact
  <1>. QED
    BY <1>1, SlotInvHolds, SortInvHolds, ArrayIsSorted, CompareInvHolds, PTL

=============================================================================
