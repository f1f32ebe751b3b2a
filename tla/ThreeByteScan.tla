--------------------------- MODULE ThreeByteScan ---------------------------
(***************************************************************************)
(* tools/three_byte_collision.cpp: the exhaustive scan of three-byte       *)
(* messages for equal internal states.  A pool whose items are the first   *)
(* bytes fills one shared array, a slot per message; the caller sorts the  *)
(* array by fingerprint, compares the states behind equal fingerprints and *)
(* counts the pairs it finds.                                              *)
(*                                                                         *)
(* The slots are shared memory: writing one is a step of its own.  What    *)
(* the caller does behind the last join nobody else sees; each pass of the *)
(* sort is one step and each bucket of equal fingerprints is one.          *)
(***************************************************************************)
EXTENDS Pool, Sequences, SequencesExt, Orders

CONSTANTS
  Radix,          (* 256: how many symbols there are                      *)
  Delta,          (* 42: the difference of second bytes counted apart     *)
  DigitBase,      (* 65536: buckets of the radix sort                     *)
  Passes,         (* 4: its passes                                        *)
  Hashes,         (* the hashes scanned                                   *)
  Fingerprint,    (* fast_state_fingerprint64, of each state              *)
  Hardware,       (* std::thread::hardware_concurrency()                  *)
  OptionRecords   (* the command lines                                    *)

Symbols == 0..(Radix - 1)

(* What a digit of a pass of the sort counts.                              *)
Weight[n \in Nat] == IF n = 0 THEN 1 ELSE DigitBase * Weight[n - 1]

ASSUME RadixAssumption == Radix \in Nat \ {0}
ASSUME SortAssumption ==
  /\ DigitBase \in Nat \ {0} /\ Passes \in Nat \ {0}
  /\ \A state \in DOMAIN Fingerprint : Fingerprint[state] \in 0..(Weight[Passes] - 1)
ASSUME HashAssumption ==
  \A h \in Hashes :
    /\ DOMAIN h.behind = Symbols \X Symbols
    /\ DOMAIN h.folded = Symbols \X Symbols \X Symbols
    /\ \A p \in Symbols \X Symbols, s \in Symbols :
         h.absorb[h.behind[p]][s] \in DOMAIN Fingerprint
    /\ \A m \in Symbols \X Symbols \X Symbols : h.folded[m] \in DOMAIN Fingerprint
ASSUME OptionsAssumption ==
  \A o \in OptionRecords :
    /\ o.first_byte_count \in 1..Radix /\ o.threads \in Nat
    /\ o.phase \in {"forward", "foldback"}
ASSUME ThreadsAssumption == Hardware \in Nat /\ MaxThreads >= Radix

VARIABLES
  hash, options,  (* the arguments: constant during a scan                *)
  at,             (* the place of each thread in its loops over the       *)
                  (* second and third symbols                             *)
  entries,        (* the shared array                                     *)
  pass,           (* the counter of the loop over the passes of the sort  *)
  begin,          (* the counter of the loop over the buckets             *)
  summary,        (* what has been counted                                *)
  stage           (* how far the caller has come behind the last join     *)

scanVars == <<hash, options, at, entries, pass, begin, summary, stage>>
vars == <<poolVars, scanVars>>

-----------------------------------------------------------------------------
(* Messages are numbers; the first symbol counts most.                     *)
DecodeMessage(value) ==
  <<(value \div (Radix * Radix)) % Radix, (value \div Radix) % Radix, value % Radix>>

PrefixState(value) == hash.behind[<<DecodeMessage(value)[1], DecodeMessage(value)[2]>>]

ScannedState(value) ==
  IF options.phase = "foldback" THEN hash.folded[DecodeMessage(value)]
  ELSE hash.absorb[PrefixState(value)][DecodeMessage(value)[3]]

Domain == options.first_byte_count * Radix * Radix
Values == 0..(Domain - 1)

Blank == [fingerprint |-> 0, message |-> 0]

EntryOf(value) == [fingerprint |-> Fingerprint[ScannedState(value)], message |-> value]

-----------------------------------------------------------------------------
(* The sort.                                                               *)

Digit(entry) == (entry.fingerprint \div Weight[pass]) % DigitBase

DigitBefore(a, b) == Digit(a) < Digit(b)

-----------------------------------------------------------------------------
(* Counting the pairs of one bucket.                                       *)

ZeroSummary ==
  [buckets |-> 0, candidates |-> 0, groups |-> 0, duplicates |-> 0, pairs |-> 0,
   inherited |-> 0, new |-> 0, delta |-> 0, third |-> 0, identical |-> 0, distinct |-> 0,
   positions |-> 0, foldback |-> 0]

(* The places of the entries whose fingerprint is that of the first one.   *)
BucketEnd ==
  CHOOSE last \in begin..Len(entries) :
    /\ \A n \in begin..last : entries[n].fingerprint = entries[begin].fingerprint
    /\ last < Len(entries) => entries[last + 1].fingerprint # entries[begin].fingerprint

(* The groups of messages with one state in a range of places.             *)
Groups(places) ==
  {group \in {{n \in places : ScannedState(entries[n].message) = ScannedState(entries[m].message)} :
                m \in places} : Cardinality(group) > 1}

PairsIn(group) ==
  {<<entries[m[1]].message, entries[m[2]].message>> :
     m \in {p \in group \X group : p[1] < p[2]}}

Inherited(l, r) == l % Radix = r % Radix /\ PrefixState(l) = PrefixState(r)

(* The same first and third symbol, the second ones Delta apart.           *)
SecondApart(l, r) ==
  LET left == DecodeMessage(l)
      right == DecodeMessage(r)
  IN  /\ left[1] = right[1] /\ left[3] = right[3]
      /\ right[2] - left[2] \in {Delta, -Delta}

LocalThird(l, r) ==
  LET left == DecodeMessage(l)
      right == DecodeMessage(r)
  IN  left[1] = right[1] /\ left[2] = right[2] /\ left[3] # right[3]

SamePhysicalTrace(l, r) ==
  hash.path[PrefixState(l)][DecodeMessage(l)[3]] = hash.path[PrefixState(l)][DecodeMessage(r)[3]]

DifferingPositions(l, r) ==
  Cardinality({position \in 1..3 : DecodeMessage(l)[position] # DecodeMessage(r)[position]})

FoldbackEqual(l, r) == hash.folded[DecodeMessage(l)] = hash.folded[DecodeMessage(r)]

(* What the pairs found in the places of one bucket add to the summary.    *)
Counted(places) ==
  LET groups == Groups(places)
      pairs == UNION {PairsIn(group) : group \in groups}
      count(Test(_, _)) == Cardinality({p \in pairs : Test(p[1], p[2])})
      forward(n) == IF options.phase = "forward" THEN n ELSE 0
      third == count(LocalThird)
  IN  [buckets    |-> 1,
       candidates |-> Cardinality(places),
       groups     |-> Cardinality(groups),
       duplicates |-> MapThenSumSet(LAMBDA group : Cardinality(group) - 1, groups),
       pairs      |-> MapThenSumSet(LAMBDA group : (Cardinality(group) * (Cardinality(group) - 1))
                                                    \div 2, groups),
       inherited  |-> forward(count(Inherited)),
       new        |-> forward(count(LAMBDA l, r : ~Inherited(l, r))),
       delta      |-> forward(count(SecondApart)),
       third      |-> forward(third),
       identical  |-> forward(count(LAMBDA l, r : LocalThird(l, r) /\ SamePhysicalTrace(l, r))),
       distinct   |-> forward(count(LAMBDA l, r : LocalThird(l, r) /\ ~SamePhysicalTrace(l, r))),
       positions  |-> forward(count(LAMBDA l, r : ~LocalThird(l, r) /\ DifferingPositions(l, r) > 1)),
       foldback   |-> IF options.phase = "foldback" THEN Cardinality(pairs)
                      ELSE count(FoldbackEqual)]

ExitCode ==
  IF options.phase = "foldback" THEN (IF summary.pairs = 0 THEN 0 ELSE 1)
  ELSE (IF summary.foldback = 0 THEN 0 ELSE 1)

-----------------------------------------------------------------------------
(* A worker: its place counts the second and the third symbol together.    *)

ClaimFirst(w) == Claim(w) /\ UNCHANGED scanVars

(* Seeded fault: the slots of a first symbol overlap those of the next.    *)
WriteOverlapping(w) ==
  /\ worker[w] = "work" /\ at[w] < Radix * Radix
  /\ LET value == item[w] * Radix * Radix + at[w]
         index == item[w] * Radix * (Radix - 1) + at[w]
     IN  entries' = [entries EXCEPT ![index + 1] = EntryOf(value)]
  /\ at' = [at EXCEPT ![w] = @ + 1]
  /\ UNCHANGED <<poolVars, hash, options, pass, begin, summary, stage>>

Write(w) ==
  /\ worker[w] = "work" /\ at[w] < Radix * Radix
  /\ LET value == item[w] * Radix * Radix + at[w]
     IN  entries' = [entries EXCEPT ![value + 1] = EntryOf(value)]
  /\ at' = [at EXCEPT ![w] = @ + 1]
  /\ UNCHANGED <<poolVars, hash, options, pass, begin, summary, stage>>

FinishFirst(w) ==
  /\ at[w] = Radix * Radix
  /\ Finish(w)
  /\ at' = [at EXCEPT ![w] = 0]
  /\ UNCHANGED <<hash, options, entries, pass, begin, summary, stage>>

-----------------------------------------------------------------------------
(* The caller behind the last join.                                        *)

(* Seeded fault: the buckets of a pass are filled from their ends.         *)
SortBackwards ==
  /\ main = "over" /\ stage \in {"generate", "sort"}
  /\ \E source \in {Reverse(entries)} : entries' = SortedBy(source, DigitBefore)
  /\ pass' = pass + 1
  /\ stage' = IF pass' = Passes THEN "compare" ELSE "sort"
  /\ UNCHANGED <<poolVars, hash, options, at, begin, summary>>

(* A pass counts the entries of each digit and puts an entry behind those  *)
(* of smaller digits and behind the earlier ones of its own.               *)
Sort ==
  /\ main = "over" /\ stage \in {"generate", "sort"}
  /\ entries' = SortedBy(entries, DigitBefore)
  /\ pass' = pass + 1
  /\ stage' = IF pass' = Passes THEN "compare" ELSE "sort"
  /\ UNCHANGED <<poolVars, hash, options, at, begin, summary>>

(* Seeded fault: the entry behind a bucket is skipped.                     *)
CompareSkipping ==
  /\ stage = "compare" /\ begin <= Len(entries)
  /\ summary' = IF BucketEnd = begin THEN summary
                ELSE [field \in DOMAIN summary |->
                        summary[field] + Counted(begin..BucketEnd)[field]]
  /\ begin' = IF BucketEnd = begin THEN begin + 1 ELSE BucketEnd + 2
  /\ UNCHANGED <<poolVars, hash, options, at, entries, pass, stage>>

(* One bucket of equal fingerprints.                                       *)
Compare ==
  /\ stage = "compare" /\ begin <= Len(entries)
  /\ summary' = IF BucketEnd = begin THEN summary
                ELSE [field \in DOMAIN summary |->
                        summary[field] + Counted(begin..BucketEnd)[field]]
  /\ begin' = BucketEnd + 1
  /\ UNCHANGED <<poolVars, hash, options, at, entries, pass, stage>>

Report ==
  /\ stage = "compare" /\ begin > Len(entries)
  /\ stage' = "done"
  /\ UNCHANGED <<poolVars, hash, options, at, entries, pass, begin, summary>>

-----------------------------------------------------------------------------
Returned == stage = "done" /\ UNCHANGED vars

Init ==
  /\ hash \in Hashes /\ options \in OptionRecords
  /\ items = options.first_byte_count
  /\ threads = Min({IF options.threads = 0 THEN Max({1, Hardware}) ELSE options.threads,
                    options.first_byte_count})
  /\ main = "spawn" /\ k = 0
  /\ next = 0
  /\ worker = [w \in Workers |-> "absent"]
  /\ item = [w \in Workers |-> 0]
  /\ finished = {}
  /\ at = [w \in Workers |-> 0]
  /\ entries = [n \in 1..Domain |-> Blank]
  /\ pass = 0
  /\ begin = 1
  /\ summary = ZeroSummary
  /\ stage = "generate"

Caller ==
  \/ (Spawn \/ StartJoining \/ Join \/ Leave) /\ UNCHANGED scanVars
  \/ Sort
  \/ Compare
  \/ Report

Thread(w) == ClaimFirst(w) \/ Write(w) \/ FinishFirst(w)

Next == Caller \/ (\E w \in Workers : Thread(w)) \/ Returned

Spec == Init /\ [][Next]_vars

-----------------------------------------------------------------------------
(* While the threads run, a slot holds the entry of its message if its     *)
(* thread has come past it, and is untouched otherwise: no thread writes   *)
(* to the slots of another, and behind the last join none is missing.      *)
SlotsFilled ==
  stage = "generate" =>
    \A value \in Values :
      LET first == DecodeMessage(value)[1]
          past == \/ first \in finished
                  \/ \E w \in Workers : /\ worker[w] = "work" /\ item[w] = first
                                        /\ value % (Radix * Radix) < at[w]
      IN  entries[value + 1] = IF past THEN EntryOf(value) ELSE Blank

(* The sort puts equal fingerprints next to each other and, being stable,  *)
(* leaves the smaller message first: in every reported pair a is before b. *)
Sorted ==
  stage \in {"compare", "done"} =>
    /\ ToSet(entries) = {EntryOf(value) : value \in Values}
    /\ \A m, n \in DOMAIN entries :
         m < n => \/ entries[m].fingerprint < entries[n].fingerprint
                  \/ /\ entries[m].fingerprint = entries[n].fingerprint
                     /\ entries[m].message < entries[n].message

(* The pairs there are, whatever threads, slots, fingerprints and buckets. *)
EqualPairs ==
  {p \in Values \X Values : p[1] < p[2] /\ ScannedState(p[1]) = ScannedState(p[2])}

StatesReached == {ScannedState(value) : value \in Values}

(* The numbers reported are those of the hash: the fingerprints decide     *)
(* which states are compared and nothing else, and the parts add up.       *)
SummaryExact ==
  stage = "done" =>
    /\ summary.pairs = Cardinality(EqualPairs)
    /\ summary.duplicates = Domain - Cardinality(StatesReached)
    /\ summary.groups = Cardinality({state \in StatesReached :
                           \E p \in EqualPairs : ScannedState(p[1]) = state})
    /\ summary.foldback = Cardinality({p \in EqualPairs : FoldbackEqual(p[1], p[2])})
    /\ options.phase = "forward" =>
         /\ summary.inherited + summary.new = summary.pairs
         /\ summary.new = Cardinality({p \in EqualPairs : ~Inherited(p[1], p[2])})
         /\ summary.identical + summary.distinct = summary.third
         /\ summary.third + summary.positions
              + Cardinality({p \in EqualPairs : p[1] \div Radix # p[2] \div Radix
                                               /\ DifferingPositions(p[1], p[2]) = 1})
            = summary.pairs
    /\ ExitCode = 1 <=> \E p \in EqualPairs : FoldbackEqual(p[1], p[2])

=============================================================================
