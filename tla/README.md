# Perfect Value Cube Hash: a TLA+ verification project

This directory models the Perfect Value Cube Hash (C++20) in TLA+. The modules
are translated from the source; `PROJECT.json` names the lines each definition
stands for. TLC checks the models on small instances, and TLAPS proves what
matters most for every message, every parameter record and every cube.

## 1. The system

The hash keeps an 8x8x8 cube of bytes in which every byte value occurs twice,
a cursor and the axis of the last move. *Absorbing* a symbol makes
`moves_per_symbol` moves; a move chooses an axis other than the last one and an
amount of 1 to 7, rotates the line through the cursor by that amount and lets
the cursor travel along. Which axis and amount is the business of a
*controller*: the free one (PVC-RotHash-1) or the systematic one
(PVC-RotHash-2), whose first three amounts are meant to determine the symbol.
`compute()` schedules the symbols: the message forwards, the message backwards
(*foldback*), a length frame, two closures that feed the state back to itself,
and a squeeze that reads the body diagonals and absorbs between two output
bytes.

The library is sequential and deterministic. Around it there are some 35
research tools; threads occur only in three of them.

### 1.1 Inventory

| Component | State it keeps | Operations | What makes it correct | Modelled |
|---|---|---|---|---|
| Byte arithmetic (`engine.cpp`) | none | rotation, odd multiplication, length encoding | results are bytes, wrap where C++ wraps | `Bytes` |
| Perfect-value cube (`cube.cpp`, `cube.hpp`) | 512 bytes | `rotate_line`, `advance`, `body_diagonals`, `histogram` | a rotation is a bijection of one line and touches no other cell; the double histogram survives | `Cube`, `PerfectValues`, `Walk` |
| Controllers (`absorb_symbol`) | cube, cursor, previous axis, symbol index, trace; control byte on the stack | absorb one symbol, one move at a time | every move is a legal turn; bytes stay bytes; systematic amounts determine the symbol | `Controllers`, `Engine` |
| Hash schedule (`compute`) | the above, loop counters, chain, digest, checkpoints | validate, forward, foldback, frame, closures, squeeze, record | every phase runs exactly its symbols, in order; records tell the truth; it terminates | `Engine` |
| Research parameters (`research.cpp`) | none | presets, `validate_hash_parameters` | what is accepted is supported | partly, in `Engine` |
| Research state API (`research.cpp`) | snapshots owned by the caller | absorb one symbol, forward, foldback, resume from a snapshot | resuming agrees with computing in one go; equal states behind the foldback end alike | `Research`, `Finalization` |
| Public streaming API (`hash.cpp`) | the message so far | `update`, `finalize`, `hash`, `inspect` | independent of how the message is cut, `finalize` changes nothing, const calls may overlap | `Oracle`, `Hasher` |
| Hexadecimal output, command line (`hex.cpp`, `main.cpp`) | none | format, parse, print | | no: pure I/O |
| Alias catalogue (`alias_catalog.hpp`) | atomic counter, one vector per thread | enumerate aliases with a pool of threads | nothing lost or repeated, same list whatever the schedule | `Pool`, `AliasCatalog` |
| Other parallel scans (`three_byte_collision.cpp`, `independent_suffix_catalog.cpp`) | atomic counter, slots of one array, per-thread counters | generate, radix sort, group | slots are disjoint and all written before they are read; totals independent of the schedule | `Pool`, `ThreeByteScan`, `SuffixCatalog` |
| Bridged path search (`bridged_path.hpp`) | the calls on the stack | depth-first search for aliases one behind the other | passes over nothing, finds the first path there is | `BridgedPath` |
| Searches along a path (two beams, `bridged_multicollision.cpp`) | beam, best so far; family of messages, tables | expand, sort, cut; double, evaluate | candidates share the forward state; the best is the best of all; counts are exact | `BridgedBeam`, `Multicollision` |
| Collision searches with tables (5 tools) | tables from a state, fingerprint or digest to what was seen first | enumerate, look up, count | counts are those of the set seen, a fingerprint is never taken for a state | `FirstSeen` |
| Pair-loop searches (7 tools) | counters, nearest pair, states of a pair, path of aliases | enumerate pairs and suffixes, fold back, compare | what is counted as merged is merged; the shared part of two computations is really shared | `FoldbackPairs`, `PrefixPair`, `Probe` |
| Heuristic searches (divergent beam, two LSH searches) | beam, buckets, best so far | expand, sort, cut; project, compare | the best compared is reported, equal values are never missed, pairs stay apart | `DivergentBeam`, `Lsh` |
| Sampling probes (`collision_probe`, `alignment_probe`, `return_alias_surface`) | counters | sample, count, print | | no: independent samples |
| Statistics probes (10 tools) | sums | sample, accumulate, print | | no: independent samples and floating point |
| Reference vectors, Python reference | none | print, compare | | no; two vectors are used by a run |
| Campaign driver (`stage4_deep_r2.sh`) | count of failures | run tools, classify their results | a failure is not evidence, a hit is not a failure | `Campaign` |
| Other scripts | none | build, test, shorter campaigns | | no |

How they interact: everything above the engine calls it through plain function
calls and value snapshots; nothing is shared but the counters and vectors of
the three thread pools, and the objects that a client of the streaming API may
share between its threads; no callback leads back. The engine calls the cube,
the tools call the research state API.

### 1.2 What is hard about it

The sequential core has no interleavings. Its hazards are the ones of long
computations: one loop bound, wrap-around or order of two statements wrong and
thousands of moves later every digest is different, with nothing to compare it
with; the records (trace, checkpoints) may be wrong while the digest is right;
parameters may be accepted and not be supported. The pools add claims that
interleave, vectors that may be read only behind a join, and an order of
results that depends on the schedule. The streaming API has no lock and reads
the message in place, forwards and backwards, while other threads may do the
same. The searches go on from snapshots instead of computing from the start,
and trust that a state computed once for two messages is the state of each. The full list, at the lines where it
bites, is under `hazards` in `PROJECT.json`.

## 2. The modules

| Module | Models |
|---|---|
| `Bytes` | arithmetic on bytes: exclusive or, reduction modulo 256, `rotate_left_byte`, `mul_odd_byte`, `encode_length` |
| `Cube` | coordinates, storage order, `rotate_line`, `advance`, body diagonals, histogram; for a cube of any side |
| `PerfectValues` | the constant table `kPerfectCube` |
| `Walk` | the **abstract specification**: a walk on the cube, any axis other than the last, any amount |
| `Controllers` | the arithmetic of both controllers: axis, amount and next control byte as functions of what `absorb_symbol` reads |
| `Engine` | the **detailed specification**: `compute()` with everything it calls |
| `EngineProperties` | the properties of `Engine` |
| `Aliases` | messages of three symbols, and the catalogue defined by what it holds |
| `Enumeration` | the **abstract specification** of the enumeration: the catalogue, delivered at once |
| `Pool` | the worker pool the three parallel tools share, without the work: starting, claiming from the counter, joining |
| `AliasCatalog` | the **detailed specification** of the enumeration: a pool over prefixes, one vector per thread |
| `ThreeByteScan` | a pool over first bytes that fills one shared array; radix sort, grouping by fingerprint, counting |
| `SuffixCatalog` | a pool over the pairs of the catalogue, one set of counters per thread |
| `BridgedPath` | the search for a bridged path, recursion as a stack of calls |
| `BridgedBeam` | the digest beam and the foldback beam along the path |
| `Multicollision` | the family of messages along the path, written out and evaluated |
| `PathTools` | a tool along the path: the search, then one of the beams or the family |
| `Tools` | what the sequential tools share: items, tables, counters, exit by `return` or exception |
| `Orders` | `std::sort` by its result, `operator<` of vectors |
| `FirstSeen` | the five searches that look each item up in a table before they add it |
| `Lsh` | the two searches that compare only what a projection puts into one bucket |
| `DivergentBeam` | the beam over pairs that keep different forward states |
| `FoldbackPairs` | the four tools that fold pairs of one forward state back: return aliases, separation profile, dual aliases, samples |
| `PrefixPair` | the two tools that look for suffixes behind which two prefixes merge |
| `Probe` | the multicollision probe: branches, the longest chain of aliases, its messages |
| `Research` | the research state API, a call as a function of its snapshots, and its agreement with `Engine` |
| `Finalization` | `Engine` beside itself with another message: what is read behind the foldback |
| `Oracle` | the **abstract specification** of the streaming API: bytes taken, questions answered in one step |
| `Hasher` | the **detailed specification**: objects, calls of several threads, `compute()` reading byte by byte |
| `Campaign` | the campaign driver: verdicts and exit code |
| `MCWalk`, `MCEngine`, `MCAliasCatalog`, `MCThreeByteScan`, `MCSuffixCatalog`, `MCPathTools`, `MCTools`, `MCHasher` | the instances TLC checks; `Campaign` is small enough to be its own |
| `InductionTheorems` | induction over a set, recursion, folds, runs over symbols, finite sums, orders, lists, what a scan has met, places of a table: what the proofs share |
| `LibraryProofs` | lemmas about `Cube`, `Bytes` and `Controllers`; the theorems of `Walk`, `Engine`, `EngineProperties`, `Finalization`, `Research` and `Hasher` |
| `PoolProofs`, `AliasCatalogProofs`, `ThreeByteScanProofs`, `SuffixCatalogProofs` | the theorems of the pool and of the three tools that have one |
| `PathProofs` | the theorems of `BridgedPath`, `BridgedBeam` and `Multicollision` |
| `ToolProofs` | the theorems of `FirstSeen`, `PrefixPair`, `Lsh`, `DivergentBeam`, `FoldbackPairs` and `Probe` |

`EngineProperties` extends `Engine`, which extends `Controllers` and `Walk`,
which extend `Bytes` and `Cube`. `AliasCatalog` and `SuffixCatalog` extend
`Aliases` and `Pool`, `ThreeByteScan` extends `Pool`; each adds the work to the
pool's actions. `BridgedPath` extends `Aliases` and takes the catalogue as what
`Enumeration` promises; `BridgedBeam` and `Multicollision` extend it with what
is done along the path, and `PathTools` composes the three. `FirstSeen`, `Lsh`,
`DivergentBeam` and `FoldbackPairs` extend `Tools`, `PrefixPair` and `Probe`
extend `FoldbackPairs`; their jobs are disjoint, and `MCTools` runs any of them.
`Research` and `Finalization` extend `Engine`. `Hasher` takes the digest as an
operator of what is read, in which order, and of the size: `Engine` is where
that operator comes from, and `Finalization` why the size is all that is left.

Definitions that begin with "Seeded fault" are not part of any specification.
Each is a plausible bug in place of the definition it precedes; putting it
there must break the property it is listed with under `mutants`.

### 2.1 State and actions of `Engine`

`cube`, `cursor`, `previous_axis`, `symbol_index` and `trace` are the fields of
`WorkingState`. `pc` is the loop the program is in, `i` and `j` its counters;
`absorbing`, `symbol`, `control`, `phase` and `amounts` are the frame of
`absorb_symbol` on the stack; `chain` and `digest` are locals of
`squeeze_diagonals`. `bytes`, `parameters` and `keep` are the arguments of
`compute()`, chosen in `Init`.

Each loop has one action that chooses and begins a symbol (`Forward`,
`Foldback`, `Frame`, `DiagonalClosure`, `OrbitClosure`, `Feed`) and one that
leaves the loop, taking the checkpoint the code takes there (`EndForward` to
`EndFeed`). `FreeMove` and `SystematicMove` are one iteration of the two move
loops; the last iteration returns. `Reject` and `Unsupported` are the two ways
in which `compute()` throws. Nothing is chosen inside a computation: the
existential quantifiers over one-element sets in the move actions only name a
value. Loops over constant arrays that change no state (diagonals, context
digits) are operators.

Left out: the `length_error` for a trace whose size overflows `size_t`
(`engine.cpp:513-516`), which takes a message of about 2^60 bytes, and the
64-bit wrap of `symbol_index`, for the same reason.

### 2.2 State and actions of the pools

The three tools write the same pool out three times; `Pool` has it once.
`next` is the atomic counter (`next_prefix`, `next_first`, `next_pair`),
`worker` and `item` are the position of each thread and the number it got last,
`main` and `k` the position and loop counter of the caller. `finished`, a
history variable, is the set of items worked off. An action ends where another
thread can look: `Spawn`, `Claim` (the `fetch_add`), `Finish`, `Join`, and
`Leave` when the last thread is joined. The `fetch_add` is atomic by itself,
and a `join` orders everything its thread wrote before what the caller reads;
so interleaving whole actions loses no behaviour, the relaxed memory order of
two of the counters included.

- `AliasCatalog`: `output` is `per_thread`, `result` the list the caller makes
  of it. `Work` is one prefix, on the thread's own vector. `Collect`
  (concatenate, sort by prefix and symbols) and `Extend` (add the inherited aliases, sort again) run
  when no other thread is left; `stage` tells how far the caller is with them.
- `ThreeByteScan`: `entries` is the array all threads write, so each slot is a
  step (`Write`), with `at` the place in the two inner loops. Behind the last
  join, each pass of the radix sort is one step (`Sort`, with `pass` the loop
  counter): a stable arrangement by one digit. Each bucket of equal
  fingerprints is one step too (`Compare`, with `begin` the running index).
- `SuffixCatalog`: `counts` is `per_thread`, `total` the sum. `pairs` is what
  `Enumeration` promises of the catalogue.

The hash is abstract in all three: any state behind a prefix, any effect of a
symbol, any fingerprint. Exceptions thrown by `std::thread` or by an allocation
are left out, and so are fields and counters that are only printed (the fields
of an alias that follow from its pair, the histogram of third-symbol distances,
timing).

### 2.3 State and actions of the streaming API and the research API

In `Hasher` `message` holds `message_` of each object, and of the object a
`hash()` or `inspect()` call makes for itself; `call` is the frame of the call
each thread is in, `outcome` what its last call came to. `Update` is one step:
the library allows it only while no other call uses the object, which is the
guard `Unshared`, an obligation of the callers. `Finalize` begins a call;
`ReadForward` and `ReadBack` are one byte of the two passes of `compute()` over
the message in place, and `Return` is the rest, which reads the size only.
`Oracle` has the same calls without the reading: ask, and be told.

The calls of `Research` have no state of their own. `AbsorbSymbol` makes all
moves of a symbol as a recursive function over the working state; the
controllers' arithmetic is that of `Controllers`, the loop around it a second
translation. `ResearchAgrees` compares it with `Engine` at every symbol of the
forward pass and at the end of the foldback. `Finalization` instantiates `Engine`
with a message in which bytes are exchanged and everything else is shared:
`FinalizationBlind` says that each step behind the foldback is a step of both.

### 2.4 State and actions of the searches

In `BridgedPath` the recursion of `find_bridged_tail` is a stack. A frame holds
the extensions of one state in the order the code tries them (direct aliases
first, then those behind bridge 0, 1, ...) and how many it has tried. `Extend`
is a recursive call, `GiveUp` its return without a tail, `FindPath` the unwinding
of all calls once no levels remain, `NextSeed` the loop of `find_bridged_path`,
`NoPath` its failure. `bridged_multicollision.cpp` has its own copy of the same
search, which the same actions stand for.

`BridgedBeam` makes one step of a level: expand each candidate by the four
choices, drop equal messages and pairs seen before, score, sort, cut, remember
the best. `options.tool` tells the two tools apart: what they measure first, and
whether they look for an exact pair before a level (`FoldbackLevel`) or behind it
(`DigestLevel`). `scored` is a history of all candidates. `Multicollision`
writes out a level in a step (`Materialize`) and evaluates a message in a step
(`Evaluate`).

In `FirstSeen` an item is a step: a transition (`Predecessor`), a message with its
five checkpoints and its digest (`PhaseMessage`), or an item of a search that
stops at the first agreement (`Miss`, `Hit`, `Censored`). `seen` holds the tables,
`counters` the running counters. The campaign is modelled for one bit width; the
widths share nothing.

The other sequential tools are built the same way. `at` counts the items done.
In `Lsh` an item is a record of the right side, compared with its bucket
(`CompareRight`); `NextPass` begins another projection. The digest search accepts
presets with digests of fewer than 32 bytes and then reads beyond their end;
the key it gets there is left open (`stray`). In `DivergentBeam` an item is a
depth, in `FoldbackPairs` a suffix behind a pair (`AwareCase`, `DualCase`), a
reverse step (`ReverseStep`) or a sample, of which any outcome is taken. In
`Probe` it is a seed (`SeedStep`) or a suffix behind a branch (`Extension`); its
aliases come in the order in which `find_symbol_aliases` lists them, by the second
symbol and then by the first (`AliasLess`).
Throwing out of `main()` is `Leave("error")`, and each tool's exit code is an
operator of the state it ends in.

`Campaign` runs one tool per step. What a tool may come to (`Ways`) is read off
its `return` statements and prints: an exit code, whether one of the phrases the
script looks for is in the log, and whether it crashed.

Hash and fingerprints are again left open. Distances are those of the code in
`BridgedBeam` (`BitsApart` and `BytesApart`, of states and digests of as many
bytes as the instance says; a byte is the set of its bits, taken from
`ByteBits`) and any function in the other tools. What is kept of the hash in
`FirstSeen` is that messages of one length that agree behind the foldback go
on agreeing, since the later phases read nothing but the state and the length.

## 3. The runs

| Run | Module | Question |
|---|---|---|
| `walk` | `MCWalk` | Does any walk lose a value, leave the cube or drop the value under the cursor, and can each move be undone? |
| `digests` | `MCEngine` | Does the model compute the published digests? |
| `schedule` | `MCEngine` | Do the phases absorb what they should, do trace and checkpoints tell the truth, does the orbit read every cell once, do the first three amounts determine the symbol, does `compute()` refine the walk, does the research API agree with it, is the message forgotten behind the foldback, and does it end? |
| `refusal` | `MCEngine` | Does validation refuse what is unsupported? (It does not.) |
| `catalogue` | `MCAliasCatalog` | Does any interleaving lose, repeat or misplace an alias? |
| `scan` | `MCThreeByteScan` | Is every slot written before the sort reads it, is the sort stable, does the report count the pairs there are? |
| `suffixes` | `MCSuffixCatalog` | Do the counters of the threads add up, at any moment and at the end? |
| `paths` | `MCPathTools` | Does the path search pass over a path? Do all candidates share the forward state they are compared from, is the beam full, is the best ever compared reported? Is the family 2^n different messages with one forward state, and are its collisions counted exactly? Do the tools end? |
| `tools` | `MCTools` | Are the counters, nearest pairs and exit codes of fifteen tools those of what they were run on? |
| `api` | `MCHasher` | Is every digest that of the bytes taken when it was asked for, whatever calls overlap? |
| `predecessors` | `MCTools` | Does the predecessor enumerator count (state, symbol) pairs? (It does not.) |
| `campaign` | `Campaign` | Does the driver exit with 0 unless a tool crashed? (It does not.) |

### 3.1 Bounds, and why they are enough

- `walk`: a 3x3x3 cube of 27 *different* values and all walks of up to
  `MaxMoves = 6` moves. Different values make any loss visible at once, which
  the double values of the program's cube would not; six moves are a symbol.
  Because of the bound the run stops, hence `CHECK_DEADLOCK FALSE`. The
  theorems about `Walk` in `LibraryProofs` remove both bounds.
- `digests`: two messages under two algorithms, at full size (8x8x8 cube, all
  phases). A computation has no choice, so one run of it checks thousands of
  moves against the published value. This is what ties the arithmetic of the
  model to the program's.
- `schedule`: nine parameter records. They include a preset
  without foldback and closures, symbols of 10 moves (the index bytes start
  over behind the eighth), the systematic controller, two invalid records and
  one that is valid but unsupported. Messages of 0, 1 and 2 bytes take every
  loop zero, one and several times. It records nothing, the trace, or everything.
  One record has an orbit of 130 steps, so that the orbit starts over; the cells
  it reads depend on the step only. All 256 symbols are decoded in every state
  between two symbols of the systematic records; `SymbolsPassTheChannel` proves
  it for the rest.
- `catalogue`: up to three prefixes, three threads and four symbols. Three
  threads are the least with which one can be ahead, one late and one idle; the
  requests ask for fewer threads than prefixes, as many, more, the default, for
  no prefix and for more than there are. Two of the three states share a
  fingerprint, and the aliases of one prefix are found in another order than
  they are sorted in. One of two known pairs of prefixes is real in one hash,
  both in the other.
- `scan`: three symbols in place of 256, fingerprints of two binary digits in
  place of four 16-bit ones, up to three threads over up to three first bytes.
  Fingerprints collide between different states, buckets of several groups,
  groups of several messages, pairs of every kind the report tells apart and
  both exit codes occur. The digits of the sort are few, but each pass moves
  entries of equal digits, which is where stability matters.
- `suffixes`: two prefixes, three symbols and up to three threads: more
  threads asked for than there are pairs, fewer, and no pair at all.
- `paths`: three symbols, two states that go anywhere and
  three that never lead to an alias, every hash on them, three levels (so that
  a call fails two levels deep and the caller goes on). The beam is cut at the
  second level or at the third. Bytes have two bits (`ByteBits`), digests and
  states few bytes: distances are zero now and then, so that both tools stop
  early, late and not at all, and often equal, so that ties are cut.
  Of the family no level, one, some or all are written out; among eight messages
  some states and some digests agree, and fingerprints more often.
- `tools`, the table searches: three states, and every table of states on them. The fourth prefix
  of the predecessor enumeration is the first again. Two of three states share a
  fingerprint. Trials of three or four items hit early, hit late, or are
  censored; the campaign has two trials.
- `tools`, the others: every effect two symbols can have on three states, and
  three symbols on two, with all the pairs of three-byte messages such a hash
  has, local and inherited, and suffixes of no or one symbol. So a pair merges at
  the byte in which it differs, later, or not at all, merges and parts again, and
  fingerprints collide. LSH has up to three suffixes a side and two projections,
  the second of which separates what the first does not; the divergent beam goes
  one depth or three, is cut, becomes empty, or finds equal digests. The probe has
  two more hashes, of four symbols and with the aliases {0, 3} and {1, 2} in one
  state: there the order in which aliases are listed is neither that of their first
  symbols nor without consequence, since chains of one length and of different
  lengths lie behind them. The tools that take an empty list of suffixes
  (`--suffix-limit 0`, `--limit 0`) are run on one as well, the truncated search on
  a limit of 0.
- `api`: one object of each algorithm, two threads, messages of up to two
  bytes with `MaxSize = 2`, so that an update is refused and a later, shorter one
  taken. Two threads are enough for every overlap of two reads and for an update
  between two calls of another thread.
- `campaign`: all three modes, with and without the executables, and each way
  each tool may end.

### 3.2 Properties

`Rearranged`, `CarriedCell` and `Reversible` are properties of the walk.
Together with the refinement they say what the engine may never do to its cube.
A consequence of `CarriedCell` that a reader of `absorb_symbol` should know:
the byte read under the cursor *before* a move (`probe_before`) is the same at
every move of every computation, `kPerfectCube[0]`.

`SymbolSchedule` gives, for every place in the program, the number of symbols
absorbed so far. It is what a skipped, repeated or early phase breaks.
`ReservationExact` compares the capacity reserved before the computation with
what the six loops then do. `TraceReplays` redoes the computation from its
trace. `CheckpointSchedule` says that a checkpoint shows the moment its name
and index say it shows. `KnownAnswers` compares digests.

`EachItemOnce` and `AllDoneWhenOver` say of any pool that its items are worked
on once, by one thread, and all of them before the caller reads the results.
`NoneLostOrRepeated` says, at any moment of an enumeration, where each alias
is: in one vector, on its way to one, or still to come. `ImplementsEnumeration`
is the refinement: the caller sees nothing but the complete, sorted list.
`SlotsFilled` says which slots of the shared array hold what while the threads
run; `Sorted` that equal fingerprints are neighbours and, by stability, in the
order of the messages; `SummaryExact` that the counts are those of the set of
all pairs with equal states, in which no fingerprint occurs. `TotalExact`
relates the threads' counters to the items finished, at any moment, and the
report to the catalogue.

`PassedOverInVain` says of every extension the path search has gone past that no
path of the length asked for lies behind it, by the plain definition of
reachability. `SharedForward` relates the messages of the beam to the forward
state that is advanced beside them and never compared with them. `BeamFull` says
how many candidates a level has: it is why `beam became empty` is never thrown
and why the seen set of the expansion never drops anything; for 16 levels and a
beam of 1024 it gives 1 + 4 + ... + 1024 pairs up to the sixth level and 4096 for
each of the ten that follow, which are the 42,325 pairs
`docs/DIGEST_SURFACE_RESULTS.md` reports. `BestOfAll` holds although the best
pair of an early level may be cut later. `CountsExact` compares running counters
with the cardinalities of the sets they stand for; it includes that collisions
never get fewer from phase to phase behind the foldback.

`LshExact` says that the pair kept is the closest ever compared and that equal
values are found in the first pass, whatever the projections; `StaysDivergent`
that no pair of one forward state is ever scored and that the best one, of any
depth, is reported. `SeparationExact` is about the four tools of `FoldbackPairs`:
what `foldback_aware_alias` computes once for two messages is the state of both;
no divergence is ever "delayed", so that counter of the profile is always 0, and
every final merge is a direct return alias or a reconvergence; a merge on the
common state is a merge behind the foldback only where the last byte differs.
`MergesExact` compares both tools of `PrefixPair` with one definition of merging,
`ProbeExact` the chains and messages of the probe with the plain definition of
an alias; where the search was not cut off by its limit, no longer chain exists.
`FirstChain` says which of the longest chains it is: no seed before its own has one
as long, and of those behind its own seed it is the one the nested loops meet
first. It relates the result of a recursion that is cut off by a bound and started
anew behind each alias to one comparison of whole chains (`MetBefore`), and the
2^levels messages written out are those of this chain.

`ResearchAgrees` and `FinalizationBlind` are what the searches rely on: that
stopping at a snapshot and going on loses nothing, and that equal states behind
the foldback mean equal digests for messages of one length
(`research.hpp:99-101`). `ImplementsOracle` is the refinement of the streaming
API: cuts, earlier and overlapping calls and refused updates leave no trace in
any answer.

### 3.3 Fairness

`compute()` runs on one thread and never waits; weak fairness of the whole
next-state relation says that this thread is not stopped for ever. In the pool,
weak fairness of the caller and of each thread says that the scheduler runs
every thread that can run. `Join` is enabled only when its thread has ended, so
no fairness is assumed for a wait. The searches run on one thread that never
waits (the pool of the catalogue has ended); weak fairness of their next-state
relation is enough. Nothing obliges a client of the streaming API to make a call, so `Hasher`
has no fairness; that a call made returns is the termination of the engine's
loops over the message. No strong fairness is used.

### 3.4 The findings

`refusal` is expected to end in a violation of `ValidatedRuns`.
`research.hpp:80` says of `validate_hash_parameters` that it throws "for
unsupported research configurations", but the check that the systematic
controller makes six moves is inside `absorb_symbol` (`engine.cpp:389-393`).
Such a record passes validation, `compute()` starts and throws at its first
symbol. No digest is affected; a tool that validates up front is told late.

`predecessors` is expected to end in a violation of `PredecessorsArePairs`.
`docs/CRYPTANALYSIS_FRAMEWORK.md:121-122` says that the enumerator measures how
many `(state, symbol)` pairs merge into one next state. The code never compares
source states: it counts one transition per prefix and symbol
(`predecessor_enumerator.cpp:82-99`). Two prefixes with one forward state, or
prefixes beyond what `--prefix-bytes` can hold (`prefix_message` drops the high
bytes, and nothing bounds `--prefixes`), count the same pair again with every
symbol. With the default options only the first can happen.

`campaign` is expected to end in a violation of `ExitsZeroUnlessCrash`.
`stage4_deep_r2.sh:8` says "Exit 0 if all campaigns complete without tool crash",
but `run_tool` returns the exit code of any tool that does not exit with 0 and
printed none of four phrases (line 67), and the script exits with the number of
such campaigns (line 261). A tool that completes and found something, such as a
merge, returns 1 without one of them. The other way round, `dual_return_alias` and
`foldback_separation_profile` may end with an exception behind their line
`forward_collision_pairs=0`, which passes for negative evidence. `Campaign` has
that behaviour too, but no property speaks of it: nothing in the repository
promises that it is noticed.

## 4. The proofs

All theorems are of the unbounded specifications: `Messages`, `Parameters` and
`Observers` are any sets of byte sequences, parameter records and observers,
and `PerfectCube` is any cube.

| Theorem | Says |
|---|---|
| `WalkTypeInvariant`, `WalkRearranges`, `CursorCarriesItsCell`, `WalkIsReversible` | the walk keeps its types, its histogram and the value under the cursor, and each move can be undone, for every side |
| `EngineTypeInvariant` | `compute()` keeps its types: control, chain and symbols stay bytes, amounts proper |
| `SymbolsOnSchedule` | `SymbolSchedule` holds for every message and parameter record |
| `EngineImplementsWalk` | `Spec => WalkSpec`, with the identity as refinement mapping |
| `EngineRearranges`, `EngineCarriesItsCell` | what the walk promises, the engine keeps |
| `SymbolsPassTheChannel` | `SystematicChannel` in every reachable state |
| `ReservationIsExact` | the trace fills the capacity reserved for it, exactly |
| `TracesReplay` | the recorded moves lead from the perfect cube to the cube there is, at any moment |
| `CheckpointsOnSchedule` | each checkpoint shows the moment its name and index say |
| `OrbitCoversTheCube` | the orbit closure reads each cell once before it starts over |
| `DigestIsComplete` | a digest returned has `squeeze_bytes` bytes: the length check of `hash.cpp:29-31` cannot fail |
| `FinalizationIsBlind` | computations that agree behind the foldback stay together to the digest |
| `ResearchIsTheEngine` | the research API computes the states and moves of `compute()`, in one call or from a snapshot, and refuses what it refuses |
| `PoolTypeInvariant`, `ItemsAreClaimedOnce`, `NothingIsLeftBehind` | a pool keeps its types, works on no item twice and leaves none behind, for any number of items and threads |
| `CatalogueImplementsPool`, `ScanImplementsPool`, `SuffixesImplementPool` | every step of a tool is a step of `Pool` or leaves the pool alone |
| `PrefixesAreClaimedOnce`, `CatalogueIsComplete`, `FirstSymbolsAreScannedOnce`, `PairsAreSearchedOnce` | what the pool promises, the tools keep |
| `NoPairIsLostOrRepeated` | each alias is in one vector, on its way to one, or behind a prefix nobody has claimed |
| `EnumerationIsImplemented` | `Spec => ImplementsEnumeration`: the caller gets the complete sorted list, all of it at one moment |
| `SlotsAreFilled`, `SortedArrayIsComplete` | a slot of the shared array holds its entry just when it has been written; when the sort begins it holds the entry of every message |
| `ArrayIsSorted` | behind the last pass the entries are in the order of fingerprints, and of messages among equal ones |
| `SummaryIsExact` | the counters printed are those of the pairs of equal states, whatever the fingerprints; the exit status says whether the final fold leaves a pair equal |
| `TotalsAreExact` | the threads' counters add up to the items finished at any moment, and to the whole catalogue in the report |
| `SearchPassesOverNothing` | no path lies behind an extension the depth-first search has passed over |
| `BeamSharesItsState` | the messages of each pair in the beam differ and lead to the forward state advanced beside them |
| `BeamFillsUp` | the beam grows fourfold a level up to its width and never becomes empty; what is counted are different pairs |
| `BestIsReported` | nothing ever scored is better than what is reported |
| `FamilySharesItsState`, `FamilyReportIsExact` | the family of a path has `2^level` different messages with one forward state, and its counters are the numbers of different states and digests |
| `CountsAreExact` | the counters of the table searches are those of the items met; a trial ends at the first item that agrees with an earlier one |
| `MergesAreExact` | what a prefix search counts as merged is what folds back to one state, behind any prefixes and suffixes |
| `NearestIsExact` | the pair an LSH search keeps is the nearest it compared, whatever the projections, and equal values are found in the first pass |
| `PairsStayApart` | the divergent beam scores each pair once and none with a shared forward state, and loses neither the best pair nor one of equal digests |
| `SeparationIsExact` | the aware search, the profile, the dual search and the sample count the merges there are, for any hash, pairs and suffixes; no divergence is ever delayed |
| `ProbeIsExact` | the probe writes out `2^levels` different messages with one forward state, of a longest chain of aliases; each case it counts is a real collision |
| `ChainIsFirst` | of the longest chains it writes out the one the loops over seeds and aliases meet first |
| `CallsReadTheirMessage` | a call under way has read a part of the message it was made with |
| `HasherKeepsItsPromise` | `Spec => ImplementsOracle`: every digest is that of the bytes taken when it was asked for |

**Assumptions.** Each is stated and named in the module that declares the
constant, and TLC evaluates all of them in the runs.

- Engine: `SideIs8` (the masks of the code are those of an 8x8x8 cube), the
  subset assumptions on messages, parameters and observers; `Side` is at least
  2 and `PerfectCube` is a cube. That the cube holds each value twice is not
  needed.
- Pools: at least one thread; in each tool `MaxThreads` is not less than the
  number of items, which bounds the thread count in the code.
- Catalogue: the known bases are pairs of different prefixes and no two are the
  same (`BasesDifferAssumption`; the three `constexpr` bases of the code are),
  and fingerprints exist for every state.
- Scan: fingerprints are below `Weight[Passes]`, that is, four digits of 16
  bits make up 64 bits.
- Path tools: 2 to 32 levels and a beam of at least one, which the option checks
  of the tools enforce.
- Sequential tools: a job carries the name of its tool; its tables, absorptions,
  fingerprints and distances are total on its states and symbols, a distance in
  bits is at most that of two whole states (`MostBits`) and 0 for equal values
  only. Limits and lists of suffixes may be empty where the tools take
  `--limit 0` or `--suffix-limit 0` without complaint (`truncated_collision`,
  `foldback_aware_alias`, `foldback_merge_search`, `constrained_merge_search`,
  `multicollision_probe`). They are not empty where the code has it so: the
  campaign and the digest LSH search reject 0, the foldback LSH search puts the
  largest number in its place, and the profile and the sample take suffixes from
  no limit; projections are checked to be at least one. For `dual_return_alias`
  alone it is a restriction of the model: with `--suffix-limit 0` that tool makes its
  direct comparisons and no others, which `DualCase`, a step per suffix with the
  direct comparison before the first of them, does not have. The seeds of the divergent beam are messages of bytes; that the distances
  of such messages are numbers (`DistancesAreNumbers`) is a hypothesis of
  `PairsStayApart`, since TLC has no set of all messages to evaluate it over.
- Pair tools (`PairHashesAssumption`): a symbol takes a state to a state, symbols
  are numbered from 0 and finitely many; the messages of a pair lead to one
  state, as `all_three_byte_forward_collisions` has compared, and no pair is
  listed twice; return symbols are symbols, different for different bytes
  (`derive_return_symbol` is an exclusive-or with a mask of the index); and a
  state distance of 0 means equal states, since `operational_state_bit_distance`
  goes over all fields. The probe has the same pairs (`ProbeJobsAssumption`), 1 to
  8 levels as its option check admits, and a digest for every state.
- `Hasher`: a chunk is a sequence of bytes no longer than the largest size, and
  objects and threads are distinct.

**The argument for the engine.** Neither `TypeOK` nor `SymbolSchedule` is
inductive. `IInv` adds `ControlOK`: the loop counter is 0 until validation has
passed; behind validation the parameters are valid, so `squeeze_bytes` is not
0 and `moves_per_symbol` is at least 1, which the last move of a symbol needs
to end it; `absorb_symbol` is on the stack in a loop only and with supported
parameters; unsupported parameters have begun no symbol, which is why an
exception leaves the count at 0; the amounts of the systematic controller are
1 to 7 while a symbol is absorbed (and only then: initially they are 0); there
is an output byte while the squeeze feeds. There is one lemma per action.
Symbol actions share `AbsorbStarts` and `SymbolKeepsIInv`, moves share
`MoveKeepsIInv`.

**The refinement.** `FreeControllerType`, `SystematicAxisType` and
`DiffusionAmountType` show that a controller never picks the previous axis or
an amount outside 1 to 7, so a move is a `Turn`; every other action leaves the
walk's variables alone.

**The histogram.** `RotateLine` is the old cube composed with the map from a
cell to the cell its value comes from. `SourceIsBijection` shows that this map
is a bijection of the coordinates; it carries the cells that hold a value to
those that held it, and a bijection keeps cardinalities
(`RotateLineKeepsHistogram`).

**The channel.** Each digit is recovered from its amount by subtracting the
context digit modulo 7; three digits determine a byte below 343; and the
permutation `41 s + 17` is undone by 25, the inverse of 41 modulo 256.

**The records.** On `IInv` rests `TraceCounts`: the trace has
`moves_per_symbol * symbol_index` entries and those of the symbol in progress,
which with `SymbolSchedule` is the capacity reserved. Replaying is a fold over
the trace: `InductionTheorems` shows that the fold over one more move is one
more turn of the fold, so a move keeps `TraceReplays`. Checkpoints are taken in
the actions that leave a loop, where `SymbolSchedule` says what has been
absorbed. The orbit reads the storage index `73 k + 19` modulo 512; 73 is odd,
so two steps less than 512 apart that read one cell would be equal.

**The finalization.** `Finalization` instantiates `Engine` with another message
of the same length. Every operator of the instance that does not read the
message is shown to be the operator of `Engine` (`BytesBeside` and what
follows), and behind the foldback no action reads it.

**The research API.** `absorb_symbol` and the loops over symbols are recursive
functions there. `LoopExists` and `AbsorbAllEnds` show that they are defined and
equal to their iterates, and `TraceIsNotRead` that neither the state nor the
moves depend on the trace handed in. The invariant `PassesAgree` then relates each moment of
the engine's forward pass and foldback, a symbol in progress included, to the
first moves of one call from the last snapshot; two calls one after the other
are one call over both messages, and the refusal of the API is the one of
`validate_hash_parameters` and of the systematic move count.

**The pool.** `EachItemOnce` is not inductive: a number that is claimed must be
below the counter, and `AllDoneWhenOver` needs to know that nothing below it was
dropped. `PoolInv` therefore adds `CounterOK`, by which the items below the
counter are exactly those finished or being worked on, and a counter past the
end has passed it once per ended thread (which bounds the overshoot); and
`CallerOK`, by which the threads with a number below `k` are started while the
caller starts them and ended while it joins them. An ended thread has seen the
counter past the end, and there is at least one thread: so behind the last join
no item is left.

**The catalogue.** Each finished prefix is owned by one thread, and each
thread's vector lists, once each, the aliases behind the prefixes it owns.
Vectors that list disjoint sets make, joined, a list of their union
(`FlattenLists`), whatever the order of the threads; sorting arranges a list by
the ranks of its members (`ArrangedByOrder`), so equal sets give equal lists.
Behind the last join the owned prefixes are all of them, and every stage of the
caller up to then is a stutter of `Enumeration`.

**The scan.** The slots a thread may write are those of the first byte it has
claimed and not finished, so `EachItemOnce` keeps two threads apart. The
invariant of the sort: behind `pass` passes the array holds every entry once, in
the order of the fingerprints modulo `Weight[pass]` and, among equal ones, of
the messages. A stable pass by the next digit keeps it, since that digit and the
remainder make the next remainder.
The invariant of the comparison, `CompareInv`, says that the counters are those of
the messages in front of `begin`, and that a bucket ends where the fingerprint
changes: since the array is sorted, no pair of equal states has one message in
front of `begin` and the other behind it, and the counts of sets that share no
state add up (`PartsAdd`). Within a bucket the code adds per group of equal
states; `CountByClass` shows that `c(c-1)/2` over the groups is the number of
pairs and `c - 1` the number of messages less that of states.

**The suffix totals.** A total is a sum over a finite set (`SumOver`); the
counters of a thread are the sum over the items it has finished, and sums over
disjoint sets add up (`SumOfSums`).

**The path search.** `SearchInv` is an invariant of the stack: each call
is behind the extension its caller tries, with one level less, and what it has
gone past is in vain. `Behind`, by the plain definition of reachability, and
`Extensible`, by the lists the code walks, agree, so a call that has tried all
its extensions shows that its caller's extension was in vain.

**The beam.** `BeamInv`: every candidate is a pair of different messages of the
level's length, smaller one first, that leads to `common` and is scored by it;
no two candidates are the same pair. The four choices of two different messages
give four different pairs, and different pairs give different ones, so that the
seen set drops nothing and the count is four times that of the beam. The best
of the sorted list is the least by an order that is total on the candidates, and
`best` the least of all levels.

**The family.** A level doubles the list: each message is followed by either
side of the alias and the bridge. Equal lengths keep the 2^level messages apart
(`SameLength`), and both sides lead to the state the path goes on from.
`CountedFit` relates the counters to the sets of states and digests of the
messages evaluated so far.

**The tables.** What a table must hold is an operator of the job and of the
number of items met (`Met`, `Places`, the first of several), and one lemma per
table says what one more item makes of it: a new key is a new entry, a known
one raises its count. The counters then follow from the cardinalities, since
the new item is not among the old. That collisions never get fewer from phase
to phase, and that a phase can be counted in states at all, needs no
fingerprint: equal states have equal images. A trial that is over has met each
value once but for the last.

**The prefix searches.** Both tools absorb the common forward state, then fold
suffix and prefix back. `FoldedInto` shows that this is the foldback of the
whole message by definition, for runs over symbols of any length, and
`KeepsNearest` that the pair kept is not farther than any before it, in the
order of `operator<` on vectors, which `VectorsAreOrdered` shows to be an order.

**The projections.** `ComparedSoFar` says which pairs have been compared, and
that equal values are among them from the first pass on, whatever is projected;
`BestKept` says of what is kept that it was scored and nothing scored is nearer.
`BestTakesIn` carries this over one bucket: the nearest of those nearer than
what is kept, and of these the first. An exact pair has distance 0 and cannot
be replaced, so a second pass implies that there are no equal values.

**The divergent beam.** The symbols of a palette are `branch` slices of 0..255,
shifted modulo 256, and so all different; the pairs of a depth have messages one
byte longer than those before, so that no pair is scored twice and the count is
that of the pairs. `PairLess` compares the digest distance first and one pair's
forward distance with the other's in reverse; `PairsAreOrdered` shows that it is
a strict order, total on pairs that follow from their messages. The first of the
beam is the least of its depth, `outcomes` the least of all depths so far: a pair
dropped behind it is no better, so equal digests anywhere give the exit code.

**The pairs.** Two messages that differ in one byte, with one forward state and
one suffix behind both, have the same return symbols up to that byte and from it
on (`PairBehind`, for a suffix of any length). `AlikeUntil` makes their states
one up to it, so that what `foldback_aware_alias` computes once is the state of
each (`GateIs`), and `MetStaysMet` keeps them one once they are. The invariant of
the profile, `Halfway`, says where in the foldback its two states are and what
`first_divergence_step` and `reconverged` tell of them: they can only part at
that byte, and where they do not, different return symbols of one state had one
effect. That is the direct alias counted, and for the dual search an alias in
the surface of that state (`DirectIsAlias`), once per pair. For the sample the
messages tried are split into those of earlier seeds, whose best is in
`outcomes`, and those of the seed at hand, whose best is in `seen.least`
(`Divided`): the smaller of two bests is the best of both (`BestsJoin`). Without
suffixes a merge of a pair counts once when it is met and once more with its
empty suffix, and as no pair is listed twice, the number of merged pairs is that
of merged messages (`BaresMerged`).

**The probe.** `longest_path` is a recursive function of the bound; its value is
shown to be a chain (`ChainGoesOn`: an alias before a chain of the state behind it
is a chain) and, by induction over the bound, one than which none within the bound
is longer (`ChainSplits`, `LongestStays`). The loop over the seeds keeps, in
`BestOf`, that the path kept is a chain behind the seed kept and no seed seen so
far has a longer one. That no chain as long comes before it is carried through the
same induction: two chains of one length that begin with different aliases are
told apart by those, two that begin with the same one by their tails
(`FirstDifference`), and an alias listed earlier has a shorter chain behind it, or
the strict comparison would have kept that. The messages behind a seed and an alias differ by their first
three bytes or by the symbol of the alias, and one suffix takes their one state to
one state (`BranchIs`); that a message's values are fewer than four just when two
of them are equal (`FewerValues`) makes the counters those of the cases.
Doubling keeps the messages different, since they have one length, and their
state that of the chain (`FamilyGrows`), so the `forward_equal` printed is true.

**The streaming API.** `Return` answers with what the two loops have read, so the
refinement needs to know that this is the message and its reverse. `Inv` says so
byte by byte: `HasRead` relates what a call has read to the message of its
object, and a call keeps to an object that is kept or its own, whose message is
still the one it was called with. An `update` keeps `Inv` because of `Unshared`,
the destruction of a call's own object because no other call can use it. When
both loops have ended the pointwise facts make two equal sequences (`AllRead`).
Reading a byte is a stutter of `Oracle`, and every other action one of its steps.

**Induction.** The induction theorems of the library take a predicate as a
parameter, which none of the provers used can instantiate. `InductionTheorems`
states them for the set of values that satisfy the predicate, derives from them
that recursive functions and folds exist and are unique, and goes on to sums,
orders, powers of two and lists. The modules proved about therefore have
recursive functions and folds but no recursive operators.

**Only model-checked.** `KnownAnswers`, which is about the data of the test
vectors; and the liveness properties `Termination` and `Ends`: the provers used
reach neither liveness under fairness nor `ENABLED`.

## 5. What is not modelled

- Formatting, argument parsing and printing (`hex.cpp`, `main.cpp`, the `main`
  of each tool): no state that matters to a property.
- The statistics probes: they add up independent samples.
- `collision_probe.cpp`, `alignment_probe.cpp`, `return_alias_surface.cpp`: loops
  over inputs that do not depend on each other; the first is a table search of
  the kind `FirstSeen` models.
- `stage4_digest_r2.sh`, `release_check.sh` and the analyses in Python: commands
  one after the other, and controllers that were not adopted.
- In the modelled tools: options and their checks, printing and its limits,
  timing, histograms, means and percentiles that are only printed, and exceptions
  for want of memory or threads.
- Fingerprints (`research_tool_common.hpp`): functions without state; the models
  let them be any function and need no more. The same goes for distances, but in
  `BridgedBeam`, which has those of the code.
- The Python reference: a second implementation of what `Engine` models.
- Cryptographic strength (collision resistance, avalanche): no statement a
  model checker or a prover of this kind can decide.

## 6. The plan

The plan is carried out: what is left of the system is sampling, printing and
scripts, and every safety property of the passing runs but `KnownAnswers` has its
theorem.
