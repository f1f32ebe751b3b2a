-------------------------- MODULE EngineProperties --------------------------
(***************************************************************************)
(* What module Engine promises: how far each phase of compute() has come   *)
(* in terms of symbols absorbed, what its two optional records (the trace  *)
(* and the checkpoints) say about it, that it is a walk on the cube, and   *)
(* what the symbol channel of the systematic controller keeps.             *)
(***************************************************************************)
EXTENDS Engine, SequencesExt

(* The values the variables range over.  phase and the loop counters are   *)
(* bounded by the parameters, chain, control and symbol are bytes.         *)
CallTypeOK ==
  /\ bytes \in Messages /\ parameters \in Parameters /\ keep \in Observers
  /\ pc \in {"validate", "forward", "foldback", "frame", "diagonal", "orbit",
             "squeeze", "feed", "done", "rejected", "unsupported"}
  /\ i \in Nat /\ j \in Nat

AbsorbTypeOK ==
  /\ absorbing \in BOOLEAN
  /\ symbol \in Byte /\ control \in Byte
  /\ phase \in Nat /\ (absorbing => phase < parameters.moves_per_symbol)
  /\ amounts \in [0..2 -> 0..(Side - 1)]
  /\ symbol_index \in Nat

MoveRecords == [axis : Axes, before : Coord, after : Coord, amount : 1..(Side - 1),
                symbol : Byte, phase : Nat, symbol_index : Nat]

OutputTypeOK ==
  /\ chain \in Byte
  /\ digest \in Seq(Byte)
  /\ trace \in Seq(MoveRecords)

TypeOK == CallTypeOK /\ WalkTypeOK /\ AbsorbTypeOK /\ OutputTypeOK

-----------------------------------------------------------------------------
(* How many symbols have been begun when the loop of pc is at i (and j).   *)

MessageSymbols == Len(bytes)
FoldbackSymbols == IF parameters.enable_foldback THEN Len(bytes) ELSE 0
FramedSymbols == MessageSymbols + FoldbackSymbols + 10
ClosedSymbols == FramedSymbols + parameters.diagonal_closure_symbols
                 + parameters.orbit_closure_symbols

Begun == symbol_index + (IF absorbing THEN 1 ELSE 0)

(* Every phase begins where the phase before it must end: the number of    *)
(* symbols absorbed is a function of the place in the program.  symbol_    *)
(* index is the only thing that tells equal symbols apart, so a loop that  *)
(* ran once too often or too seldom, or a phase entered while the previous *)
(* one still had a symbol to absorb, would change every later digest byte. *)
SymbolSchedule ==
  /\ pc \in {"validate", "rejected", "unsupported"} => Begun = 0
  /\ pc = "forward"  => /\ i \in 0..MessageSymbols
                        /\ Begun = i
  /\ pc = "foldback" => /\ i \in 0..MessageSymbols
                        /\ Begun = MessageSymbols
                                   + (IF parameters.enable_foldback
                                      THEN MessageSymbols - i ELSE 0)
  /\ pc = "frame"    => /\ i \in 0..10
                        /\ Begun = MessageSymbols + FoldbackSymbols + i
  /\ pc = "diagonal" => /\ i \in 0..parameters.diagonal_closure_symbols
                        /\ Begun = FramedSymbols + i
  /\ pc = "orbit"    => /\ i \in 0..parameters.orbit_closure_symbols
                        /\ Begun = FramedSymbols + parameters.diagonal_closure_symbols + i
  /\ pc = "squeeze"  => /\ i \in 0..parameters.squeeze_bytes
                        /\ Begun = ClosedSymbols + i * parameters.squeeze_symbols_per_byte
  /\ pc = "feed"     => /\ i \in 0..(parameters.squeeze_bytes - 1)
                        /\ j \in 0..parameters.squeeze_symbols_per_byte
                        /\ Begun = ClosedSymbols
                                   + i * parameters.squeeze_symbols_per_byte + j
  /\ pc = "done"     => /\ i = parameters.squeeze_bytes
                        /\ Begun = ClosedSymbols
                                   + i * parameters.squeeze_symbols_per_byte

-----------------------------------------------------------------------------
(* The records.                                                            *)

(* The capacity compute() reserves for the trace before it starts.         *)
ReservedMoves ==
  (Len(bytes) + FoldbackSymbols + 2 + 8
   + parameters.diagonal_closure_symbols + parameters.orbit_closure_symbols
   + parameters.squeeze_bytes * parameters.squeeze_symbols_per_byte)
  * parameters.moves_per_symbol

(* The capacity reserved in advance, a closed formula over the parameters, *)
(* agrees with what the loops then do: the trace never outgrows it and a   *)
(* finished computation has filled it.                                     *)
ReservationExact ==
  keep.trace =>
    /\ Len(trace) <= ReservedMoves
    /\ pc = "done" => Len(trace) = ReservedMoves

(* The trace alone is enough to redo the computation: starting from the    *)
(* perfect cube, turning the recorded line of every move by the recorded   *)
(* amount arrives at the cube, the cursor and the axis compute() ended in, *)
(* and each move is recorded at the cell where the one before it ended.    *)
Redone(at, move) ==
  [cube |-> RotateLine(at.cube, move.axis, move.before, move.amount),
   cursor |-> move.after,
   connected |-> at.connected /\ move.before = at.cursor
                 /\ move.after = Advance(at.cursor, move.axis, move.amount)]

Replay ==
  LET behind[n \in 0..Len(trace)] ==
        IF n = 0 THEN [cube |-> PerfectCube, cursor |-> Origin, connected |-> TRUE]
        ELSE Redone(behind[n - 1], trace[n])
  IN  behind[Len(trace)]

TraceReplays ==
  keep.trace /\ pc = "done" =>
    Replay = [cube |-> cube, cursor |-> cursor, connected |-> TRUE]

(* The order of the checkpoints, and the symbols absorbed at each.         *)
CheckpointPhases ==
  <<"Initial", "AfterForward", "AfterFoldback", "AfterDiagonalClosure",
    "AfterOrbitClosure">>
  \o [k \in 1..parameters.squeeze_bytes |-> "AfterSqueezeByte"] \o <<"Final">>

SymbolsAt(name, index) ==
  CASE name = "Initial"              -> 0
    [] name = "AfterForward"         -> index
    [] name = "AfterFoldback"        -> index + FoldbackSymbols
    [] name = "AfterDiagonalClosure" -> FramedSymbols + index
    [] name = "AfterOrbitClosure"    ->
         FramedSymbols + parameters.diagonal_closure_symbols + index
    [] name = "AfterSqueezeByte"     ->
         ClosedSymbols + (index + 1) * parameters.squeeze_symbols_per_byte
    [] name = "Final"                ->
         ClosedSymbols + index * parameters.squeeze_symbols_per_byte

(* The checkpoints come in the order of the phases, one per phase and one  *)
(* per byte of the squeeze (38 in the canonical configuration), and each   *)
(* is a snapshot of the moment its phase and index say it is: with a       *)
(* snapshot taken one statement early or late its symbol count is another. *)
CheckpointSchedule ==
  keep.checkpoints =>
    /\ \A k \in DOMAIN checkpoints :
         /\ checkpoints[k].phase = CheckpointPhases[k]
         /\ checkpoints[k].state.symbol_index
              = SymbolsAt(checkpoints[k].phase, checkpoints[k].index)
    /\ pc = "done" =>
         /\ Len(checkpoints) = Len(CheckpointPhases)
         /\ checkpoints[Len(checkpoints)].state = Snapshot

-----------------------------------------------------------------------------
(* The orbit.                                                              *)

(* However far the orbit closure has come, the cells it has read are all   *)
(* different, so its first 128 steps read every cell of the cube once      *)
(* ("covers each quarter exactly once", engine.cpp:116) and further steps  *)
(* start over.                                                             *)
OrbitCoverage ==
  pc = "orbit" /\ ~absorbing =>
    Cardinality({OrbitCell(k, quarter) : k \in 0..(i - 1), quarter \in 0..3})
      = 4 * (IF i < 128 THEN i ELSE 128)

-----------------------------------------------------------------------------
(* The systematic controller.                                              *)

(* Reads the symbol back from the first three amounts of its moves and the *)
(* digits of the context: 25 is the inverse of 41 modulo 256.              *)
DecodeAmounts(a, c_digits) ==
  LET digit(which) == (a[which] + 6 - c_digits[which]) % 7
  IN  ((digit(0) + 7 * digit(1) + 49 * digit(2) + 239) * 25) % 256

(* From whatever state a symbol is absorbed, the amounts of its first      *)
(* three moves determine it ("systematic injectivity channel",             *)
(* engine.cpp:258): no two of the 256 symbols begin with the same moves.   *)
(* That holds because the digits of the context do not read the symbol.    *)
SystematicChannel ==
  parameters.systematic_absorb /\ ~absorbing =>
    LET c_digits == ContextDigits(symbol_index, cursor, previous_axis, Probe)
    IN  \A s \in Byte : DecodeAmounts(InjAmounts(s, c_digits), c_digits) = s

-----------------------------------------------------------------------------
(* Accepting parameters is a promise: research.hpp says of                 *)
(* validate_hash_parameters that it throws for unsupported configurations, *)
(* so what it lets through should not be refused later.                    *)
ValidatedRuns == pc # "unsupported"

(* Every computation comes to its end: a digest or a refusal.              *)
Termination == <>Terminated

=============================================================================
