------------------------------ MODULE Research ------------------------------
(***************************************************************************)
(* The research state API of src/src/research.cpp: absorbing a symbol, the *)
(* forward pass and the foldback on explicit snapshots, one call at a      *)
(* time.  Each is a function of its arguments; the searches of tools/ are  *)
(* built on them and never run compute() for a state.                      *)
(*                                                                         *)
(* Module Engine absorbs the same symbols move by move in one process, so  *)
(* that the two ways to a state can be compared.                           *)
(***************************************************************************)
EXTENDS Engine, SequencesExt

(* What a call that throws std::invalid_argument answers.                  *)
Refusal == [refused |-> TRUE]

Fields == {"cube", "cursor", "previous_axis", "symbol_index"}

InitialState == [cube |-> PerfectCube, cursor |-> Origin, previous_axis |-> "x",
                 symbol_index |-> 0]

(* Seeded fault: the symbols behind the snapshot are counted from 0.       *)
WorkingStateRestarted(state, moves) ==
  [cube |-> state.cube, cursor |-> state.cursor, previous_axis |-> state.previous_axis,
   symbol_index |-> 0, trace |-> moves]

(* A working state that goes on from the snapshot and adds to the trace.   *)
WorkingStateFrom(state, moves) ==
  [cube |-> state.cube, cursor |-> state.cursor, previous_axis |-> state.previous_axis,
   symbol_index |-> state.symbol_index, trace |-> moves]

(* snapshot() of a working state.                                          *)
SnapshotOf(working) == [f \in Fields |-> working[f]]

-----------------------------------------------------------------------------
(* absorb_symbol, all its moves at once.                                   *)

FirstControl(w, s, p) ==
  IF p.systematic_absorb THEN SystematicControl(s, w.symbol_index, w.cursor)
                         ELSE FreeControl(s, w.symbol_index, w.cursor)

AxisOfMove(w, s, control_byte, n, p) ==
  LET geometry == Geometry(w.cursor, n, w.symbol_index)
  IN  IF p.systematic_absorb
      THEN SystematicAxis(s, control_byte, n, w.cube[w.cursor], geometry, w.previous_axis)
      ELSE FreeAxis(control_byte, n, w.cube[w.cursor], geometry, w.previous_axis)

AmountOfMove(w, s, control_byte, n, axis, injected, p) ==
  LET geometry == Geometry(w.cursor, n, w.symbol_index)
  IN  IF ~p.systematic_absorb
      THEN FreeAmount(s, control_byte, w.cube[w.cursor], geometry, axis)
      ELSE IF n < 3 THEN injected[n]
           ELSE DiffusionAmount(s, control_byte, n, w.cube[w.cursor], geometry, axis)

NextControl(s, control_byte, n, axis, amount, probe_after, coord_after, p) ==
  IF p.systematic_absorb
  THEN SystematicNextControl(s, control_byte, n, axis, amount, probe_after, coord_after)
  ELSE FreeNextControl(control_byte, n, axis, amount, probe_after, coord_after)

(* The working state behind a move, from the one before it.                *)
Moved(w, s, n, axis, amount) ==
  LET after == Advance(w.cursor, axis, amount)
  IN  [cube |-> RotateLine(w.cube, axis, w.cursor, amount),
       cursor |-> after, previous_axis |-> axis, symbol_index |-> w.symbol_index,
       trace |-> Append(w.trace, [axis |-> axis, before |-> w.cursor, after |-> after,
                                  amount |-> amount, symbol |-> s, phase |-> n,
                                  symbol_index |-> w.symbol_index])]

(* One iteration of the loop, on a working state and a control byte.       *)
Controlled(moved, s, control_byte, n, axis, amount, p) ==
  [at |-> moved,
   control |-> NextControl(s, control_byte, n, axis, amount,
                           moved.cube[moved.cursor], moved.cursor, p)]

Turned(before, s, n, axis, amount, p) ==
  Controlled(Moved(before.at, s, n, axis, amount), s, before.control, n, axis, amount, p)

Steered(before, s, n, axis, injected, p) ==
  Turned(before, s, n, axis,
         AmountOfMove(before.at, s, before.control, n, axis, injected, p), p)

MoveOn(before, s, n, injected, p) ==
  Steered(before, s, n, AxisOfMove(before.at, s, before.control, n, p), injected, p)

AbsorbSymbol(w, s, p) ==
  LET injected == InjAmounts(s, ContextDigits(w.symbol_index, w.cursor, w.previous_axis,
                                              w.cube[w.cursor]))
      loop[n \in 0..p.moves_per_symbol] ==
        IF n = 0 THEN [at |-> w, control |-> FirstControl(w, s, p)]
        ELSE MoveOn(loop[n - 1], s, n - 1, injected, p)
  IN  [loop[p.moves_per_symbol].at EXCEPT !.symbol_index = @ + 1]

(* The symbols one after the other.                                        *)
AbsorbAll(working, symbols, p) ==
  LET behind[n \in 0..Len(symbols)] ==
        IF n = 0 THEN working ELSE AbsorbSymbol(behind[n - 1], symbols[n], p)
  IN  behind[Len(symbols)]

(* The symbols absorb_foldback absorbs.                                    *)
ReturnSymbols(message, p) ==
  IF p.enable_foldback
  THEN Reverse([n \in DOMAIN message |-> ReturnSymbol(message[n], n - 1)])
  ELSE <<>>

-----------------------------------------------------------------------------
(* The calls.  A call that returns answers with the snapshot it reached    *)
(* and the moves it added to the trace it was given.                       *)

Answer(state, symbols, p) ==
  IF ~Valid(p) \/ (symbols # <<>> /\ ~Supported(p)) THEN Refusal
  ELSE \* named once, for it is computed move by move
       CHOOSE answer \in {[state |-> SnapshotOf(w), moves |-> w.trace] :
                            w \in {AbsorbAll(WorkingStateFrom(state, <<>>), symbols, p)}} : TRUE

AbsorbSymbolForResearch(state, s, p) == Answer(state, <<s>>, p)

ForwardStateForResearch(message, p) == Answer(InitialState, message, p)

FoldbackStateForResearch(message, p) ==
  Answer(InitialState, message \o ReturnSymbols(message, p), p)

FoldbackFromForwardState(forward_state, message, p) ==
  Answer(forward_state, ReturnSymbols(message, p), p)

-----------------------------------------------------------------------------
(* In the middle of the forward pass the snapshot of compute() is what the *)
(* API says of the bytes absorbed so far, in one call or symbol by symbol. *)
ForwardAgrees ==
  pc = "forward" /\ ~absorbing /\ (Supported(parameters) \/ i = 0) =>
    /\ \E behind \in {ForwardStateForResearch(SubSeq(bytes, 1, i), parameters)} :
         behind.state = Snapshot /\ (keep.trace => behind.moves = trace)
    /\ i > 0 =>
         \E before \in {ForwardStateForResearch(SubSeq(bytes, 1, i - 1), parameters)} :
           AbsorbSymbolForResearch(before.state, bytes[i], parameters).state = Snapshot

(* At the end of the foldback it is what the API answers for the message,  *)
(* and the foldback resumed from the snapshot of the forward pass makes    *)
(* the very moves compute() has made since.                                *)
FoldbackAgrees ==
  Leaving("foldback") =>
    /\ FoldbackStateForResearch(bytes, parameters).state = Snapshot
    /\ \E forward \in {ForwardStateForResearch(bytes, parameters)} :
       \E resumed \in {FoldbackFromForwardState(forward.state, bytes, parameters)} :
         /\ resumed.state = Snapshot
         /\ keep.trace => trace = forward.moves \o resumed.moves

(* The API refuses what compute() refuses, if there is a symbol at all.    *)
RefusesAlike ==
  Terminated /\ bytes # <<>> =>
    (ForwardStateForResearch(bytes, parameters) = Refusal <=> pc # "done")

(* The searches may take the states of the API for those compute() passes  *)
(* through: nothing is lost by stopping at a snapshot and going on from it,*)
(* neither the symbol index nor the axis, in states or in traces.          *)
ResearchAgrees == ForwardAgrees /\ FoldbackAgrees /\ RefusesAlike

=============================================================================
