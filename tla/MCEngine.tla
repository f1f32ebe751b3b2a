------------------------------ MODULE MCEngine ------------------------------
(* The instances of the engine that are checked: the program's own cube,   *)
(* its presets and a few other parameter records, and short messages.      *)
EXTENDS EngineProperties, Research, Finalization, PerfectValues

MCPerfectCube == [c \in Coord |-> kPerfectCube[Index(c) + 1]]

Preset(moves, diagonal, orbit, squeeze_bytes, squeeze_symbols, foldback, systematic) ==
  [moves_per_symbol |-> moves, diagonal_closure_symbols |-> diagonal,
   orbit_closure_symbols |-> orbit, squeeze_bytes |-> squeeze_bytes,
   squeeze_symbols_per_byte |-> squeeze_symbols, enable_foldback |-> foldback,
   systematic_absorb |-> systematic]

RotHash1 == Preset(6, 64, 128, 32, 4, TRUE, FALSE)
RotHash2 == Preset(6, 64, 128, 32, 4, TRUE, TRUE)
R0Minimal == Preset(1, 0, 0, 4, 1, FALSE, FALSE)
R1Foldback == Preset(2, 8, 0, 8, 1, TRUE, FALSE)

(* More than eight moves, so that the index bytes start over; no foldback  *)
(* with closures; the systematic controller in a small schedule.           *)
LongSymbols == Preset(10, 1, 2, 2, 3, TRUE, FALSE)
NoFoldback == Preset(3, 2, 2, 1, 5, FALSE, FALSE)
SmallSystematic == Preset(6, 2, 3, 2, 2, TRUE, TRUE)
(* An orbit that runs beyond the 128 steps that cover the cube.            *)
LongOrbit == Preset(1, 0, 130, 1, 1, FALSE, FALSE)
(* Refused by validate_hash_parameters.                                    *)
NoMoves == Preset(0, 2, 2, 4, 1, TRUE, FALSE)
WideDigest == Preset(6, 2, 2, 33, 1, TRUE, FALSE)
(* Accepted by it and refused by absorb_symbol.                            *)
ShortSystematic == Preset(2, 2, 2, 4, 1, TRUE, TRUE)

Silent == [trace |-> FALSE, checkpoints |-> FALSE]
Traced == [trace |-> TRUE, checkpoints |-> FALSE]
Recorded == [trace |-> TRUE, checkpoints |-> TRUE]

MCCanonical == {RotHash1, RotHash2}
MCReduced == {R0Minimal, R1Foldback, LongSymbols, NoFoldback, SmallSystematic, LongOrbit,
              NoMoves, WideDigest, ShortSystematic}
MCRefusals == {ShortSystematic, R0Minimal}

MCSilent == {Silent}
MCObservers == {Silent, Traced, Recorded}

MCTwoWords == {<<>>, <<97, 98, 99>>}
MCMessages == {<<>>, <<0, 9>>, <<255, 7>>}
MCEmpty == {<<>>}

MCAltered(position, byte) == 255 - byte

-----------------------------------------------------------------------------
(* The published digests of the empty message and of "abc" under both      *)
(* algorithms (test-vectors/official-v1.rsp and official-v2.rsp).          *)
PublishedDigest(p, message) ==
  CASE p = RotHash1 /\ message = <<>> ->
       <<127, 1, 235, 60, 225, 49, 49, 239, 41, 15, 132, 40, 237, 114, 91, 132,
         159, 135, 94, 73, 173, 108, 100, 108, 201, 244, 241, 177, 161, 229, 115, 75>>
    [] p = RotHash1 /\ message = <<97, 98, 99>> ->
       <<243, 43, 34, 65, 169, 80, 215, 231, 178, 176, 6, 255, 138, 226, 208, 176,
         143, 2, 219, 35, 192, 216, 253, 225, 152, 223, 223, 158, 150, 66, 5, 31>>
    [] p = RotHash2 /\ message = <<>> ->
       <<156, 79, 8, 153, 37, 82, 32, 166, 11, 172, 109, 247, 102, 28, 197, 5,
         131, 242, 95, 7, 106, 211, 114, 84, 178, 112, 181, 70, 133, 206, 134, 74>>
    [] p = RotHash2 /\ message = <<97, 98, 99>> ->
       <<156, 27, 80, 46, 142, 172, 78, 160, 126, 24, 38, 94, 163, 15, 136, 140,
         77, 95, 216, 174, 129, 250, 30, 212, 83, 194, 192, 153, 212, 214, 143, 219>>

(* The model computes the digests the program publishes, byte for byte:    *)
(* one wrong constant, order or wrap-around in any of the thousands of     *)
(* moves behind a digest would change it (tests/test_main.cpp:67, 409).    *)
KnownAnswers == pc = "done" => digest = PublishedDigest(parameters, bytes)

=============================================================================
