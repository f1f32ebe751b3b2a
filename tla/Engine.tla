------------------------------- MODULE Engine -------------------------------
(***************************************************************************)
(* compute() of src/src/engine.cpp: the schedule that turns a message into *)
(* a digest, one rotation at a time.                                       *)
(*                                                                         *)
(*   validate -> forward -> foldback -> frame -> diagonal -> orbit         *)
(*            -> squeeze <-> feed -> done                                  *)
(*                                                                         *)
(* Each phase chooses a symbol from the state it finds and has it          *)
(* absorbed; absorbing is moves_per_symbol steps of the controller, and    *)
(* only then does the phase go on.  The variables are the fields of        *)
(* WorkingState and the local variables of the functions on the stack.     *)
(* Cube, cursor and previous axis are those of module Walk, which this     *)
(* module implements (WalkSpec is a property of Spec).                     *)
(***************************************************************************)
EXTENDS Controllers, Walk, Sequences

CONSTANTS
  Messages,     (* the byte sequences hashed                              *)
  Parameters,   (* the HashParameters used                                *)
  Observers     (* the keep_trace and keep_checkpoints arguments used     *)

VARIABLES
  bytes,          (* the message: constant during a computation           *)
  parameters,     (* the HashParameters: constant during a computation    *)
  keep,           (* what is recorded: constant during a computation      *)
  pc,             (* the function and loop the program is in              *)
  i,              (* the counter of that loop                             *)
  j,              (* the counter of the inner loop of the squeeze         *)
  symbol_index,   (* WorkingState, with the variables of Walk             *)
  trace,          (* the recorded moves                                   *)
  absorbing,      (* absorb_symbol is on the stack                        *)
  symbol,         (* ... its argument                                     *)
  control,        (* ... its control byte                                 *)
  phase,          (* ... the number of moves made                         *)
  amounts,        (* ... inj_amounts of the systematic controller         *)
  chain,          (* the chaining byte of the squeeze                     *)
  digest,         (* the output so far; its last byte is "output"         *)
  checkpoints     (* the recorded checkpoints                             *)

callVars == <<bytes, parameters, keep>>
absorbVars == <<absorbing, symbol, control, phase, amounts>>
vars == <<callVars, pc, i, j, walkVars, symbol_index, trace, absorbVars,
          chain, digest, checkpoints>>

ASSUME SideIs8 == Side = 8

ParameterRecords ==
  [moves_per_symbol : Nat, diagonal_closure_symbols : Nat,
   orbit_closure_symbols : Nat, squeeze_bytes : Nat,
   squeeze_symbols_per_byte : Nat,
   enable_foldback : BOOLEAN, systematic_absorb : BOOLEAN]

ObserverRecords == [trace : BOOLEAN, checkpoints : BOOLEAN]

ASSUME MessagesAssumption == Messages \subseteq Seq(Byte)
ASSUME ParametersAssumption == Parameters \subseteq ParameterRecords
ASSUME ObserversAssumption == Observers \subseteq ObserverRecords

kMovesPerSymbol == 6
kDigestBytes == 32

-----------------------------------------------------------------------------
(* Symbols chosen by the phases.                                           *)

length == EncodeLength(Len(bytes))
perfect_diagonals == BodyDiagonals(PerfectCube)

ReturnSymbol(byte, original_index) ==
  (byte ## perfect_diagonals[original_index % 32])
    ## U8(original_index * 8 + (original_index \div 8))

(* Seeded fault: the frame is closed by the first byte of the message.     *)
FrameSymbolOfMessage(k) ==
  IF k = 0 THEN 252
  ELSE IF k <= 8 THEN U8(length[k - 1] + perfect_diagonals[(k - 1) * 4] + (k - 1) * 8)
  ELSE IF bytes = <<>> THEN 8 ELSE bytes[1]

(* The ten symbols of the length frame: 252, the eight length bytes, 8.    *)
FrameSymbol(k) ==
  IF k = 0 THEN 252
  ELSE IF k <= 8 THEN U8(length[k - 1] + perfect_diagonals[(k - 1) * 4] + (k - 1) * 8)
  ELSE 8

DiagonalSymbol(k) ==
  LET current == BodyDiagonals(cube)
      folded  == U8(RotateLeftByte(current[k % 32], 1)
                    + RotateLeftByte(current[(k + 11) % 32], 3)
                    + RotateLeftByte(current[(k * 7 + 3) % 32], 5))
  IN  ((folded ## perfect_diagonals[(k * 13) % 32]) ## length[k % 8])
        ## U8(k * 8 + (k \div 4))

(* Seeded fault: the third quarter is read at the offset of the second.    *)
OrbitCellOverlapping(k, quarter) ==
  StorageCoord((k % 128) + 128 * (IF quarter = 2 THEN 1 ELSE quarter))

(* The cell step k of the orbit reads in quarter 0..3 of the storage.      *)
OrbitCell(k, quarter) == StorageCoord((k % 128) + 128 * quarter)

OrbitSymbol(k) ==
  LET v(quarter) == cube[OrbitCell(k, quarter)]
      pair_a == U8(RotateLeftByte(v(0), 1) + RotateLeftByte(v(1), 3))
      pair_b == U8(RotateLeftByte(v(2), 5) + RotateLeftByte(v(3), 7))
  IN  ((((pair_a ## pair_b) ## BodyDiagonals(cube)[(k * 5 + (k \div 8)) % 32])
          ## length[k % 8]) ## CoordinateCode(cursor))
        ## U8(k * 4 + (k \div 32))

DeriveDiagonalByte(diagonals, output_index, chaining) ==
  LET lane     == output_index \div 8
      position == output_index % 8
      a == diagonals[(lane % 4) * 8 + position]
      b == diagonals[((lane + 1) % 4) * 8 + ((position + 1 + lane) % 8)]
      c == diagonals[((lane + 2) % 4) * 8 + ((position + 3 + 2 * lane) % 8)]
      d == diagonals[((lane + 3) % 4) * 8 + ((position + 5 + 3 * lane) % 8)]
      pair_a == U8(RotateLeftByte(a, 1) + RotateLeftByte(b, 3))
      pair_b == U8(RotateLeftByte(c, 5) + RotateLeftByte(d, 7))
      cross  == U8(diagonals[(output_index * 7 + 3) % 32]
                   + diagonals[(output_index * 13 + 1) % 32])
  IN  U8(RotateLeftByte((pair_a ## pair_b) ## chaining, 1 + position)
         + RotateLeftByte(cross, 1 + lane * 2)
         + U8(output_index * 8 + lane))

InitialChain ==
  LET initial == BodyDiagonals(cube)
  IN  (((initial[0] ## RotateLeftByte(initial[9], 1))
          ## RotateLeftByte(initial[18], 3))
          ## RotateLeftByte(initial[27], 5)) ## length[0]

FeedSymbol(k, diagonal, output) ==
  LET current  == BodyDiagonals(cube)
      position == k % 8
      lane     == k \div 8
      dlane    == diagonal % 4
      left     == current[dlane * 8 + ((position + diagonal + lane) % 8)]
      right    == current[((dlane + 1) % 4) * 8 + (((7 - position) + lane + diagonal) % 8)]
  IN  U8(RotateLeftByte(left, 1 + 2 * dlane)
         + RotateLeftByte(right, 7 - 2 * dlane)
         + RotateLeftByte(output, 1 + (diagonal % 8))
         + chain
         + length[(k + diagonal) % 8]
         + U8(k * parameters.squeeze_symbols_per_byte + diagonal))

NextChain(k, output) ==
  U8(RotateLeftByte(chain, 1 + (k % 8)) + output
     + BodyDiagonals(cube)[(k * 5 + 7) % 32]
     + cube[cursor] + CoordinateCode(cursor))
-----------------------------------------------------------------------------
(* validate_hash_parameters                                                *)

Valid(p) ==
  /\ p.moves_per_symbol \in 1..255
  /\ p.diagonal_closure_symbols <= 4096
  /\ p.orbit_closure_symbols <= 4096
  /\ p.squeeze_bytes \in 1..kDigestBytes
  /\ p.squeeze_symbols_per_byte \in 1..64

(* What absorb_symbol requires beyond that.                                *)
Supported(p) == p.systematic_absorb => p.moves_per_symbol = kMovesPerSymbol

-----------------------------------------------------------------------------
(* absorb_symbol                                                           *)

Probe == cube[cursor]

(* Entering absorb_symbol with symbol s, past its check of the parameters. *)
Absorb(s) ==
  /\ Supported(parameters)
  /\ absorbing' = TRUE
  /\ symbol' = s
  /\ phase' = 0
  /\ IF parameters.systematic_absorb
     THEN /\ control' = SystematicControl(s, symbol_index, cursor)
          /\ amounts' = InjAmounts(s, ContextDigits(symbol_index, cursor, previous_axis, Probe))
     ELSE /\ control' = FreeControl(s, symbol_index, cursor)
          /\ UNCHANGED amounts
  /\ UNCHANGED <<callVars, walkVars, symbol_index, trace, digest, checkpoints>>

(* Seeded fault: intersection_before is read after the cursor has moved.   *)
MoveRecordedLate(axis, amount) ==
  /\ cube' = RotateLine(cube, axis, cursor, amount)
  /\ cursor' = Advance(cursor, axis, amount)
  /\ previous_axis' = axis
  /\ trace' = IF keep.trace
              THEN Append(trace, [axis |-> axis, before |-> cursor', after |-> cursor',
                                  amount |-> amount, symbol |-> symbol,
                                  phase |-> phase, symbol_index |-> symbol_index])
              ELSE trace
  /\ phase' = phase + 1
  /\ IF phase' = parameters.moves_per_symbol
     THEN absorbing' = FALSE /\ symbol_index' = symbol_index + 1
     ELSE UNCHANGED <<absorbing, symbol_index>>
  /\ UNCHANGED <<callVars, pc, i, j, symbol, amounts, chain, digest, checkpoints>>

(* One iteration of the move loop, up to the update of control; the last   *)
(* one returns from absorb_symbol and counts the symbol.                   *)
Move(axis, amount) ==
  /\ cube' = RotateLine(cube, axis, cursor, amount)
  /\ cursor' = Advance(cursor, axis, amount)
  /\ previous_axis' = axis
  /\ trace' = IF keep.trace
              THEN Append(trace, [axis |-> axis, before |-> cursor, after |-> cursor',
                                  amount |-> amount, symbol |-> symbol,
                                  phase |-> phase, symbol_index |-> symbol_index])
              ELSE trace
  /\ phase' = phase + 1
  /\ IF phase' = parameters.moves_per_symbol
     THEN absorbing' = FALSE /\ symbol_index' = symbol_index + 1
     ELSE UNCHANGED <<absorbing, symbol_index>>
  /\ UNCHANGED <<callVars, pc, i, j, symbol, amounts, chain, digest, checkpoints>>

FreeMove ==
  /\ absorbing /\ ~parameters.systematic_absorb
  /\ LET geometry == Geometry(cursor, phase, symbol_index)
     IN  \E axis \in {FreeAxis(control, phase, Probe, geometry, previous_axis)} :
         \E amount \in {FreeAmount(symbol, control, Probe, geometry, axis)} :
           /\ Move(axis, amount)
           /\ control' = FreeNextControl(control, phase, axis, amount,
                                         cube'[cursor'], cursor')

SystematicMove ==
  /\ absorbing /\ parameters.systematic_absorb
  /\ LET geometry == Geometry(cursor, phase, symbol_index)
     IN  \E axis \in {SystematicAxis(symbol, control, phase, Probe, geometry, previous_axis)} :
         \E amount \in {IF phase < 3 THEN amounts[phase]
                         ELSE DiffusionAmount(symbol, control, phase, Probe, geometry, axis)} :
           /\ Move(axis, amount)
           /\ control' = SystematicNextControl(symbol, control, phase, axis, amount,
                                               cube'[cursor'], cursor')

-----------------------------------------------------------------------------
(* compute                                                                 *)

Snapshot == [cube |-> cube, cursor |-> cursor, previous_axis |-> previous_axis,
             symbol_index |-> symbol_index]

AddCheckpoint(name, index) ==
  checkpoints' = IF keep.checkpoints
                 THEN Append(checkpoints, [phase |-> name, index |-> index,
                                           state |-> Snapshot])
                 ELSE checkpoints

(* Seeded fault: the reverse loop of the foldback stops before byte 0.     *)
SymbolsLeftBeforeFirst ==
  \/ pc = "forward"  /\ i < Len(bytes)
  \/ pc = "foldback" /\ parameters.enable_foldback /\ i > 1
  \/ pc = "frame"    /\ i < 10
  \/ pc = "diagonal" /\ i < parameters.diagonal_closure_symbols
  \/ pc = "orbit"    /\ i < parameters.orbit_closure_symbols
  \/ pc = "feed"     /\ j < parameters.squeeze_symbols_per_byte

(* Seeded fault: the orbit runs one step too far.                          *)
SymbolsLeftInclusive ==
  \/ pc = "forward"  /\ i < Len(bytes)
  \/ pc = "foldback" /\ parameters.enable_foldback /\ i > 0
  \/ pc = "frame"    /\ i < 10
  \/ pc = "diagonal" /\ i < parameters.diagonal_closure_symbols
  \/ pc = "orbit"    /\ i <= parameters.orbit_closure_symbols
  \/ pc = "feed"     /\ j < parameters.squeeze_symbols_per_byte

(* The loop of the current phase has another symbol to absorb.             *)
SymbolsLeft ==
  \/ pc = "forward"  /\ i < Len(bytes)
  \/ pc = "foldback" /\ parameters.enable_foldback /\ i > 0
  \/ pc = "frame"    /\ i < 10
  \/ pc = "diagonal" /\ i < parameters.diagonal_closure_symbols
  \/ pc = "orbit"    /\ i < parameters.orbit_closure_symbols
  \/ pc = "feed"     /\ j < parameters.squeeze_symbols_per_byte

Looping(loop) == pc = loop /\ ~absorbing /\ SymbolsLeft
Leaving(loop) == pc = loop /\ ~absorbing /\ ~SymbolsLeft

Reject ==
  /\ pc = "validate" /\ ~Valid(parameters)
  /\ pc' = "rejected"
  /\ UNCHANGED <<callVars, i, j, walkVars, symbol_index, trace, absorbVars,
                 chain, digest, checkpoints>>

Begin ==
  /\ pc = "validate" /\ Valid(parameters)
  /\ pc' = "forward"
  /\ AddCheckpoint("Initial", 0)
  /\ UNCHANGED <<callVars, i, j, walkVars, symbol_index, trace, absorbVars,
                 chain, digest>>

(* absorb_symbol throws on its parameters: the exception leaves compute.   *)
Unsupported ==
  /\ ~absorbing /\ SymbolsLeft /\ ~Supported(parameters)
  /\ pc' = "unsupported"
  /\ UNCHANGED <<callVars, i, j, walkVars, symbol_index, trace, absorbVars,
                 chain, digest, checkpoints>>

Forward ==
  /\ Looping("forward")
  /\ Absorb(bytes[i + 1])
  /\ i' = i + 1
  /\ UNCHANGED <<pc, j, chain>>

(* Leaving a phase: its checkpoint is taken and the next loop starts at k. *)
LeaveFor(loop, k) ==
  /\ pc' = loop
  /\ i' = k
  /\ UNCHANGED <<callVars, j, walkVars, symbol_index, trace, absorbVars, digest>>

EndForward ==
  /\ Leaving("forward")
  /\ AddCheckpoint("AfterForward", Len(bytes))
  /\ LeaveFor("foldback", Len(bytes))
  /\ UNCHANGED chain

(* i is the variable reverse of absorb_foldback.                           *)
Foldback ==
  /\ Looping("foldback")
  /\ Absorb(ReturnSymbol(bytes[i], i - 1))
  /\ i' = i - 1
  /\ UNCHANGED <<pc, j, chain>>

EndFoldback ==
  /\ Leaving("foldback")
  /\ AddCheckpoint("AfterFoldback", Len(bytes))
  /\ LeaveFor("frame", 0)
  /\ UNCHANGED chain

Frame ==
  /\ Looping("frame")
  /\ Absorb(FrameSymbol(i))
  /\ i' = i + 1
  /\ UNCHANGED <<pc, j, chain>>

EndFrame ==
  /\ Leaving("frame")
  /\ LeaveFor("diagonal", 0)
  /\ UNCHANGED <<chain, checkpoints>>

DiagonalClosure ==
  /\ Looping("diagonal")
  /\ Absorb(DiagonalSymbol(i))
  /\ i' = i + 1
  /\ UNCHANGED <<pc, j, chain>>

EndDiagonalClosure ==
  /\ Leaving("diagonal")
  /\ AddCheckpoint("AfterDiagonalClosure", parameters.diagonal_closure_symbols)
  /\ LeaveFor("orbit", 0)
  /\ UNCHANGED chain

OrbitClosure ==
  /\ Looping("orbit")
  /\ Absorb(OrbitSymbol(i))
  /\ i' = i + 1
  /\ UNCHANGED <<pc, j, chain>>

(* squeeze_diagonals starts by deriving the chaining byte.                 *)
EndOrbitClosure ==
  /\ Leaving("orbit")
  /\ AddCheckpoint("AfterOrbitClosure", parameters.orbit_closure_symbols)
  /\ LeaveFor("squeeze", 0)
  /\ chain' = InitialChain

SqueezeByte ==
  /\ pc = "squeeze" /\ i < parameters.squeeze_bytes
  /\ digest' = Append(digest, DeriveDiagonalByte(BodyDiagonals(cube), i, chain))
  /\ pc' = "feed"
  /\ j' = 0
  /\ UNCHANGED <<callVars, i, walkVars, symbol_index, trace, absorbVars, chain,
                 checkpoints>>

Feed ==
  /\ Looping("feed")
  /\ Absorb(FeedSymbol(i, j, digest[Len(digest)]))
  /\ j' = j + 1
  /\ UNCHANGED <<pc, i, chain>>

(* Seeded fault: the checkpoint is numbered after the byte to come.        *)
EndFeedNumberedNext ==
  /\ Leaving("feed")
  /\ chain' = NextChain(i, digest[Len(digest)])
  /\ AddCheckpoint("AfterSqueezeByte", i + 1)
  /\ LeaveFor("squeeze", i + 1)

EndFeed ==
  /\ Leaving("feed")
  /\ chain' = NextChain(i, digest[Len(digest)])
  /\ AddCheckpoint("AfterSqueezeByte", i)
  /\ LeaveFor("squeeze", i + 1)

(* Seeded fault: the squeeze ends when the digest has its full width only. *)
FinishAtFullWidth ==
  /\ pc = "squeeze" /\ i = kDigestBytes
  /\ AddCheckpoint("Final", Len(digest))
  /\ LeaveFor("done", i)
  /\ UNCHANGED chain

Finish ==
  /\ pc = "squeeze" /\ i = parameters.squeeze_bytes
  /\ AddCheckpoint("Final", Len(digest))
  /\ LeaveFor("done", i)
  /\ UNCHANGED chain

Terminated == pc \in {"done", "rejected", "unsupported"}

(* A finished computation stays finished.                                  *)
Stay == Terminated /\ UNCHANGED vars

Init ==
  /\ bytes \in Messages /\ parameters \in Parameters /\ keep \in Observers
  /\ pc = "validate" /\ i = 0 /\ j = 0
  /\ WalkInit /\ symbol_index = 0
  /\ trace = <<>>
  /\ absorbing = FALSE /\ symbol = 0 /\ control = 0 /\ phase = 0
  /\ amounts = [which \in 0..2 |-> 0]
  /\ chain = 0
  /\ digest = <<>>
  /\ checkpoints = <<>>

Next ==
  \/ Reject \/ Begin \/ Unsupported
  \/ FreeMove \/ SystematicMove
  \/ Forward \/ EndForward \/ Foldback \/ EndFoldback
  \/ Frame \/ EndFrame \/ DiagonalClosure \/ EndDiagonalClosure
  \/ OrbitClosure \/ EndOrbitClosure
  \/ SqueezeByte \/ Feed \/ EndFeed \/ Finish
  \/ Stay

Spec == Init /\ [][Next]_vars

(* compute is one thread that never waits: while it can step, it does.     *)
FairSpec == Spec /\ WF_vars(Next)

=============================================================================
