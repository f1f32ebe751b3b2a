----------------------------- MODULE Controllers ----------------------------
(***************************************************************************)
(* The two controllers of the engine: how a symbol and the working state   *)
(* determine the axis and the amount of each move, and the control byte    *)
(* that feeds the next one (src/src/engine.cpp).                           *)
(*                                                                         *)
(* A controller is a few byte-valued operators; the state machine that     *)
(* applies them is in module Engine.  In all of them phase is the number   *)
(* of the move within the symbol, probe the byte under the cursor before   *)
(* the move, and geometry the byte computed from cursor, phase and index.  *)
(***************************************************************************)
EXTENDS Cube

CoordinateCode(coord) == ((coord["x"] * 32) ## (coord["y"] * 4)) ## coord["z"]

(* Byte number phase % 8 of the 64-bit symbol index.                       *)
IndexByte(symbol_index, phase) == EncodeLength(symbol_index)[phase % 8]

Geometry(coord, phase, symbol_index) ==
  U8(CoordinateCode(coord) + 29 * phase + IndexByte(symbol_index, phase))

(* The axis that is n steps after this one in the cycle x, y, z.           *)
AxisAfter(axis, n) == CHOOSE a \in Axes : AxisCode[a] = (AxisCode[axis] + n) % 3

(* Seeded fault: an even selector keeps the previous axis.                 *)
ChooseAnyAxis(previous, selector) == AxisAfter(previous, selector % 2)

ChooseOtherAxis(previous, selector) == AxisAfter(previous, 1 + (selector % 2))

-----------------------------------------------------------------------------
(* PVC-RotHash-1: the free controller.                                     *)

FreeControl(symbol, symbol_index, coord) ==
  U8(symbol + U8(symbol_index) + CoordinateCode(coord))

FreeAxis(control, phase, probe, geometry, previous) ==
  ChooseOtherAxis(previous, (RotateLeftByte(control, phase) ## probe) ## geometry)

(* Seeded fault: reduced modulo the side instead of side - 1.              *)
FreeAmountMod8(symbol, control, probe, geometry, axis) ==
  (control + probe + geometry + symbol + AxisCode[axis] * 11) % 8

FreeAmount(symbol, control, probe, geometry, axis) ==
  1 + ((control + probe + geometry + symbol + AxisCode[axis] * 11) % 7)

(* Seeded fault: the sum is kept in a wider type than a byte.              *)
FreeNextControlWide(control, phase, axis, amount, probe_after, coord_after) ==
  RotateLeftByte(control, 1 + (AxisCode[axis] % 2))
  + probe_after + amount + CoordinateCode(coord_after) + U8(phase * 7)

FreeNextControl(control, phase, axis, amount, probe_after, coord_after) ==
  U8(RotateLeftByte(control, 1 + (AxisCode[axis] % 2))
     + probe_after + amount + CoordinateCode(coord_after) + U8(phase * 7))

-----------------------------------------------------------------------------
(* PVC-RotHash-2: the systematic controller.  The amounts of moves 0 to 2  *)
(* carry the symbol; those of moves 3 to 5 diffuse it.                     *)

ContextSeed(symbol_index, coord, previous, probe) ==
  ((U8(symbol_index) ## CoordinateCode(coord)) ## U8(AxisCode[previous] * 13))
    ## MulOddByte(probe, 19)

(* The offsets added to the three digits.  They do not read the symbol.    *)
ContextDigits(symbol_index, coord, previous, probe) ==
  LET g(which) == U8(CoordinateCode(coord) + which * 29 + U8(symbol_index)
                     + AxisCode[previous] * 11)
      mixed(which) ==
        ((MulOddByte(probe, 29)
          ## MulOddByte(ContextSeed(symbol_index, coord, previous, probe), 45))
          ## RotateLeftByte(g(which), which))
          ## U8(which * 19)
  IN  [which \in 0..2 |-> mixed(which) % 7]

PermuteSymbol(symbol) == (symbol * 41 + 17) % 256

(* Seeded fault: the third digit is taken modulo 7 of the wrong quotient,  *)
(* so that two symbols share their digits.                                 *)
SymbolDigitsShort(symbol) ==
  LET t == PermuteSymbol(symbol)
  IN  [which \in 0..2 |-> (t \div <<1, 7, 7>>[which + 1]) % 7]

(* The base-7 digits of the permuted symbol, least significant first.      *)
SymbolDigits(symbol) ==
  LET t == PermuteSymbol(symbol)
  IN  [which \in 0..2 |-> (t \div <<1, 7, 49>>[which + 1]) % 7]

InjAmounts(symbol, c_digits) ==
  [which \in 0..2 |-> 1 + ((SymbolDigits(symbol)[which] + c_digits[which]) % 7)]

SystematicControl(symbol, symbol_index, coord) ==
  ((((RotateLeftByte(symbol, 3) ## RotateLeftByte(symbol, 1))
     ## MulOddByte(symbol, 5)) ## U8(symbol_index)) ## CoordinateCode(coord))
     ## RotateLeftByte(CoordinateCode(coord), 2)

SystematicAxis(symbol, control, phase, probe, geometry, previous) ==
  LET sel == ((((RotateLeftByte(symbol, phase)
                 ## RotateLeftByte(control, phase + 1))
                 ## RotateLeftByte(probe, 2)) ## geometry)
                 ## U8(AxisCode[previous] * 29)) ## U8(phase * 59)
  IN  ChooseOtherAxis(previous, (sel ## RotateLeftByte(sel, 3)) ## MulOddByte(symbol, 9))

DiffusionAmount(symbol, control, phase, probe, geometry, axis) ==
  LET lane == ((((MulOddByte(symbol, 73) ## MulOddByte(control, 45))
                  ## MulOddByte(probe, 29)) ## RotateLeftByte(geometry, phase))
                  ## U8(phase * 19)) ## U8(AxisCode[axis] * 11)
      folded == U8(lane + RotateLeftByte(lane, 4) + RotateLeftByte(symbol ## control, 2))
  IN  1 + ((((MulOddByte(folded, 41) ## (folded \div 8)) ## (folded \div 32))
            ## phase) % 7)

SystematicNextControl(symbol, control, phase, axis, amount, probe_after, coord_after) ==
  ((((RotateLeftByte(control, 1 + (AxisCode[axis] % 2)) ## MulOddByte(symbol, 3))
     ## probe_after) ## U8(amount * 17)) ## CoordinateCode(coord_after))
     ## U8(phase * 13)

=============================================================================
