-------------------------------- MODULE Walk --------------------------------
(***************************************************************************)
(* The abstract specification of what absorbing symbols does to the cube:  *)
(* a walk.  The cursor stands on a cell; one move picks an axis other than *)
(* the one of the previous move and an amount in 1..Side-1, rotates the    *)
(* line through the cursor along that axis, and the cursor advances by the *)
(* same amount along the same line.                                        *)
(*                                                                         *)
(* Which axis and which amount is left open.  The two controllers of the   *)
(* program (PVC-RotHash-1 and PVC-RotHash-2) resolve that choice from the  *)
(* symbol; module Engine states that both implement this walk.             *)
(***************************************************************************)
EXTENDS Cube

VARIABLES
  cube,           (* WorkingState::cube                                   *)
  cursor,         (* WorkingState::cursor                                 *)
  previous_axis   (* WorkingState::previous_axis                          *)

walkVars == <<cube, cursor, previous_axis>>

WalkTypeOK ==
  /\ cube \in Cubes
  /\ cursor \in Coord
  /\ previous_axis \in Axes

WalkInit ==
  /\ cube = PerfectCube
  /\ cursor = Origin
  /\ previous_axis = "x"

(* Seeded fault: the line is rotated through the cell the cursor moves to  *)
(* by the amount of the move, after the cursor has moved off the axis.     *)
TurnAfterMove(axis, amount) ==
  /\ axis # previous_axis
  /\ cursor' = Advance(cursor, previous_axis, amount)
  /\ cube' = RotateLine(cube, axis, cursor', amount)
  /\ previous_axis' = axis

(* Seeded fault: the cursor walks off the end of the line.                 *)
TurnUnwrapped(axis, amount) ==
  /\ axis # previous_axis
  /\ cube' = RotateLine(cube, axis, cursor, amount)
  /\ cursor' = [cursor EXCEPT ![axis] = @ + amount]
  /\ previous_axis' = axis

Turn(axis, amount) ==
  /\ axis # previous_axis
  /\ cube' = RotateLine(cube, axis, cursor, amount)
  /\ cursor' = Advance(cursor, axis, amount)
  /\ previous_axis' = axis

WalkNext == \E axis \in Axes, amount \in 1..(Side - 1) : Turn(axis, amount)

WalkSpec == WalkInit /\ [][WalkNext]_walkVars

-----------------------------------------------------------------------------
(* Every cube the walk reaches is a rearrangement of the perfect cube: no  *)
(* rotation loses or duplicates a value, so each byte occurs as often as   *)
(* it does initially (twice, in the program's cube).  rotate_line reads a  *)
(* whole line before it writes one back exactly for this.                  *)
Rearranged == Histogram(cube) = Histogram(PerfectCube)

(* The cursor travels with the value it stands on: a move carries the      *)
(* value under the cursor to the cell the cursor moves to.  Through any    *)
(* number of moves of any symbols the cell under the cursor holds what the *)
(* origin held initially, although every other line keeps changing.        *)
CarriedCell == cube[cursor] = PerfectCube[Origin]

(* Every move can be taken back from the state it leads to and the axis    *)
(* of the move alone: rotating the line through the new cursor by the      *)
(* complement restores the old cube and walking back restores the cursor.  *)
Reversible ==
  [][\E amount \in 1..(Side - 1) :
       /\ cube = RotateLine(cube', previous_axis', cursor', Side - amount)
       /\ cursor = Advance(cursor', previous_axis', Side - amount)]_walkVars

=============================================================================
