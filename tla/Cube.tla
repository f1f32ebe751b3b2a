-------------------------------- MODULE Cube --------------------------------
(***************************************************************************)
(* The perfect-value cube: Side^3 bytes, rotations of one axis-parallel    *)
(* line, and the four body diagonals the digest is read from               *)
(* (src/src/cube.cpp, src/include/pvc/cube.hpp).                           *)
(*                                                                         *)
(* A passive data module: it declares no variable.  A coordinate is a      *)
(* function from axes to 0..Side-1, so that "the coordinate along axis a"  *)
(* is c[a] and an operation on an axis needs no case per axis.  The        *)
(* program has Side = 8; the module leaves it open so that the walk can be *)
(* explored exhaustively on smaller cubes and proved for every size.       *)
(***************************************************************************)
EXTENDS Bytes, FiniteSets

CONSTANTS
  Side,         (* kCubeSide: the number of cells of a line               *)
  PerfectCube   (* kPerfectCube: the contents of the initial cube         *)

Axes == {"x", "y", "z"}
AxisCode == [a \in Axes |-> IF a = "x" THEN 0 ELSE IF a = "y" THEN 1 ELSE 2]

Idx == 0..(Side - 1)
Coord == [Axes -> Idx]
Origin == [a \in Axes |-> 0]

Cubes == [Coord -> Byte]

ASSUME SideAssumption == Side \in Nat /\ Side >= 2
ASSUME PerfectCubeAssumption == PerfectCube \in Cubes

-----------------------------------------------------------------------------
(* Moving along an axis, modulo Side.                                      *)

Advance(coord, axis, amount) ==
  [coord EXCEPT ![axis] = (@ + (amount % Side)) % Side]

(* Advance the other way round.                                            *)
Retreat(coord, axis, amount) == Advance(coord, axis, Side - (amount % Side))

LineContains(axis, line_point, point) ==
  \A a \in Axes \ {axis} : line_point[a] = point[a]

(* Seeded fault: rotation done in place, so that the cell a value is       *)
(* moved onto is lost before it is read and its value is duplicated.       *)
RotateLineInPlace(cube, axis, line_point, amount) ==
  [c \in Coord |->
     IF LineContains(axis, line_point, c) /\ c[axis] # 0
     THEN cube[Retreat(c, axis, amount)] ELSE cube[c]]

(* The cell at position i of the line receives what was amount before it.  *)
RotateLine(cube, axis, line_point, amount) ==
  [c \in Coord |->
     IF LineContains(axis, line_point, c)
     THEN cube[Retreat(c, axis, amount)] ELSE cube[c]]

-----------------------------------------------------------------------------
(* Storage order and read-out.                                             *)

(* Cube::index: the offset of a cell in the flat storage.                  *)
Index(coord) == coord["z"] * Side * Side + coord["y"] * Side + coord["x"]

StorageCoord(index) ==
  [a \in Axes |-> (index \div <<1, Side, Side * Side>>[AxisCode[a] + 1]) % Side]

(* Diagonal 0 is (i,i,i); diagonal d is mirrored along the axis of code    *)
(* d - 1.                                                                  *)
DiagonalCell(k) ==
  LET lane == k \div Side
      i    == k % Side
  IN  [a \in Axes |-> IF AxisCode[a] + 1 = lane THEN Side - 1 - i ELSE i]

DiagonalCells == [k \in 0..(4 * Side - 1) |-> DiagonalCell(k)]

BodyDiagonals(cube) == [k \in 0..(4 * Side - 1) |-> cube[DiagonalCells[k]]]

(* How many cells hold each byte.                                          *)
CellsHolding(cube, value) == {c \in Coord : cube[c] = value}
Histogram(cube) == [v \in Byte |-> Cardinality(CellsHolding(cube, v))]

=============================================================================
