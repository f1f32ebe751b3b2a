---------------------------- MODULE LibraryProofs ---------------------------
(***************************************************************************)
(* The properties of the library: of the walk, for a cube of every side    *)
(* and any initial contents, of compute(), for every message and every     *)
(* parameter record, and of the streaming API, for every number of objects *)
(* and threads and every digest function.                                  *)
(*                                                                         *)
(* In this order: the operators the walk is made of (an advance stays in   *)
(* the cube, a retreat undoes it, rotating a line rearranges the cells)    *)
(* and the walk; the bytes and the controllers that choose its moves (what *)
(* they return is a byte, an axis other than the previous one, an amount   *)
(* in 1..7); the symbols of the phases, the invariant of compute() and     *)
(* what follows from it; the trace, the orbit, the checkpoints; the        *)
(* computation of another message of the same length; the calls of the     *)
(* research API, which absorb the same symbols without a process; and the  *)
(* calls of RotHash1 and RotHash2, which keep what their interface         *)
(* promises.                                                               *)
(***************************************************************************)
EXTENDS EngineProperties, Finalization, Research, Hasher, FunctionTheorems, FiniteSetTheorems,
        SequenceTheorems, InductionTheorems

(* Reduction modulo m of a number below 2 * m takes one subtraction.       *)
LEMMA ModOnce ==
  ASSUME NEW m \in Nat \ {0}, NEW x \in 0..(2 * m - 1)
  PROVE  x % m = IF x < m THEN x ELSE x - m
  OBVIOUS

(* Going p round a circle of m points and then the rest of the way.        *)
LEMMA ModRound ==
  ASSUME NEW m \in Nat \ {0}, NEW x \in 0..(m - 1),
         NEW p \in 1..(m - 1), NEW q \in 1..(m - 1), p + q = m
  PROVE  (((x + p) % m) + q) % m = x
  <1>0. x + p \in 0..(2 * m - 1)
    OBVIOUS
  <1>1. (x + p) % m = IF x + p < m THEN x + p ELSE (x + p) - m
    BY <1>0, ModOnce
  <1>2. CASE x + p < m
    <2>1. /\ ((x + p) % m) + q = x + m
          /\ x + m \in 0..(2 * m - 1)
      BY <1>1, <1>2
    <2>2. (x + m) % m = (x + m) - m
      BY <2>1, ModOnce
    <2>. QED
      BY <2>1, <2>2
  <1>3. CASE x + p >= m
    <2>1. ((x + p) % m) + q = x
      BY <1>1, <1>3
    <2>2. x % m = x
      OBVIOUS
    <2>. QED
      BY <2>1, <2>2
  <1>. QED
    BY <1>2, <1>3

LEMMA SideIsPositive == Side \in Nat \ {0}
  BY SideAssumption

LEMMA OriginType == Origin \in Coord
  BY SideAssumption DEF Origin, Coord, Idx

(* Advancing changes the coordinate of its axis only, and leads to a cell. *)
LEMMA AdvanceType ==
  ASSUME NEW c \in Coord, NEW a \in Axes, NEW n \in Nat
  PROVE  /\ Advance(c, a, n) \in Coord
         /\ Advance(c, a, n)[a] = (c[a] + (n % Side)) % Side
         /\ \A b \in Axes \ {a} : Advance(c, a, n)[b] = c[b]
  BY SideIsPositive DEF Advance, Coord, Idx

(* For the amounts of a move a retreat is the advance by the complement.   *)
LEMMA RetreatIsAdvance ==
  ASSUME NEW c \in Coord, NEW a \in Axes, NEW n \in 1..(Side - 1)
  PROVE  Retreat(c, a, n) = Advance(c, a, Side - n)
  <1>1. n % Side = n
    BY SideIsPositive
  <1>. QED
    BY <1>1 DEF Retreat

(* The retreat undoes the advance, and the advance the retreat.            *)
LEMMA RetreatUndoesAdvance ==
  ASSUME NEW c \in Coord, NEW a \in Axes, NEW n \in 1..(Side - 1)
  PROVE  /\ Retreat(Advance(c, a, n), a, n) = c
         /\ Advance(Retreat(c, a, n), a, n) = c
  <1>1. /\ n % Side = n
        /\ (Side - n) % Side = Side - n
        /\ n \in Nat
        /\ Side - n \in Nat
    BY SideIsPositive
  <1>2. ASSUME NEW p \in 1..(Side - 1), NEW q \in 1..(Side - 1), p + q = Side
        PROVE  Advance(Advance(c, a, p), a, q) = c
    <2>. p \in Nat /\ q \in Nat /\ p % Side = p /\ q % Side = q
      BY SideIsPositive
    <2>1. /\ Advance(c, a, p) \in Coord
          /\ Advance(c, a, p)[a] = (c[a] + p) % Side
          /\ \A b \in Axes \ {a} : Advance(c, a, p)[b] = c[b]
      BY AdvanceType
    <2>2. /\ Advance(Advance(c, a, p), a, q) \in Coord
          /\ Advance(Advance(c, a, p), a, q)[a] = (((c[a] + p) % Side) + q) % Side
          /\ \A b \in Axes \ {a} : Advance(Advance(c, a, p), a, q)[b] = c[b]
      BY <2>1, AdvanceType
    <2>3. c[a] \in 0..(Side - 1)
      BY DEF Coord, Idx
    <2>4. (((c[a] + p) % Side) + q) % Side = c[a]
      BY <1>2, <2>3, SideIsPositive, ModRound
    <2>. QED
      BY <2>2, <2>4 DEF Coord
  <1>3. /\ Advance(c, a, n) \in Coord
        /\ Retreat(c, a, n) = Advance(c, a, Side - n)
        /\ Retreat(Advance(c, a, n), a, n) = Advance(Advance(c, a, n), a, Side - n)
    BY <1>1, AdvanceType, RetreatIsAdvance
  <1>4. Side - n \in 1..(Side - 1) /\ n + (Side - n) = Side /\ (Side - n) + n = Side
    BY SideIsPositive
  <1>. QED
    BY <1>2, <1>3, <1>4

-----------------------------------------------------------------------------
(* Rotating a line.                                                        *)

(* The cell whose content a rotation moves to c.                           *)
Source(axis, line_point, amount) ==
  [c \in Coord |-> IF LineContains(axis, line_point, c)
                   THEN Retreat(c, axis, amount) ELSE c]

LEMMA RotateLineReads ==
  ASSUME NEW C \in Cubes, NEW a \in Axes, NEW p \in Coord, NEW n \in 1..(Side - 1)
  PROVE  /\ Source(a, p, n) \in [Coord -> Coord]
         /\ RotateLine(C, a, p, n) = [c \in Coord |-> C[Source(a, p, n)[c]]]
         /\ RotateLine(C, a, p, n) \in Cubes
  <1>1. Side - n \in Nat
    BY SideIsPositive
  <1>2. Source(a, p, n) \in [Coord -> Coord]
    BY <1>1, RetreatIsAdvance, AdvanceType DEF Source
  <1>3. RotateLine(C, a, p, n) = [c \in Coord |-> C[Source(a, p, n)[c]]]
    BY DEF RotateLine, Source
  <1>. QED
    BY <1>2, <1>3 DEF Cubes

(* A cell and the cells it advances or retreats to lie on the same line.   *)
LEMMA LineStays ==
  ASSUME NEW a \in Axes, NEW p \in Coord, NEW c \in Coord, NEW n \in 1..(Side - 1)
  PROVE  /\ LineContains(a, p, Advance(c, a, n)) <=> LineContains(a, p, c)
         /\ LineContains(a, p, Retreat(c, a, n)) <=> LineContains(a, p, c)
         /\ LineContains(a, Advance(p, a, n), c) <=> LineContains(a, p, c)
         /\ LineContains(a, p, p)
  <1>1. n \in Nat /\ Side - n \in Nat
    BY SideIsPositive
  <1>2. \A b \in Axes \ {a} : Advance(c, a, n)[b] = c[b] /\ Advance(p, a, n)[b] = p[b]
    BY <1>1, AdvanceType
  <1>3. \A b \in Axes \ {a} : Retreat(c, a, n)[b] = c[b]
    <2>1. Retreat(c, a, n) = Advance(c, a, Side - n)
      BY RetreatIsAdvance
    <2>2. \A b \in Axes \ {a} : Advance(c, a, Side - n)[b] = c[b]
      BY <1>1, AdvanceType
    <2>. QED
      BY <2>1, <2>2
  <1>. QED
    BY <1>2, <1>3 DEF LineContains

(* The value at the point the line is turned through arrives where the     *)
(* point advances to.                                                      *)
LEMMA RotateLineCarries ==
  ASSUME NEW C \in Cubes, NEW a \in Axes, NEW p \in Coord, NEW n \in 1..(Side - 1)
  PROVE  RotateLine(C, a, p, n)[Advance(p, a, n)] = C[p]
  <1>1. Advance(p, a, n) \in Coord
    BY AdvanceType, SideIsPositive
  <1>2. LineContains(a, p, Advance(p, a, n))
    BY LineStays
  <1>3. Retreat(Advance(p, a, n), a, n) = p
    BY RetreatUndoesAdvance
  <1>. QED
    BY <1>1, <1>2, <1>3 DEF RotateLine

(* Turning the line through the new point by the complement undoes it.     *)
LEMMA RotateLineUndone ==
  ASSUME NEW C \in Cubes, NEW a \in Axes, NEW p \in Coord, NEW n \in 1..(Side - 1)
  PROVE  RotateLine(RotateLine(C, a, p, n), a, Advance(p, a, n), Side - n) = C
  <1>. DEFINE q == Advance(p, a, n)
              D == RotateLine(C, a, p, n)
              E == RotateLine(D, a, q, Side - n)
  <1>1. Side - n \in 1..(Side - 1) /\ q \in Coord /\ D \in Cubes
    BY AdvanceType, RotateLineReads, SideIsPositive
  <1>2. ASSUME NEW c \in Coord
        PROVE  E[c] = C[c]
    <2>1. LineContains(a, q, c) <=> LineContains(a, p, c)
      BY LineStays
    <2>2. CASE LineContains(a, p, c)
      <3>1. Retreat(c, a, Side - n) = Advance(c, a, n)
        <4>1. Side - (Side - n) = n
          BY SideIsPositive
        <4>. QED
          BY <1>1, <4>1, RetreatIsAdvance
      <3>2. Advance(c, a, n) \in Coord /\ LineContains(a, p, Advance(c, a, n))
        BY <2>2, AdvanceType, LineStays, SideIsPositive
      <3>3. D[Advance(c, a, n)] = C[c]
        BY <3>2, RetreatUndoesAdvance DEF RotateLine
      <3>. QED
        BY <2>1, <2>2, <3>1, <3>3 DEF RotateLine
    <2>3. CASE ~LineContains(a, p, c)
      BY <2>1, <2>3 DEF RotateLine
    <2>. QED
      BY <2>2, <2>3
  <1>3. E \in Cubes
    BY <1>1, RotateLineReads
  <1>. QED
    BY <1>2, <1>3 DEF Cubes

(* No two cells read from the same cell, and every cell is read.           *)
LEMMA SourceIsBijection ==
  ASSUME NEW a \in Axes, NEW p \in Coord, NEW n \in 1..(Side - 1)
  PROVE  Source(a, p, n) \in Bijection(Coord, Coord)
  <1>. DEFINE S == Source(a, p, n)
  <1>1. S \in [Coord -> Coord]
    BY RetreatIsAdvance, AdvanceType, SideIsPositive DEF Source
  <1>2. ASSUME NEW c \in Coord, NEW d \in Coord, S[c] = S[d]
        PROVE  c = d
    <2>1. LineContains(a, p, S[c]) <=> LineContains(a, p, c)
      BY LineStays DEF Source
    <2>2. LineContains(a, p, S[d]) <=> LineContains(a, p, d)
      BY LineStays DEF Source
    <2>3. CASE LineContains(a, p, c)
      BY <1>2, <2>1, <2>2, <2>3, RetreatUndoesAdvance DEF Source
    <2>4. CASE ~LineContains(a, p, c)
      BY <1>2, <2>1, <2>2, <2>4 DEF Source
    <2>. QED
      BY <2>3, <2>4
  <1>3. ASSUME NEW d \in Coord
        PROVE  \E c \in Coord : S[c] = d
    <2>1. CASE LineContains(a, p, d)
      <3>1. /\ Advance(d, a, n) \in Coord
            /\ LineContains(a, p, Advance(d, a, n))
        BY <2>1, AdvanceType, LineStays, SideIsPositive
      <3>2. S[Advance(d, a, n)] = d
        BY <3>1, RetreatUndoesAdvance DEF Source
      <3>. QED
        BY <3>1, <3>2
    <2>2. CASE ~LineContains(a, p, d)
      BY <2>2 DEF Source
    <2>. QED
      BY <2>1, <2>2
  <1>. QED
    BY <1>1, <1>2, <1>3, Fun_IsBij

-----------------------------------------------------------------------------
(* The byte histogram.                                                     *)

LEMMA CoordIsFinite == IsFiniteSet(Coord)
  <1>. DEFINE Triples == Idx \X (Idx \X Idx)
              F == [c \in Coord |-> <<c["x"], <<c["y"], c["z"]>>>>]
  <1>1. IsFiniteSet(Idx)
    BY FS_Interval, SideIsPositive DEF Idx
  <1>2. IsFiniteSet(Triples)
    BY <1>1, FS_Product
  <1>3. F \in [Coord -> Triples]
    BY DEF Coord, Axes
  <1>4. ASSUME NEW c \in Coord, NEW d \in Coord, F[c] = F[d]
        PROVE  c = d
    <2>1. c["x"] = d["x"] /\ c["y"] = d["y"] /\ c["z"] = d["z"]
      BY <1>4
    <2>. QED
      BY <2>1 DEF Coord, Axes
  <1>5. F \in Injection(Coord, Triples)
    BY <1>3, <1>4, Fun_IsInj
  <1>. QED
    BY <1>2, <1>5, FS_Injection

(* A rotation leaves the histogram as it is: the cells holding a value     *)
(* after it are in bijection with those that held it before.               *)
LEMMA RotateLineKeepsHistogram ==
  ASSUME NEW C \in Cubes, NEW a \in Axes, NEW p \in Coord, NEW n \in 1..(Side - 1)
  PROVE  Histogram(RotateLine(C, a, p, n)) = Histogram(C)
  <1>. DEFINE S == Source(a, p, n)
              D == RotateLine(C, a, p, n)
  <1>1. /\ S \in [Coord -> Coord]
        /\ \A c, d \in Coord : S[c] = S[d] => c = d
        /\ \A d \in Coord : \E c \in Coord : S[c] = d
    BY SourceIsBijection, Fun_BijectionProperties
  <1>2. \A c \in Coord : D[c] = C[S[c]]
    BY RotateLineReads
  <1>3. ASSUME NEW v \in Byte
        PROVE  Cardinality(CellsHolding(D, v)) = Cardinality(CellsHolding(C, v))
    <2>. DEFINE After  == CellsHolding(D, v)
                Earlier == CellsHolding(C, v)
                F == [c \in After |-> S[c]]
    <2>1. After \subseteq Coord /\ Earlier \subseteq Coord
      BY DEF CellsHolding
    <2>2. F \in [After -> Earlier]
      BY <1>1, <1>2 DEF CellsHolding
    <2>3. \A c, d \in After : F[c] = F[d] => c = d
      BY <1>1, <2>1
    <2>4. ASSUME NEW d \in Earlier
          PROVE  \E c \in After : F[c] = d
      <3>1. PICK c \in Coord : S[c] = d
        BY <1>1, <2>1
      <3>2. C[d] = v
        BY DEF CellsHolding
      <3>3. D[c] = v
        BY <1>2, <3>1, <3>2
      <3>4. c \in After
        BY <3>3 DEF CellsHolding
      <3>. QED
        BY <3>1, <3>4
    <2>5. F \in Bijection(After, Earlier)
      BY <2>2, <2>3, <2>4, Fun_IsBij
    <2>6. IsFiniteSet(After)
      BY <2>1, CoordIsFinite, FS_Subset
    <2>. QED
      BY <2>5, <2>6, FS_Bijection DEF ExistsBijection
  <1>. QED
    BY <1>3 DEF Histogram

-----------------------------------------------------------------------------
(* The walk.                                                               *)

(* One step of the walk: the facts every invariant below needs.            *)
LEMMA WalkStep ==
  ASSUME WalkTypeOK, NEW axis \in Axes, NEW amount \in 1..(Side - 1),
         Turn(axis, amount)
  PROVE  /\ WalkTypeOK'
         /\ cube' = RotateLine(cube, axis, cursor, amount)
         /\ cursor' = Advance(cursor, axis, amount)
         /\ previous_axis' = axis
  BY AdvanceType, RotateLineReads, SideIsPositive DEF WalkTypeOK, Turn

(* The cube stays a cube of bytes and the cursor one of its cells,         *)
(* whatever the controller picks.                                          *)
THEOREM WalkTypeInvariant == WalkSpec => []WalkTypeOK
  <1>1. WalkInit => WalkTypeOK
    BY PerfectCubeAssumption, OriginType DEF WalkInit, WalkTypeOK, Axes
  <1>2. WalkTypeOK /\ [WalkNext]_walkVars => WalkTypeOK'
    <2>. SUFFICES ASSUME WalkTypeOK, [WalkNext]_walkVars
                  PROVE  WalkTypeOK'
      OBVIOUS
    <2>1. ASSUME NEW axis \in Axes, NEW amount \in 1..(Side - 1), Turn(axis, amount)
          PROVE  WalkTypeOK'
      BY <2>1, WalkStep
    <2>2. CASE UNCHANGED walkVars
      BY <2>2 DEF walkVars, WalkTypeOK
    <2>. QED
      BY <2>1, <2>2 DEF WalkNext
  <1>. QED
    BY <1>1, <1>2, PTL DEF WalkSpec

(* The value under the cursor never changes: the rotation carries it to    *)
(* the cell the cursor moves to.                                           *)
THEOREM CursorCarriesItsCell == WalkSpec => []CarriedCell
  <1>1. WalkInit => CarriedCell
    BY DEF WalkInit, CarriedCell
  <1>2. WalkTypeOK /\ CarriedCell /\ [WalkNext]_walkVars => CarriedCell'
    <2>. SUFFICES ASSUME WalkTypeOK, CarriedCell, [WalkNext]_walkVars
                  PROVE  CarriedCell'
      OBVIOUS
    <2>1. ASSUME NEW axis \in Axes, NEW amount \in 1..(Side - 1), Turn(axis, amount)
          PROVE  cube'[cursor'] = cube[cursor]
      BY <2>1, WalkStep, RotateLineCarries DEF WalkTypeOK
    <2>2. CASE UNCHANGED walkVars
      BY <2>2 DEF walkVars, CarriedCell
    <2>. QED
      BY <2>1, <2>2 DEF WalkNext, CarriedCell
  <1>. QED
    BY <1>1, <1>2, WalkTypeInvariant, PTL DEF WalkSpec

(* No move loses or duplicates a byte: every cube the walk reaches has the *)
(* histogram of the perfect one.                                           *)
THEOREM WalkRearranges == WalkSpec => []Rearranged
  <1>1. WalkInit => Rearranged
    BY DEF WalkInit, Rearranged
  <1>2. WalkTypeOK /\ Rearranged /\ [WalkNext]_walkVars => Rearranged'
    <2>. SUFFICES ASSUME WalkTypeOK, Rearranged, [WalkNext]_walkVars
                  PROVE  Rearranged'
      OBVIOUS
    <2>1. ASSUME NEW axis \in Axes, NEW amount \in 1..(Side - 1), Turn(axis, amount)
          PROVE  Histogram(cube') = Histogram(cube)
      BY <2>1, WalkStep, RotateLineKeepsHistogram DEF WalkTypeOK
    <2>2. CASE UNCHANGED walkVars
      BY <2>2 DEF walkVars, Rearranged
    <2>. QED
      BY <2>1, <2>2 DEF WalkNext, Rearranged
  <1>. QED
    BY <1>1, <1>2, WalkTypeInvariant, PTL DEF WalkSpec

(* A step of the walk can be taken back knowing only the state it led to,  *)
(* its axis being recorded there, and its amount.                          *)
THEOREM WalkIsReversible == WalkSpec => Reversible
  <1>. DEFINE Undone == \E amount \in 1..(Side - 1) :
                 /\ cube = RotateLine(cube', previous_axis', cursor', Side - amount)
                 /\ cursor = Advance(cursor', previous_axis', Side - amount)
  <1>1. WalkTypeOK /\ [WalkNext]_walkVars => [Undone]_walkVars
    <2>. SUFFICES ASSUME WalkTypeOK, NEW axis \in Axes, NEW amount \in 1..(Side - 1),
                         Turn(axis, amount)
                  PROVE  Undone
      BY DEF WalkNext
    <2>1. /\ cube' = RotateLine(cube, axis, cursor, amount)
          /\ cursor' = Advance(cursor, axis, amount)
          /\ previous_axis' = axis
      BY WalkStep
    <2>2. cube = RotateLine(cube', previous_axis', cursor', Side - amount)
      BY <2>1, RotateLineUndone DEF WalkTypeOK
    <2>3. cursor = Advance(cursor', previous_axis', Side - amount)
      <3>1. cursor' \in Coord
        BY <2>1, AdvanceType, SideIsPositive DEF WalkTypeOK
      <3>2. Retreat(cursor', axis, amount) = Advance(cursor', axis, Side - amount)
        BY <3>1, RetreatIsAdvance
      <3>. QED
        BY <2>1, <3>2, RetreatUndoesAdvance DEF WalkTypeOK
    <2>. QED
      BY <2>2, <2>3
  <1>. QED
    BY <1>1, WalkTypeInvariant, PTL DEF WalkSpec, Reversible

-----------------------------------------------------------------------------
(* Bytes and controllers.                                                  *)

LEMMA ByteIsNat == Byte \subseteq Nat
  BY DEF Byte

LEMMA U8Type ==
  ASSUME NEW n \in Nat
  PROVE  U8(n) \in Byte
  BY DEF U8, Byte

LEMMA XorType ==
  ASSUME NEW a \in Byte, NEW b \in Byte
  PROVE  a ## b \in Byte
  <1>1. a \in Nat /\ b \in Nat
    BY DEF Byte
  <1>2. ASSUME NEW w \in Nat \ {0}
        PROVE  XorBit(a, b, w) \in {0, w}
    <2>1. (a \div w + b \div w) % 2 \in {0, 1}
      BY <1>1
    <2>. QED
      BY <2>1 DEF XorBit
  <1>3. /\ XorBit(a, b, 1) \in {0, 1} /\ XorBit(a, b, 2) \in {0, 2}
        /\ XorBit(a, b, 4) \in {0, 4} /\ XorBit(a, b, 8) \in {0, 8}
        /\ XorBit(a, b, 16) \in {0, 16} /\ XorBit(a, b, 32) \in {0, 32}
        /\ XorBit(a, b, 64) \in {0, 64} /\ XorBit(a, b, 128) \in {0, 128}
    BY <1>2
  <1>4. XorBit(a, b, 1)  + XorBit(a, b, 2)  + XorBit(a, b, 4)  + XorBit(a, b, 8)
        + XorBit(a, b, 16) + XorBit(a, b, 32) + XorBit(a, b, 64) + XorBit(a, b, 128)
          \in Byte
    BY <1>3 DEF Byte
  <1>. QED
    BY <1>4 DEF ##, Xor

LEMMA MulOddByteType ==
  ASSUME NEW v \in Byte, NEW odd \in Nat
  PROVE  MulOddByte(v, odd) \in Byte
  BY U8Type DEF MulOddByte, Byte

LEMMA RotateLeftByteType ==
  ASSUME NEW v \in Byte, NEW amount \in Nat
  PROVE  RotateLeftByte(v, amount) \in Byte
  <1>1. amount % 8 \in 0..7
    OBVIOUS
  <1>2. /\ Pow2[1] = 1 /\ Pow2[2] = 2 /\ Pow2[3] = 4 /\ Pow2[4] = 8 /\ Pow2[5] = 16
        /\ Pow2[6] = 32 /\ Pow2[7] = 64 /\ Pow2[8] = 128 /\ Pow2[9] = 256
    BY DEF Pow2
  <1>3. v \in 0..255
    BY DEF Byte
  <1>4. ((v * 1) % 256) + (v \div 256) \in 0..255
    BY <1>3
  <1>5. ((v * 2) % 256) + (v \div 128) \in 0..255
    BY <1>3
  <1>6. ((v * 4) % 256) + (v \div 64) \in 0..255
    BY <1>3
  <1>7. ((v * 8) % 256) + (v \div 32) \in 0..255
    BY <1>3
  <1>8. ((v * 16) % 256) + (v \div 16) \in 0..255
    BY <1>3
  <1>9. ((v * 32) % 256) + (v \div 8) \in 0..255
    BY <1>3
  <1>10. ((v * 64) % 256) + (v \div 4) \in 0..255
    BY <1>3
  <1>11. ((v * 128) % 256) + (v \div 2) \in 0..255
    BY <1>3
  <1>12. ASSUME NEW shift \in 0..7
         PROVE  ((v * Pow2[shift + 1]) % 256) + (v \div Pow2[9 - shift]) \in 0..255
    BY <1>2, <1>4, <1>5, <1>6, <1>7, <1>8, <1>9, <1>10, <1>11
  <1>. QED
    BY <1>1, <1>12 DEF RotateLeftByte, U8, Byte

LEMMA EncodeLengthType ==
  ASSUME NEW size \in Nat, NEW k \in 0..7
  PROVE  EncodeLength(size)[k] \in Byte
  <1>. DEFINE high == (size \div 65536) \div 65536
              divisors == <<1, 256, 65536, 16777216>>
  <1>1. high \in Nat
    OBVIOUS
  <1>2. divisors[(k % 4) + 1] \in Nat \ {0}
    <2>1. k % 4 \in 0..3
      OBVIOUS
    <2>. QED
      BY <2>1
  <1>3. (IF k < 4 THEN size ELSE high) \div divisors[(k % 4) + 1] \in Nat
    BY <1>1, <1>2
  <1>. QED
    BY <1>3, U8Type DEF EncodeLength

-----------------------------------------------------------------------------
(* The program's cube has side 8; from here on that is an assumption of    *)
(* the lemmas.                                                             *)

LEMMA CoordinateCodeType ==
  ASSUME Side = 8, NEW c \in Coord
  PROVE  CoordinateCode(c) \in Byte
  <1>1. c["x"] \in 0..7 /\ c["y"] \in 0..7 /\ c["z"] \in 0..7
    BY DEF Coord, Axes, Idx
  <1>2. c["x"] * 32 \in Byte /\ c["y"] * 4 \in Byte /\ c["z"] \in Byte
    BY <1>1 DEF Byte
  <1>. QED
    BY <1>2, XorType DEF CoordinateCode

LEMMA AxisCodeType ==
  ASSUME NEW a \in Axes
  PROVE  AxisCode[a] \in 0..2
  BY DEF Axes, AxisCode

LEMMA GeometryType ==
  ASSUME Side = 8, NEW c \in Coord, NEW p \in Nat, NEW index \in Nat
  PROVE  Geometry(c, p, index) \in Byte
  <1>1. IndexByte(index, p) \in Byte
    BY EncodeLengthType DEF IndexByte
  <1>2. CoordinateCode(c) \in Byte
    BY CoordinateCodeType
  <1>3. 29 * p \in Nat
    OBVIOUS
  <1>4. CoordinateCode(c) \in Nat /\ IndexByte(index, p) \in Nat
    BY <1>1, <1>2, ByteIsNat
  <1>5. CoordinateCode(c) + 29 * p + IndexByte(index, p) \in Nat
    BY <1>3, <1>4
  <1>. QED
    BY <1>5, U8Type DEF Geometry

(* Whatever the selector, the axis chosen is one of the other two.         *)
LEMMA ChooseOtherAxisType ==
  ASSUME NEW previous \in Axes, NEW selector \in Nat
  PROVE  /\ ChooseOtherAxis(previous, selector) \in Axes
         /\ ChooseOtherAxis(previous, selector) # previous
  <1>1. selector % 2 \in {0, 1}
    OBVIOUS
  <1>2. ASSUME NEW n \in {1, 2}
        PROVE  /\ AxisAfter(previous, n) \in Axes
               /\ AxisAfter(previous, n) # previous
    <2>1. \E a \in Axes : AxisCode[a] = (AxisCode[previous] + n) % 3
      <3>1. AxisCode["x"] = 0 /\ AxisCode["y"] = 1 /\ AxisCode["z"] = 2
        BY DEF AxisCode, Axes
      <3>2. (AxisCode[previous] + n) % 3 \in 0..2
        BY AxisCodeType
      <3>. QED
        BY <3>1, <3>2 DEF Axes
    <2>2. /\ AxisAfter(previous, n) \in Axes
          /\ AxisCode[AxisAfter(previous, n)] = (AxisCode[previous] + n) % 3
      BY <2>1 DEF AxisAfter
    <2>3. (AxisCode[previous] + n) % 3 # AxisCode[previous]
      BY AxisCodeType
    <2>. QED
      BY <2>2, <2>3
  <1>. QED
    BY <1>1, <1>2 DEF ChooseOtherAxis

-----------------------------------------------------------------------------
(* The free controller.                                                    *)

LEMMA FreeControllerType ==
  ASSUME Side = 8, NEW s \in Byte, NEW held \in Byte, NEW probe \in Byte,
         NEW geometry \in Byte, NEW c \in Coord, NEW axis \in Axes,
         NEW p \in Nat, NEW index \in Nat, NEW amount \in 1..7
  PROVE  /\ FreeControl(s, index, c) \in Byte
         /\ FreeAxis(held, p, probe, geometry, axis) \in Axes \ {axis}
         /\ FreeAmount(s, held, probe, geometry, axis) \in 1..7
         /\ FreeNextControl(held, p, axis, amount, probe, c) \in Byte
  <1>1. CoordinateCode(c) \in Nat /\ U8(index) \in Nat /\ U8(p * 7) \in Nat
    <2>1. p * 7 \in Nat
      OBVIOUS
    <2>. QED
      BY <2>1, CoordinateCodeType, U8Type, ByteIsNat
  <1>2. /\ s \in Nat /\ held \in Nat /\ probe \in Nat /\ geometry \in Nat
        /\ amount \in Nat /\ AxisCode[axis] \in Nat
    <2>1. AxisCode[axis] \in 0..2
      BY AxisCodeType
    <2>. QED
      BY <2>1, ByteIsNat
  <1>3. FreeControl(s, index, c) \in Byte
    <2>1. s + U8(index) + CoordinateCode(c) \in Nat
      BY <1>1, <1>2
    <2>. QED
      BY <2>1, U8Type DEF FreeControl
  <1>4. FreeAxis(held, p, probe, geometry, axis) \in Axes \ {axis}
    <2>1. (RotateLeftByte(held, p) ## probe) ## geometry \in Byte
      BY RotateLeftByteType, XorType
    <2>. QED
      BY <2>1, ByteIsNat, ChooseOtherAxisType DEF FreeAxis
  <1>5. FreeAmount(s, held, probe, geometry, axis) \in 1..7
    <2>1. held + probe + geometry + s + AxisCode[axis] * 11 \in Nat
      BY <1>2
    <2>. QED
      BY <2>1 DEF FreeAmount
  <1>6. FreeNextControl(held, p, axis, amount, probe, c) \in Byte
    <2>1. 1 + (AxisCode[axis] % 2) \in Nat
      BY <1>2
    <2>2. RotateLeftByte(held, 1 + (AxisCode[axis] % 2)) \in Nat
      BY <2>1, RotateLeftByteType, ByteIsNat
    <2>3. RotateLeftByte(held, 1 + (AxisCode[axis] % 2))
            + probe + amount + CoordinateCode(c) + U8(p * 7) \in Nat
      BY <1>1, <1>2, <2>2
    <2>. QED
      BY <2>3, U8Type DEF FreeNextControl
  <1>. QED
    BY <1>3, <1>4, <1>5, <1>6

-----------------------------------------------------------------------------
(* The systematic controller.                                              *)

LEMMA ContextDigitsType ==
  ASSUME Side = 8, NEW index \in Nat, NEW c \in Coord, NEW previous \in Axes,
         NEW probe \in Byte
  PROVE  ContextDigits(index, c, previous, probe) \in [0..2 -> 0..6]
  <1>. DEFINE seed == ContextSeed(index, c, previous, probe)
              g(which) == U8(CoordinateCode(c) + which * 29 + U8(index)
                             + AxisCode[previous] * 11)
              mixed(which) ==
                ((MulOddByte(probe, 29) ## MulOddByte(seed, 45))
                  ## RotateLeftByte(g(which), which)) ## U8(which * 19)
  <1>1. /\ CoordinateCode(c) \in Byte /\ U8(index) \in Byte
        /\ CoordinateCode(c) \in Nat /\ U8(index) \in Nat
    BY CoordinateCodeType, U8Type, ByteIsNat
  <1>2. AxisCode[previous] * 13 \in Nat /\ AxisCode[previous] * 11 \in Nat
    BY AxisCodeType
  <1>3. seed \in Byte
    BY <1>1, <1>2, U8Type, XorType, MulOddByteType DEF ContextSeed
  <1>4. ASSUME NEW which \in 0..2
        PROVE  mixed(which) % 7 \in 0..6
    <2>1. which * 29 \in Nat /\ which * 19 \in Nat /\ which \in Nat
      OBVIOUS
    <2>2. CoordinateCode(c) + which * 29 + U8(index) + AxisCode[previous] * 11 \in Nat
      BY <1>1, <1>2, <2>1
    <2>3. RotateLeftByte(g(which), which) \in Byte
      BY <2>1, <2>2, U8Type, RotateLeftByteType
    <2>4. mixed(which) \in Byte
      BY <1>3, <2>1, <2>3, U8Type, XorType, MulOddByteType
    <2>5. mixed(which) \in Nat
      BY <2>4, ByteIsNat
    <2>. HIDE DEF mixed
    <2>. QED
      BY <2>5
  <1>5. ContextDigits(index, c, previous, probe) = [which \in 0..2 |-> mixed(which) % 7]
    BY DEF ContextDigits
  <1>. HIDE DEF mixed
  <1>. QED
    BY <1>4, <1>5

LEMMA InjAmountsType ==
  ASSUME NEW s \in Byte, NEW d \in [0..2 -> 0..6]
  PROVE  InjAmounts(s, d) \in [0..2 -> 1..7]
  <1>1. PermuteSymbol(s) \in Nat
    BY DEF PermuteSymbol, Byte
  <1>2. ASSUME NEW which \in 0..2
        PROVE  SymbolDigits(s)[which] \in 0..6
    <2>1. <<1, 7, 49>>[which + 1] \in Nat \ {0}
      OBVIOUS
    <2>2. PermuteSymbol(s) \div <<1, 7, 49>>[which + 1] \in Nat
      BY <1>1, <2>1
    <2>. QED
      BY <2>2 DEF SymbolDigits
  <1>3. ASSUME NEW which \in 0..2
        PROVE  1 + ((SymbolDigits(s)[which] + d[which]) % 7) \in 1..7
    BY <1>2
  <1>. QED
    BY <1>3 DEF InjAmounts

LEMMA SystematicAxisType ==
  ASSUME NEW s \in Byte, NEW held \in Byte, NEW probe \in Byte,
         NEW geometry \in Byte, NEW axis \in Axes, NEW p \in Nat
  PROVE  SystematicAxis(s, held, p, probe, geometry, axis)
           \in Axes \ {axis}
  <1>. DEFINE sel == ((((RotateLeftByte(s, p)
                 ## RotateLeftByte(held, p + 1))
                 ## RotateLeftByte(probe, 2)) ## geometry)
                 ## U8(AxisCode[axis] * 29)) ## U8(p * 59)
              selector == (sel ## RotateLeftByte(sel, 3)) ## MulOddByte(s, 9)
  <1>1. AxisCode[axis] * 29 \in Nat /\ p * 59 \in Nat /\ p + 1 \in Nat
    BY AxisCodeType
  <1>2. sel \in Byte
    BY <1>1, U8Type, XorType, RotateLeftByteType
  <1>3. SystematicAxis(s, held, p, probe, geometry, axis)
          = ChooseOtherAxis(axis, selector)
    BY DEF SystematicAxis
  <1>. HIDE DEF sel
  <1>4. selector \in Byte
    BY <1>2, XorType, RotateLeftByteType, MulOddByteType
  <1>. QED
    BY <1>3, <1>4, ByteIsNat, ChooseOtherAxisType

LEMMA DiffusionAmountType ==
  ASSUME NEW s \in Byte, NEW held \in Byte, NEW probe \in Byte,
         NEW geometry \in Byte, NEW axis \in Axes, NEW p \in 0..7
  PROVE  DiffusionAmount(s, held, p, probe, geometry, axis) \in 1..7
  <1>. DEFINE lane == ((((MulOddByte(s, 73) ## MulOddByte(held, 45))
                  ## MulOddByte(probe, 29)) ## RotateLeftByte(geometry, p))
                  ## U8(p * 19)) ## U8(AxisCode[axis] * 11)
              folded == U8(lane + RotateLeftByte(lane, 4)
                           + RotateLeftByte(s ## held, 2))
              source == ((MulOddByte(folded, 41) ## (folded \div 8)) ## (folded \div 32))
                          ## p
  <1>1. AxisCode[axis] * 11 \in Nat /\ p * 19 \in Nat /\ p \in Nat /\ p \in Byte
    BY AxisCodeType DEF Byte
  <1>2. lane \in Byte
    BY <1>1, U8Type, XorType, RotateLeftByteType, MulOddByteType
  <1>3. DiffusionAmount(s, held, p, probe, geometry, axis)
          = 1 + (source % 7)
    BY DEF DiffusionAmount
  <1>4. folded \in Byte
    <2>. HIDE DEF lane
    <2>1. RotateLeftByte(lane, 4) \in Byte /\ RotateLeftByte(s ## held, 2) \in Byte
      BY <1>2, XorType, RotateLeftByteType
    <2>2. lane \in Nat /\ RotateLeftByte(lane, 4) \in Nat
          /\ RotateLeftByte(s ## held, 2) \in Nat
      BY <1>2, <2>1, ByteIsNat
    <2>3. lane + RotateLeftByte(lane, 4) + RotateLeftByte(s ## held, 2) \in Nat
      BY <2>2
    <2>. QED
      BY <2>3, U8Type
  <1>. HIDE DEF folded
  <1>5. folded \div 8 \in Byte /\ folded \div 32 \in Byte
    BY <1>4 DEF Byte
  <1>6. source \in Byte
    BY <1>1, <1>4, <1>5, XorType, MulOddByteType
  <1>7. source \in Nat
    BY <1>6, ByteIsNat
  <1>. HIDE DEF source
  <1>. QED
    BY <1>3, <1>7

LEMMA SystematicControlType ==
  ASSUME Side = 8, NEW s \in Byte, NEW held \in Byte, NEW probe \in Byte,
         NEW c \in Coord, NEW axis \in Axes, NEW p \in Nat, NEW index \in Nat,
         NEW amount \in Nat
  PROVE  /\ SystematicControl(s, index, c) \in Byte
         /\ SystematicNextControl(s, held, p, axis, amount, probe, c) \in Byte
  <1>1. /\ CoordinateCode(c) \in Byte
        /\ amount * 17 \in Nat /\ p * 13 \in Nat
        /\ 1 + (AxisCode[axis] % 2) \in Nat
    BY CoordinateCodeType, AxisCodeType
  <1>2. SystematicControl(s, index, c) \in Byte
    BY <1>1, U8Type, XorType, RotateLeftByteType, MulOddByteType DEF SystematicControl
  <1>3. SystematicNextControl(s, held, p, axis, amount, probe, c) \in Byte
    BY <1>1, U8Type, XorType, RotateLeftByteType, MulOddByteType
    DEF SystematicNextControl
  <1>. QED
    BY <1>2, <1>3

-----------------------------------------------------------------------------
(* The symbols the phases choose are bytes.                                *)

LEMMA CallFacts ==
  ASSUME CallTypeOK
  PROVE  /\ bytes \in Seq(Byte) /\ Len(bytes) \in Nat
         /\ parameters.moves_per_symbol \in Nat
         /\ parameters.diagonal_closure_symbols \in Nat
         /\ parameters.orbit_closure_symbols \in Nat
         /\ parameters.squeeze_bytes \in Nat
         /\ parameters.squeeze_symbols_per_byte \in Nat
         /\ parameters.enable_foldback \in BOOLEAN
         /\ parameters.systematic_absorb \in BOOLEAN
         /\ keep.trace \in BOOLEAN /\ keep.checkpoints \in BOOLEAN
         /\ i \in Nat /\ j \in Nat
  <1>1. bytes \in Seq(Byte)
    BY MessagesAssumption DEF CallTypeOK
  <1>2. Len(bytes) \in Nat
    BY <1>1, LenProperties
  <1>3. parameters \in ParameterRecords
    BY ParametersAssumption DEF CallTypeOK
  <1>4. keep \in ObserverRecords
    BY ObserversAssumption DEF CallTypeOK
  <1>. QED
    BY <1>1, <1>2, <1>3, <1>4 DEF CallTypeOK, ParameterRecords, ObserverRecords

LEMMA DiagonalsType ==
  ASSUME NEW C \in Cubes
  PROVE  /\ BodyDiagonals(C) \in [0..31 -> Byte]
         /\ \A n \in Nat : BodyDiagonals(C)[n % 32] \in Byte
  <1>1. ASSUME NEW k \in 0..31
        PROVE  DiagonalCell(k) \in Coord
    <2>1. k % 8 \in 0..7 /\ 8 - 1 - (k % 8) \in 0..7
      OBVIOUS
    <2>. QED
      BY <2>1, SideIs8 DEF DiagonalCell, Coord, Idx
  <1>2. 4 * Side - 1 = 31
    BY SideIs8
  <1>3. BodyDiagonals(C) = [k \in 0..31 |-> C[DiagonalCell(k)]]
    BY <1>2 DEF BodyDiagonals, DiagonalCells
  <1>4. BodyDiagonals(C) \in [0..31 -> Byte]
    BY <1>1, <1>3 DEF Cubes
  <1>5. \A n \in Nat : n % 32 \in 0..31
    OBVIOUS
  <1>. QED
    BY <1>4, <1>5

LEMMA PerfectDiagonalsType ==
  \A n \in Nat : perfect_diagonals[n % 32] \in Byte
  BY PerfectCubeAssumption, DiagonalsType DEF perfect_diagonals

LEMMA LengthType ==
  ASSUME CallTypeOK
  PROVE  \A n \in Nat : length[n % 8] \in Byte
  <1>1. \A n \in Nat : n % 8 \in 0..7
    OBVIOUS
  <1>. QED
    BY <1>1, CallFacts, EncodeLengthType DEF length

LEMMA OrbitCellType ==
  ASSUME NEW k \in Nat, NEW quarter \in 0..3
  PROVE  OrbitCell(k, quarter) \in Coord
  <1>1. (k % 128) + 128 * quarter \in Nat
    OBVIOUS
  <1>2. ASSUME NEW n \in Nat
        PROVE  StorageCoord(n) \in Coord
    <2>1. ASSUME NEW a \in Axes
          PROVE  (n \div <<1, Side, Side * Side>>[AxisCode[a] + 1]) % Side \in 0..(Side - 1)
      <3>1. AxisCode[a] + 1 \in 1..3
        BY AxisCodeType
      <3>2. <<1, Side, Side * Side>>[AxisCode[a] + 1] \in {1, 8, 64}
        BY <3>1, SideIs8
      <3>3. n \div <<1, Side, Side * Side>>[AxisCode[a] + 1] \in Nat
        BY <3>2
      <3>. QED
        BY <3>3, SideIs8
    <2>. QED
      BY <2>1 DEF StorageCoord, Coord, Idx
  <1>. QED
    BY <1>1, <1>2 DEF OrbitCell

(* A sum of bytes reduced to a byte, in the shapes the engine uses.        *)
LEMMA RotatedSumType ==
  ASSUME NEW a \in Byte, NEW b \in Byte, NEW m \in Nat, NEW n \in Nat
  PROVE  U8(RotateLeftByte(a, m) + RotateLeftByte(b, n)) \in Byte
  <1>1. RotateLeftByte(a, m) \in Nat /\ RotateLeftByte(b, n) \in Nat
    BY RotateLeftByteType, ByteIsNat
  <1>. QED
    BY <1>1, U8Type

LEMMA ReturnSymbolType ==
  ASSUME NEW byte \in Byte, NEW k \in Nat
  PROVE  ReturnSymbol(byte, k) \in Byte
  <1>1. k * 8 + (k \div 8) \in Nat
    OBVIOUS
  <1>. QED
    BY <1>1, PerfectDiagonalsType, XorType, U8Type DEF ReturnSymbol

LEMMA FrameSymbolType ==
  ASSUME CallTypeOK, NEW k \in 0..9
  PROVE  FrameSymbol(k) \in Byte
  <1>1. CASE k \in 1..8
    <2>1. length[k - 1] \in Nat
      <3>1. k - 1 \in 0..7
        BY <1>1
      <3>. QED
        BY <3>1, CallFacts, EncodeLengthType, ByteIsNat DEF length
    <2>2. perfect_diagonals[(k - 1) * 4] \in Nat
      <3>1. (k - 1) * 4 \in 0..31
        BY <1>1
      <3>. QED
        BY <3>1, DiagonalsType, PerfectCubeAssumption, ByteIsNat DEF perfect_diagonals
    <2>3. length[k - 1] + perfect_diagonals[(k - 1) * 4] + (k - 1) * 8 \in Nat
      BY <1>1, <2>1, <2>2
    <2>. QED
      BY <1>1, <2>3, U8Type DEF FrameSymbol
  <1>2. CASE k \notin 1..8
    BY <1>2 DEF FrameSymbol, Byte
  <1>. QED
    BY <1>1, <1>2

LEMMA DiagonalSymbolType ==
  ASSUME CallTypeOK, WalkTypeOK, NEW k \in Nat
  PROVE  DiagonalSymbol(k) \in Byte
  <1>. DEFINE current == BodyDiagonals(cube)
              total == RotateLeftByte(current[k % 32], 1)
                       + RotateLeftByte(current[(k + 11) % 32], 3)
                       + RotateLeftByte(current[(k * 7 + 3) % 32], 5)
  <1>1. \A n \in Nat : current[n % 32] \in Byte
    BY DiagonalsType DEF WalkTypeOK
  <1>2. /\ k + 11 \in Nat /\ k * 7 + 3 \in Nat /\ k * 13 \in Nat
        /\ k * 8 + (k \div 4) \in Nat
    OBVIOUS
  <1>3. /\ RotateLeftByte(current[k % 32], 1) \in Nat
        /\ RotateLeftByte(current[(k + 11) % 32], 3) \in Nat
        /\ RotateLeftByte(current[(k * 7 + 3) % 32], 5) \in Nat
    BY <1>1, <1>2, RotateLeftByteType, ByteIsNat
  <1>4. total \in Nat
    BY <1>3
  <1>5. DiagonalSymbol(k) = ((U8(total) ## perfect_diagonals[(k * 13) % 32]) ## length[k % 8])
                              ## U8(k * 8 + (k \div 4))
    BY DEF DiagonalSymbol
  <1>. HIDE DEF total
  <1>. QED
    BY <1>2, <1>4, <1>5, U8Type, XorType, PerfectDiagonalsType, LengthType

LEMMA OrbitSymbolType ==
  ASSUME CallTypeOK, WalkTypeOK, NEW k \in Nat
  PROVE  OrbitSymbol(k) \in Byte
  <1>. DEFINE v(quarter) == cube[OrbitCell(k, quarter)]
              pair_a == U8(RotateLeftByte(v(0), 1) + RotateLeftByte(v(1), 3))
              pair_b == U8(RotateLeftByte(v(2), 5) + RotateLeftByte(v(3), 7))
  <1>1. v(0) \in Byte /\ v(1) \in Byte /\ v(2) \in Byte /\ v(3) \in Byte
    BY OrbitCellType DEF WalkTypeOK, Cubes
  <1>2. pair_a \in Byte /\ pair_b \in Byte
    BY <1>1, RotatedSumType
  <1>3. k * 5 + (k \div 8) \in Nat /\ k * 4 + (k \div 32) \in Nat
    OBVIOUS
  <1>4. BodyDiagonals(cube)[(k * 5 + (k \div 8)) % 32] \in Byte
    BY <1>3, DiagonalsType DEF WalkTypeOK
  <1>5. CoordinateCode(cursor) \in Byte
    BY CoordinateCodeType, SideIs8 DEF WalkTypeOK
  <1>6. OrbitSymbol(k) =
          ((((pair_a ## pair_b) ## BodyDiagonals(cube)[(k * 5 + (k \div 8)) % 32])
            ## length[k % 8]) ## CoordinateCode(cursor)) ## U8(k * 4 + (k \div 32))
    BY DEF OrbitSymbol
  <1>. HIDE DEF pair_a, pair_b
  <1>. QED
    BY <1>2, <1>3, <1>4, <1>5, <1>6, U8Type, XorType, LengthType

LEMMA InitialChainType ==
  ASSUME CallTypeOK, WalkTypeOK
  PROVE  InitialChain \in Byte
  <1>. DEFINE initial == BodyDiagonals(cube)
  <1>1. initial[0] \in Byte /\ initial[9] \in Byte /\ initial[18] \in Byte /\ initial[27] \in Byte
    BY DiagonalsType DEF WalkTypeOK
  <1>2. length[0] \in Byte
    BY CallFacts, EncodeLengthType DEF length
  <1>3. InitialChain = (((initial[0] ## RotateLeftByte(initial[9], 1))
                          ## RotateLeftByte(initial[18], 3))
                          ## RotateLeftByte(initial[27], 5)) ## length[0]
    BY DEF InitialChain
  <1>. HIDE DEF initial
  <1>. QED
    BY <1>1, <1>2, <1>3, XorType, RotateLeftByteType

LEMMA NextChainType ==
  ASSUME CallTypeOK, WalkTypeOK, chain \in Byte, NEW k \in Nat, NEW output \in Byte
  PROVE  NextChain(k, output) \in Byte
  <1>1. 1 + (k % 8) \in Nat /\ k * 5 + 7 \in Nat
    OBVIOUS
  <1>2. /\ RotateLeftByte(chain, 1 + (k % 8)) \in Nat
        /\ output \in Nat
        /\ BodyDiagonals(cube)[(k * 5 + 7) % 32] \in Nat
        /\ cube[cursor] \in Nat
        /\ CoordinateCode(cursor) \in Nat
    BY <1>1, RotateLeftByteType, DiagonalsType, CoordinateCodeType, SideIs8, ByteIsNat
    DEF WalkTypeOK, Cubes
  <1>3. RotateLeftByte(chain, 1 + (k % 8)) + output
          + BodyDiagonals(cube)[(k * 5 + 7) % 32]
          + cube[cursor] + CoordinateCode(cursor) \in Nat
    BY <1>2
  <1>. QED
    BY <1>3, U8Type DEF NextChain

LEMMA DeriveDiagonalByteType ==
  ASSUME NEW D \in [0..31 -> Byte], NEW k \in Nat, NEW c \in Byte
  PROVE  DeriveDiagonalByte(D, k, c) \in Byte
  <1>. DEFINE lane     == k \div 8
              position == k % 8
              left == RotateLeftByte(
                        (U8(RotateLeftByte(D[(lane % 4) * 8 + position], 1)
                          + RotateLeftByte(D[((lane + 1) % 4) * 8
                                             + ((position + 1 + lane) % 8)], 3))
                         ## U8(RotateLeftByte(D[((lane + 2) % 4) * 8
                                                + ((position + 3 + 2 * lane) % 8)], 5)
                          + RotateLeftByte(D[((lane + 3) % 4) * 8
                                             + ((position + 5 + 3 * lane) % 8)], 7)))
                        ## c, 1 + position)
              cross == U8(D[(k * 7 + 3) % 32] + D[(k * 13 + 1) % 32])
  <1>1. lane \in Nat /\ position \in 0..7
    OBVIOUS
  <1>2. \A m, n \in Nat : D[(m % 4) * 8 + (n % 8)] \in Byte
    <2>1. \A m, n \in Nat : (m % 4) * 8 + (n % 8) \in 0..31
      OBVIOUS
    <2>. QED
      BY <2>1
  <1>3. /\ lane + 1 \in Nat /\ lane + 2 \in Nat /\ lane + 3 \in Nat
        /\ position + 1 + lane \in Nat /\ position + 3 + 2 * lane \in Nat
        /\ position + 5 + 3 * lane \in Nat
        /\ 1 + position \in Nat /\ 1 + lane * 2 \in Nat /\ k * 8 + lane \in Nat
    BY <1>1
  <1>4. left \in Byte
    <2>1. D[(lane % 4) * 8 + position] \in Byte
      BY <1>1, <1>2
    <2>2. /\ D[((lane + 1) % 4) * 8 + ((position + 1 + lane) % 8)] \in Byte
          /\ D[((lane + 2) % 4) * 8 + ((position + 3 + 2 * lane) % 8)] \in Byte
          /\ D[((lane + 3) % 4) * 8 + ((position + 5 + 3 * lane) % 8)] \in Byte
      BY <1>2, <1>3
    <2>. HIDE DEF lane, position
    <2>. QED
      BY <1>3, <2>1, <2>2, RotatedSumType, XorType, RotateLeftByteType
  <1>5. cross \in Byte
    <2>1. (k * 7 + 3) % 32 \in 0..31 /\ (k * 13 + 1) % 32 \in 0..31
      OBVIOUS
    <2>2. D[(k * 7 + 3) % 32] \in Nat /\ D[(k * 13 + 1) % 32] \in Nat
      BY <2>1, ByteIsNat
    <2>3. D[(k * 7 + 3) % 32] + D[(k * 13 + 1) % 32] \in Nat
      BY <2>2
    <2>. QED
      BY <2>3, U8Type
  <1>6. DeriveDiagonalByte(D, k, c)
          = U8(left + RotateLeftByte(cross, 1 + lane * 2) + U8(k * 8 + lane))
    BY DEF DeriveDiagonalByte
  <1>. HIDE DEF left, cross, lane
  <1>7. left \in Nat /\ RotateLeftByte(cross, 1 + lane * 2) \in Nat /\ U8(k * 8 + lane) \in Nat
    BY <1>3, <1>4, <1>5, U8Type, RotateLeftByteType, ByteIsNat
  <1>8. left + RotateLeftByte(cross, 1 + lane * 2) + U8(k * 8 + lane) \in Nat
    BY <1>7
  <1>. QED
    BY <1>6, <1>8, U8Type

LEMMA FeedSymbolType ==
  ASSUME CallTypeOK, WalkTypeOK, chain \in Byte,
         NEW k \in Nat, NEW d \in Nat, NEW output \in Byte
  PROVE  FeedSymbol(k, d, output) \in Byte
  <1>. DEFINE current  == BodyDiagonals(cube)
              position == k % 8
              lane     == k \div 8
              dlane    == d % 4
              left  == current[dlane * 8 + ((position + d + lane) % 8)]
              right == current[((dlane + 1) % 4) * 8 + (((7 - position) + lane + d) % 8)]
              step  == k * parameters.squeeze_symbols_per_byte + d
  <1>1. position \in 0..7 /\ lane \in Nat /\ dlane \in 0..3
    OBVIOUS
  <1>2. current \in [0..31 -> Byte]
    BY DiagonalsType DEF WalkTypeOK
  <1>3. left \in Byte /\ right \in Byte
    <2>1. /\ dlane * 8 + ((position + d + lane) % 8) \in 0..31
          /\ ((dlane + 1) % 4) * 8 + (((7 - position) + lane + d) % 8) \in 0..31
      BY <1>1
    <2>. QED
      BY <1>2, <2>1
  <1>4. /\ 1 + 2 * dlane \in Nat /\ 7 - 2 * dlane \in Nat /\ 1 + (d % 8) \in Nat
        /\ k + d \in Nat
    BY <1>1
  <1>5. step \in Nat
    BY CallFacts, SMTT(30)
  <1>6. /\ RotateLeftByte(left, 1 + 2 * dlane) \in Nat
        /\ RotateLeftByte(right, 7 - 2 * dlane) \in Nat
        /\ RotateLeftByte(output, 1 + (d % 8)) \in Nat
        /\ chain \in Nat /\ length[(k + d) % 8] \in Nat /\ U8(step) \in Nat
    <2>. HIDE DEF left, right, step, dlane
    <2>. QED
      BY <1>3, <1>4, <1>5, RotateLeftByteType, LengthType, U8Type, ByteIsNat
  <1>7. RotateLeftByte(left, 1 + 2 * dlane) + RotateLeftByte(right, 7 - 2 * dlane)
          + RotateLeftByte(output, 1 + (d % 8)) + chain + length[(k + d) % 8]
          + U8(step) \in Nat
    <2>. HIDE DEF left, right, step, dlane
    <2>. QED
      BY <1>6
  <1>8. FeedSymbol(k, d, output)
          = U8(RotateLeftByte(left, 1 + 2 * dlane) + RotateLeftByte(right, 7 - 2 * dlane)
               + RotateLeftByte(output, 1 + (d % 8)) + chain + length[(k + d) % 8]
               + U8(step))
    BY DEF FeedSymbol
  <1>. QED
    BY <1>7, <1>8, U8Type

-----------------------------------------------------------------------------
(* The inductive invariant.                                                *)

(* What the types and the schedule need besides themselves: the loop       *)
(* counter is 0 until the first loop, past the validation the parameters   *)
(* are valid, only a loop is ever interrupted by absorb_symbol, no symbol  *)
(* is begun with unsupported parameters, and the output byte the feed      *)
(* symbols read has been appended.                                         *)
ControlOK ==
  /\ pc = "validate" => i = 0
  /\ pc \notin {"validate", "rejected"} => Valid(parameters)
  /\ absorbing => /\ Supported(parameters)
                  /\ pc \in {"forward", "foldback", "frame", "diagonal", "orbit", "feed"}
  /\ ~Supported(parameters) => Begun = 0
  /\ absorbing /\ parameters.systematic_absorb => amounts \in [0..2 -> 1..7]
  /\ pc = "feed" => digest # <<>>

IInv == TypeOK /\ SymbolSchedule /\ ControlOK

LEMMA InitEstablishesIInv == Init => IInv
  <1>. SUFFICES ASSUME Init PROVE IInv
    OBVIOUS
  <1>. USE DEF Init
  <1>1. CallTypeOK
    BY DEF CallTypeOK
  <1>2. WalkTypeOK
    BY PerfectCubeAssumption, OriginType DEF WalkInit, WalkTypeOK, Axes
  <1>3. AbsorbTypeOK
    <2>1. [which \in 0..2 |-> 0] \in [0..2 -> 0..(Side - 1)]
      BY SideIs8
    <2>2. symbol \in Byte /\ control \in Byte /\ phase \in Nat /\ symbol_index \in Nat
      BY DEF Byte
    <2>3. absorbing \in BOOLEAN /\ ~absorbing
      OBVIOUS
    <2>4. amounts \in [0..2 -> 0..(Side - 1)]
      BY <2>1
    <2>. QED
      BY <2>2, <2>3, <2>4 DEF AbsorbTypeOK
  <1>4. OutputTypeOK
    <2>1. <<>> \in Seq(Byte) /\ <<>> \in Seq(MoveRecords) /\ 0 \in Byte
      BY EmptySeq DEF Byte
    <2>. QED
      BY <2>1 DEF OutputTypeOK
  <1>5. SymbolSchedule
    BY DEF SymbolSchedule, Begun
  <1>6. ControlOK
    BY DEF ControlOK, Begun
  <1>. QED
    BY <1>1, <1>2, <1>3, <1>4, <1>5, <1>6 DEF IInv, TypeOK

LEMMA StayKeepsIInv == IInv /\ UNCHANGED vars => IInv'
  BY DEF IInv, TypeOK, CallTypeOK, WalkTypeOK, AbsorbTypeOK, OutputTypeOK, SymbolSchedule,
         ControlOK, vars, callVars, walkVars, absorbVars, Begun, MessageSymbols,
         FoldbackSymbols, FramedSymbols, ClosedSymbols, Valid, Supported

-----------------------------------------------------------------------------
(* A move of either controller is a turn of the walk.                      *)

LEMMA MoveIsTurn ==
  ASSUME IInv, NEW axis \in Axes \ {previous_axis}, NEW amount \in 1..7,
         Move(axis, amount)
  PROVE  /\ Turn(axis, amount)
         /\ WalkTypeOK'
         /\ cube'[cursor'] \in Byte
  <1>1. 1..7 = 1..(Side - 1)
    BY SideIs8
  <1>2. Turn(axis, amount)
    BY DEF Move, Turn
  <1>3. WalkTypeOK'
    BY <1>1, <1>2, WalkStep DEF IInv, TypeOK
  <1>. QED
    BY <1>2, <1>3 DEF WalkTypeOK, Cubes

LEMMA AbsorbingFacts ==
  ASSUME IInv, absorbing
  PROVE  /\ symbol \in Byte /\ control \in Byte /\ Probe \in Byte
         /\ phase \in Nat /\ symbol_index \in Nat
         /\ phase < parameters.moves_per_symbol
         /\ parameters.moves_per_symbol \in Nat
         /\ cursor \in Coord /\ previous_axis \in Axes
         /\ Geometry(cursor, phase, symbol_index) \in Byte
         /\ parameters.systematic_absorb => phase \in 0..5 /\ amounts \in [0..2 -> 1..7]
  <1>1. /\ symbol \in Byte /\ control \in Byte /\ phase \in Nat /\ symbol_index \in Nat
        /\ phase < parameters.moves_per_symbol
    BY DEF IInv, TypeOK, AbsorbTypeOK
  <1>2. cursor \in Coord /\ previous_axis \in Axes /\ Probe \in Byte
    BY DEF IInv, TypeOK, WalkTypeOK, Probe, Cubes
  <1>3. Geometry(cursor, phase, symbol_index) \in Byte
    BY <1>1, <1>2, SideIs8, GeometryType
  <1>4. parameters.systematic_absorb => phase \in 0..5 /\ amounts \in [0..2 -> 1..7]
    BY <1>1 DEF IInv, ControlOK, Supported, kMovesPerSymbol
  <1>5. parameters.moves_per_symbol \in Nat
    BY CallFacts DEF IInv, TypeOK
  <1>. QED
    BY <1>1, <1>2, <1>3, <1>4, <1>5

LEMMA FreeMoveIsMove ==
  ASSUME IInv, FreeMove
  PROVE  \E axis \in Axes \ {previous_axis}, amount \in 1..7 :
           Move(axis, amount) /\ control' \in Byte
  <1>. DEFINE geometry == Geometry(cursor, phase, symbol_index)
              axis == FreeAxis(control, phase, Probe, geometry, previous_axis)
              amount == FreeAmount(symbol, control, Probe, geometry, axis)
  <1>1. /\ absorbing
        /\ Move(axis, amount)
        /\ control' = FreeNextControl(control, phase, axis, amount, cube'[cursor'], cursor')
    BY DEF FreeMove
  <1>2. geometry \in Byte /\ Probe \in Byte /\ symbol \in Byte /\ control \in Byte
        /\ phase \in Nat /\ symbol_index \in Nat /\ cursor \in Coord /\ previous_axis \in Axes
    BY <1>1, AbsorbingFacts
  <1>. HIDE DEF geometry
  <1>3. axis \in Axes \ {previous_axis}
    BY <1>2, SideIs8, FreeControllerType
  <1>. HIDE DEF axis
  <1>4. amount \in 1..7
    BY <1>2, <1>3, SideIs8, FreeControllerType
  <1>. HIDE DEF amount
  <1>5. cursor' \in Coord /\ cube'[cursor'] \in Byte
    BY <1>1, <1>3, <1>4, MoveIsTurn DEF WalkTypeOK
  <1>6. control' \in Byte
    BY <1>1, <1>2, <1>3, <1>4, <1>5, SideIs8, FreeControllerType
  <1>. QED
    BY <1>1, <1>3, <1>4, <1>6

LEMMA SystematicMoveIsMove ==
  ASSUME IInv, SystematicMove
  PROVE  \E axis \in Axes \ {previous_axis}, amount \in 1..7 :
           Move(axis, amount) /\ control' \in Byte
  <1>. DEFINE geometry == Geometry(cursor, phase, symbol_index)
              axis == SystematicAxis(symbol, control, phase, Probe, geometry, previous_axis)
              amount == IF phase < 3 THEN amounts[phase]
                        ELSE DiffusionAmount(symbol, control, phase, Probe, geometry, axis)
  <1>1. /\ absorbing /\ parameters.systematic_absorb
        /\ Move(axis, amount)
        /\ control' = SystematicNextControl(symbol, control, phase, axis, amount,
                                            cube'[cursor'], cursor')
    BY DEF SystematicMove
  <1>2. geometry \in Byte /\ Probe \in Byte /\ symbol \in Byte /\ control \in Byte
        /\ phase \in 0..5 /\ phase \in Nat /\ symbol_index \in Nat /\ cursor \in Coord /\ previous_axis \in Axes
        /\ amounts \in [0..2 -> 1..7]
    BY <1>1, AbsorbingFacts
  <1>. HIDE DEF geometry
  <1>3. axis \in Axes \ {previous_axis}
    BY <1>2, SystematicAxisType
  <1>. HIDE DEF axis
  <1>4. amount \in 1..7
    <2>1. CASE phase < 3
      BY <1>2, <2>1
    <2>2. CASE phase >= 3
      BY <1>2, <1>3, <2>2, DiffusionAmountType
    <2>. QED
      BY <1>2, <2>1, <2>2
  <1>. HIDE DEF amount
  <1>5. cursor' \in Coord /\ cube'[cursor'] \in Byte
    BY <1>1, <1>3, <1>4, MoveIsTurn DEF WalkTypeOK
  <1>6. control' \in Byte
    <2>1. amount \in Nat
      BY <1>4
    <2>. QED
      BY <1>1, <1>2, <1>3, <1>5, <2>1, SideIs8, SystematicControlType
  <1>. QED
    BY <1>1, <1>3, <1>4, <1>6

-----------------------------------------------------------------------------
(* The moves keep the invariant.                                           *)

LEMMA MoveKeepsIInv ==
  ASSUME IInv, absorbing, NEW axis \in Axes \ {previous_axis}, NEW amount \in 1..7,
         Move(axis, amount), control' \in Byte
  PROVE  IInv'
  <1>1. UNCHANGED <<callVars, pc, i, j, symbol, amounts, chain, digest, checkpoints>>
    BY DEF Move
  <1>2. WalkTypeOK'
    BY MoveIsTurn
  <1>3. CallTypeOK'
    BY <1>1 DEF IInv, TypeOK, CallTypeOK, callVars
  <1>4. /\ phase \in Nat /\ phase < parameters.moves_per_symbol
        /\ parameters.moves_per_symbol \in Nat /\ symbol_index \in Nat
    BY AbsorbingFacts
  <1>5. /\ phase' = phase + 1
        /\ \/ /\ phase' = parameters.moves_per_symbol
              /\ absorbing' = FALSE /\ symbol_index' = symbol_index + 1
           \/ /\ phase' # parameters.moves_per_symbol
              /\ absorbing' = absorbing /\ symbol_index' = symbol_index
    BY DEF Move
  <1>6. AbsorbTypeOK'
    <2>1. /\ symbol \in Byte /\ amounts \in [0..2 -> 0..(Side - 1)]
      BY DEF IInv, TypeOK, AbsorbTypeOK
    <2>2. phase' \in Nat /\ symbol_index' \in Nat
      <3>1. phase' = phase + 1 /\ symbol_index' \in {symbol_index, symbol_index + 1}
        BY <1>5
      <3>. QED
        BY <1>4, <3>1
    <2>3. absorbing' \in BOOLEAN
      BY <1>5 DEF IInv, TypeOK, AbsorbTypeOK
    <2>4. phase' # parameters.moves_per_symbol => phase' < parameters.moves_per_symbol
      BY <1>4, <1>5
    <2>5. absorbing' => phase' < parameters'.moves_per_symbol
      BY <1>1, <1>5, <2>4 DEF callVars
    <2>. QED
      BY <1>1, <2>1, <2>2, <2>3, <2>5 DEF AbsorbTypeOK
  <1>7. OutputTypeOK'
    <2>1. trace \in Seq(MoveRecords) /\ chain \in Byte /\ digest \in Seq(Byte)
      BY DEF IInv, TypeOK, OutputTypeOK
    <2>2. [axis |-> axis, before |-> cursor, after |-> cursor', amount |-> amount,
           symbol |-> symbol, phase |-> phase, symbol_index |-> symbol_index]
            \in MoveRecords
      <3>1. 1..7 = 1..(Side - 1) /\ cursor \in Coord /\ cursor' \in Coord /\ symbol \in Byte
        BY <1>2, AbsorbingFacts, SideIs8 DEF WalkTypeOK
      <3>. QED
        BY <1>4, <3>1 DEF MoveRecords
    <2>3. trace' \in Seq(MoveRecords)
      BY <2>1, <2>2, AppendProperties DEF Move
    <2>. QED
      BY <1>1, <2>1, <2>3 DEF OutputTypeOK
  <1>8. Begun' = Begun
    <2>1. Begun = symbol_index + 1
      BY DEF Begun
    <2>2. CASE absorbing' = FALSE /\ symbol_index' = symbol_index + 1
      <3>1. Begun' = symbol_index' + 0
        BY <2>2 DEF Begun
      <3>. QED
        BY <1>4, <2>1, <2>2, <3>1
    <2>3. CASE absorbing' = absorbing /\ symbol_index' = symbol_index
      BY <2>3 DEF Begun
    <2>. QED
      BY <1>5, <2>2, <2>3
  <1>9. SymbolSchedule'
    BY <1>1, <1>8 DEF IInv, SymbolSchedule, callVars, MessageSymbols, FoldbackSymbols,
                      FramedSymbols, ClosedSymbols
  <1>10. ControlOK'
    BY <1>1, <1>5 DEF IInv, ControlOK, callVars, Valid, Supported
  <1>. QED
    BY <1>2, <1>3, <1>6, <1>7, <1>9, <1>10 DEF IInv, TypeOK

-----------------------------------------------------------------------------
(* Beginning a symbol keeps the invariant, provided the loop counters are  *)
(* on schedule.                                                            *)

Loops == {"forward", "foldback", "frame", "diagonal", "orbit", "feed"}

LEMMA AbsorbStarts ==
  ASSUME IInv, ~absorbing, pc \in Loops, NEW s \in Byte, Absorb(s)
  PROVE  /\ UNCHANGED <<callVars, walkVars, symbol_index, trace, digest, checkpoints>>
         /\ Supported(parameters) /\ absorbing'
         /\ Begun' = Begun + 1
         /\ Begun \in Nat
         /\ WalkTypeOK' /\ AbsorbTypeOK'
         /\ parameters.systematic_absorb => amounts' \in [0..2 -> 1..7]
  <1>1. /\ UNCHANGED <<callVars, walkVars, symbol_index, trace, digest, checkpoints>>
        /\ Supported(parameters) /\ absorbing' = TRUE /\ symbol' = s /\ phase' = 0
    BY DEF Absorb
  <1>2. /\ symbol_index \in Nat /\ cursor \in Coord /\ previous_axis \in Axes
        /\ Probe \in Byte
        /\ amounts \in [0..2 -> 0..(Side - 1)]
    BY DEF IInv, TypeOK, AbsorbTypeOK, WalkTypeOK, Probe, Cubes
  <1>3. Begun' = Begun + 1 /\ Begun \in Nat
    <2>1. Begun = symbol_index + 0
      BY DEF Begun
    <2>2. Begun' = symbol_index + 1
      BY <1>1 DEF Begun
    <2>. QED
      BY <1>2, <2>1, <2>2
  <1>4. WalkTypeOK'
    BY <1>1 DEF IInv, TypeOK, WalkTypeOK, walkVars
  <1>5. /\ control' \in Byte
        /\ amounts' \in [0..2 -> 0..(Side - 1)]
        /\ parameters.systematic_absorb => amounts' \in [0..2 -> 1..7]
    <2>1. CASE parameters.systematic_absorb
      <3>1. /\ control' = SystematicControl(s, symbol_index, cursor)
            /\ amounts' = InjAmounts(s, ContextDigits(symbol_index, cursor, previous_axis, Probe))
        BY <2>1 DEF Absorb
      <3>2. control' \in Byte
        BY <1>2, <3>1, SideIs8, SystematicControlType
      <3>3. amounts' \in [0..2 -> 1..7]
        BY <1>2, <3>1, SideIs8, ContextDigitsType, InjAmountsType
      <3>4. amounts' \in [0..2 -> 0..(Side - 1)]
        <4>1. 1..7 \subseteq 0..(Side - 1)
          BY SideIs8
        <4>. QED
          BY <3>3, <4>1
      <3>. QED
        BY <3>2, <3>3, <3>4
    <2>2. CASE ~parameters.systematic_absorb
      <3>1. control' = FreeControl(s, symbol_index, cursor) /\ amounts' = amounts
        BY <2>2 DEF Absorb
      <3>2. control' \in Byte
        <4>1. 1 \in 1..7 /\ 0 \in Nat
          OBVIOUS
        <4>. QED
          BY <1>2, <3>1, <4>1, SideIs8, FreeControllerType
      <3>. QED
        BY <1>2, <2>2, <3>1, <3>2
    <2>. QED
      BY <2>1, <2>2
  <1>6. AbsorbTypeOK'
    <2>1. 0 < parameters.moves_per_symbol
      <3>1. Valid(parameters)
        BY DEF IInv, ControlOK, Loops
      <3>. QED
        BY <3>1 DEF Valid
    <2>2. symbol' \in Byte /\ phase' \in Nat /\ symbol_index' \in Nat
      BY <1>1, <1>2
    <2>3. absorbing' \in BOOLEAN /\ phase' < parameters'.moves_per_symbol
      BY <1>1, <2>1 DEF callVars
    <2>. QED
      BY <1>5, <2>2, <2>3 DEF AbsorbTypeOK
  <1>. QED
    BY <1>1, <1>3, <1>4, <1>5, <1>6

LEMMA SymbolKeepsIInv ==
  ASSUME IInv, ~absorbing, pc \in Loops, NEW s \in Byte, Absorb(s),
         UNCHANGED <<pc, chain>>, i' \in Nat, j' \in Nat, SymbolSchedule'
  PROVE  IInv'
  <1>1. /\ UNCHANGED <<callVars, walkVars, symbol_index, trace, digest, checkpoints>>
        /\ Supported(parameters) /\ absorbing'
        /\ WalkTypeOK' /\ AbsorbTypeOK'
        /\ parameters.systematic_absorb => amounts' \in [0..2 -> 1..7]
    BY AbsorbStarts
  <1>2. CallTypeOK'
    BY <1>1 DEF IInv, TypeOK, CallTypeOK, callVars
  <1>3. OutputTypeOK'
    BY <1>1 DEF IInv, TypeOK, OutputTypeOK
  <1>4. ControlOK'
    BY <1>1 DEF IInv, ControlOK, callVars, Valid, Supported, Loops
  <1>. QED
    BY <1>1, <1>2, <1>3, <1>4 DEF IInv, TypeOK

LEMMA SameCall ==
  ASSUME UNCHANGED callVars
  PROVE  /\ MessageSymbols' = MessageSymbols /\ FoldbackSymbols' = FoldbackSymbols
         /\ FramedSymbols' = FramedSymbols /\ ClosedSymbols' = ClosedSymbols
         /\ parameters' = parameters
  BY DEF callVars, MessageSymbols, FoldbackSymbols, FramedSymbols, ClosedSymbols

LEMMA SymbolCounts ==
  ASSUME CallTypeOK
  PROVE  /\ MessageSymbols \in Nat /\ FoldbackSymbols \in Nat
         /\ FramedSymbols \in Nat /\ ClosedSymbols \in Nat
         /\ ClosedSymbols = FramedSymbols + parameters.diagonal_closure_symbols
                            + parameters.orbit_closure_symbols
         /\ FramedSymbols = MessageSymbols + FoldbackSymbols + 10
  BY CallFacts, SMTT(30) DEF MessageSymbols, FoldbackSymbols, FramedSymbols, ClosedSymbols

LEMMA ForwardKeepsIInv == IInv /\ Forward => IInv'
  <1>. SUFFICES ASSUME IInv, Forward PROVE IInv'
    OBVIOUS
  <1>1. /\ ~absorbing /\ pc = "forward" /\ pc \in Loops /\ i < Len(bytes)
        /\ Absorb(bytes[i + 1]) /\ i' = i + 1 /\ UNCHANGED <<pc, j, chain>>
    BY DEF Forward, Looping, SymbolsLeft, Loops
  <1>2. CallTypeOK /\ i \in Nat /\ j \in Nat /\ bytes \in Seq(Byte) /\ Len(bytes) \in Nat
    BY CallFacts DEF IInv, TypeOK
  <1>3. bytes[i + 1] \in Byte
    BY <1>1, <1>2, ElementOfSeq
  <1>4. Begun' = Begun + 1 /\ UNCHANGED callVars
    BY <1>1, <1>3, AbsorbStarts
  <1>5. Begun = i /\ i \in 0..MessageSymbols
    BY <1>1 DEF IInv, SymbolSchedule
  <1>6. i' \in 0..MessageSymbols' /\ Begun' = i'
    BY <1>1, <1>2, <1>4, <1>5, SameCall DEF MessageSymbols
  <1>7. SymbolSchedule'
    BY <1>1, <1>6 DEF SymbolSchedule
  <1>8. i' \in Nat /\ j' \in Nat
    BY <1>1, <1>2
  <1>. QED
    BY <1>1, <1>3, <1>7, <1>8, SymbolKeepsIInv

LEMMA FoldbackKeepsIInv == IInv /\ Foldback => IInv'
  <1>. SUFFICES ASSUME IInv, Foldback PROVE IInv'
    OBVIOUS
  <1>1. /\ ~absorbing /\ pc = "foldback" /\ pc \in Loops
        /\ parameters.enable_foldback /\ i > 0
        /\ Absorb(ReturnSymbol(bytes[i], i - 1)) /\ i' = i - 1 /\ UNCHANGED <<pc, j, chain>>
    BY DEF Foldback, Looping, SymbolsLeft, Loops
  <1>2. CallTypeOK /\ i \in Nat /\ j \in Nat /\ bytes \in Seq(Byte) /\ Len(bytes) \in Nat
    BY CallFacts DEF IInv, TypeOK
  <1>3. /\ i \in 0..MessageSymbols
        /\ Begun = MessageSymbols + (MessageSymbols - i)
    BY <1>1 DEF IInv, SymbolSchedule
  <1>4. ReturnSymbol(bytes[i], i - 1) \in Byte
    <2>1. i \in 1..Len(bytes) /\ i - 1 \in Nat
      BY <1>1, <1>2, <1>3 DEF MessageSymbols
    <2>. QED
      BY <1>2, <2>1, ElementOfSeq, ReturnSymbolType
  <1>5. Begun' = Begun + 1 /\ UNCHANGED callVars
    BY <1>1, <1>4, AbsorbStarts
  <1>6. i' \in 0..MessageSymbols' /\ Begun' = MessageSymbols' + (MessageSymbols' - i')
    BY <1>1, <1>2, <1>3, <1>5, SameCall DEF MessageSymbols
  <1>7. SymbolSchedule'
    BY <1>1, <1>5, <1>6, SameCall DEF SymbolSchedule
  <1>8. i' \in Nat /\ j' \in Nat
    BY <1>1, <1>2
  <1>. QED
    BY <1>1, <1>4, <1>7, <1>8, SymbolKeepsIInv

LEMMA FrameKeepsIInv == IInv /\ Frame => IInv'
  <1>. SUFFICES ASSUME IInv, Frame PROVE IInv'
    OBVIOUS
  <1>1. /\ ~absorbing /\ pc = "frame" /\ pc \in Loops /\ i < 10
        /\ Absorb(FrameSymbol(i)) /\ i' = i + 1 /\ UNCHANGED <<pc, j, chain>>
    BY DEF Frame, Looping, SymbolsLeft, Loops
  <1>2. CallTypeOK /\ i \in Nat /\ j \in Nat
    BY CallFacts DEF IInv, TypeOK
  <1>3. FrameSymbol(i) \in Byte
    BY <1>1, <1>2, FrameSymbolType
  <1>4. Begun' = Begun + 1 /\ UNCHANGED callVars
    BY <1>1, <1>3, AbsorbStarts
  <1>5. Begun = MessageSymbols + FoldbackSymbols + i
    BY <1>1 DEF IInv, SymbolSchedule
  <1>6. i' \in 0..10 /\ Begun' = MessageSymbols' + FoldbackSymbols' + i'
    BY <1>1, <1>2, <1>4, <1>5, SameCall, SymbolCounts
  <1>7. SymbolSchedule'
    BY <1>1, <1>6 DEF SymbolSchedule
  <1>8. i' \in Nat /\ j' \in Nat
    BY <1>1, <1>2
  <1>. QED
    BY <1>1, <1>3, <1>7, <1>8, SymbolKeepsIInv

LEMMA DiagonalClosureKeepsIInv == IInv /\ DiagonalClosure => IInv'
  <1>. SUFFICES ASSUME IInv, DiagonalClosure PROVE IInv'
    OBVIOUS
  <1>1. /\ ~absorbing /\ pc = "diagonal" /\ pc \in Loops
        /\ i < parameters.diagonal_closure_symbols
        /\ Absorb(DiagonalSymbol(i)) /\ i' = i + 1 /\ UNCHANGED <<pc, j, chain>>
    BY DEF DiagonalClosure, Looping, SymbolsLeft, Loops
  <1>2. CallTypeOK /\ WalkTypeOK /\ i \in Nat /\ j \in Nat
        /\ parameters.diagonal_closure_symbols \in Nat
    BY CallFacts DEF IInv, TypeOK
  <1>3. DiagonalSymbol(i) \in Byte
    BY <1>2, DiagonalSymbolType
  <1>4. Begun' = Begun + 1 /\ UNCHANGED callVars
    BY <1>1, <1>3, AbsorbStarts
  <1>5. Begun = FramedSymbols + i
    BY <1>1 DEF IInv, SymbolSchedule
  <1>6. i' \in 0..parameters'.diagonal_closure_symbols /\ Begun' = FramedSymbols' + i'
    BY <1>1, <1>2, <1>4, <1>5, SameCall, SymbolCounts
  <1>7. SymbolSchedule'
    BY <1>1, <1>6 DEF SymbolSchedule
  <1>8. i' \in Nat /\ j' \in Nat
    BY <1>1, <1>2
  <1>. QED
    BY <1>1, <1>3, <1>7, <1>8, SymbolKeepsIInv

LEMMA OrbitClosureKeepsIInv == IInv /\ OrbitClosure => IInv'
  <1>. SUFFICES ASSUME IInv, OrbitClosure PROVE IInv'
    OBVIOUS
  <1>1. /\ ~absorbing /\ pc = "orbit" /\ pc \in Loops
        /\ i < parameters.orbit_closure_symbols
        /\ Absorb(OrbitSymbol(i)) /\ i' = i + 1 /\ UNCHANGED <<pc, j, chain>>
    BY DEF OrbitClosure, Looping, SymbolsLeft, Loops
  <1>2. CallTypeOK /\ WalkTypeOK /\ i \in Nat /\ j \in Nat
        /\ parameters.orbit_closure_symbols \in Nat
        /\ parameters.diagonal_closure_symbols \in Nat
    BY CallFacts DEF IInv, TypeOK
  <1>3. OrbitSymbol(i) \in Byte
    BY <1>2, OrbitSymbolType
  <1>4. Begun' = Begun + 1 /\ UNCHANGED callVars
    BY <1>1, <1>3, AbsorbStarts
  <1>5. Begun = FramedSymbols + parameters.diagonal_closure_symbols + i
    BY <1>1 DEF IInv, SymbolSchedule
  <1>6. /\ i' \in 0..parameters'.orbit_closure_symbols
        /\ Begun' = FramedSymbols' + parameters'.diagonal_closure_symbols + i'
    BY <1>1, <1>2, <1>4, <1>5, SameCall, SymbolCounts
  <1>7. SymbolSchedule'
    BY <1>1, <1>6 DEF SymbolSchedule
  <1>8. i' \in Nat /\ j' \in Nat
    BY <1>1, <1>2
  <1>. QED
    BY <1>1, <1>3, <1>7, <1>8, SymbolKeepsIInv

LEMMA FeedKeepsIInv == IInv /\ Feed => IInv'
  <1>. SUFFICES ASSUME IInv, Feed PROVE IInv'
    OBVIOUS
  <1>. DEFINE output == digest[Len(digest)]
              fed == i * parameters.squeeze_symbols_per_byte
  <1>1. /\ ~absorbing /\ pc = "feed" /\ pc \in Loops
        /\ j < parameters.squeeze_symbols_per_byte
        /\ Absorb(FeedSymbol(i, j, output)) /\ j' = j + 1 /\ UNCHANGED <<pc, i, chain>>
    BY DEF Feed, Looping, SymbolsLeft, Loops
  <1>2. /\ CallTypeOK /\ WalkTypeOK /\ i \in Nat /\ j \in Nat /\ chain \in Byte
        /\ parameters.squeeze_symbols_per_byte \in Nat
        /\ parameters.squeeze_bytes \in Nat
        /\ digest \in Seq(Byte)
    BY CallFacts DEF IInv, TypeOK, OutputTypeOK
  <1>3. output \in Byte
    <2>1. digest # <<>>
      BY <1>1 DEF IInv, ControlOK
    <2>2. Len(digest) \in 1..Len(digest)
      BY <1>2, <2>1, EmptySeq
    <2>. QED
      BY <1>2, <2>2, ElementOfSeq
  <1>. HIDE DEF output
  <1>4. FeedSymbol(i, j, output) \in Byte
    BY <1>2, <1>3, FeedSymbolType
  <1>5. Begun' = Begun + 1 /\ UNCHANGED callVars
    BY <1>1, <1>4, AbsorbStarts
  <1>6. i \in 0..(parameters.squeeze_bytes - 1) /\ Begun = ClosedSymbols + fed + j
    BY <1>1 DEF IInv, SymbolSchedule
  <1>7. fed \in Nat /\ ClosedSymbols \in Nat
    BY <1>2, SymbolCounts
  <1>8. /\ i' \in 0..(parameters'.squeeze_bytes - 1)
        /\ j' \in 0..parameters'.squeeze_symbols_per_byte
        /\ Begun' = ClosedSymbols' + i' * parameters'.squeeze_symbols_per_byte + j'
    <2>1. fed' = fed /\ ClosedSymbols' = ClosedSymbols /\ parameters' = parameters
      BY <1>1, <1>5, SameCall
    <2>2. Begun' = ClosedSymbols' + fed' + j'
      <3>. HIDE DEF fed
      <3>. QED
        BY <1>1, <1>2, <1>5, <1>6, <1>7, <2>1
    <2>. QED
      BY <1>1, <1>2, <1>6, <2>1, <2>2
  <1>9. SymbolSchedule'
    BY <1>1, <1>8 DEF SymbolSchedule
  <1>10. i' \in Nat /\ j' \in Nat
    BY <1>1, <1>2
  <1>. QED
    BY <1>1, <1>4, <1>9, <1>10, SymbolKeepsIInv

-----------------------------------------------------------------------------
(* The steps between the symbols.                                          *)

ProgramPlaces == {"forward", "foldback", "frame", "diagonal", "orbit",
           "squeeze", "feed", "done", "rejected", "unsupported"}

LEMMA BetweenSymbols ==
  ASSUME IInv, ~absorbing,
         UNCHANGED <<callVars, walkVars, symbol_index, trace, absorbVars>>,
         pc' \in ProgramPlaces, i' \in Nat, j' \in Nat, chain' \in Byte, digest' \in Seq(Byte),
         pc' \notin {"validate", "rejected"} => Valid(parameters),
         pc' = "feed" => digest' # <<>>,
         SymbolSchedule'
  PROVE  IInv'
  <1>1. CallTypeOK'
    BY DEF IInv, TypeOK, CallTypeOK, callVars, ProgramPlaces
  <1>2. WalkTypeOK'
    BY DEF IInv, TypeOK, WalkTypeOK, walkVars
  <1>3. AbsorbTypeOK'
    BY DEF IInv, TypeOK, AbsorbTypeOK, callVars, absorbVars
  <1>4. OutputTypeOK'
    BY DEF IInv, TypeOK, OutputTypeOK
  <1>5. ControlOK'
    BY DEF IInv, ControlOK, Begun, ProgramPlaces, callVars, absorbVars, Valid, Supported
  <1>. QED
    BY <1>1, <1>2, <1>3, <1>4, <1>5 DEF IInv, TypeOK

(* What is unchanged between symbols, and the counts it fixes.             *)
LEMMA SameCounts ==
  ASSUME IInv, UNCHANGED <<callVars, walkVars, symbol_index, trace, absorbVars>>
  PROVE  /\ Begun' = Begun
         /\ MessageSymbols' = MessageSymbols /\ FoldbackSymbols' = FoldbackSymbols
         /\ FramedSymbols' = FramedSymbols /\ ClosedSymbols' = ClosedSymbols
         /\ parameters' = parameters
         /\ CallTypeOK /\ WalkTypeOK
         /\ i \in Nat /\ j \in Nat /\ chain \in Byte /\ digest \in Seq(Byte)
         /\ MessageSymbols \in Nat /\ FoldbackSymbols \in Nat
         /\ parameters.diagonal_closure_symbols \in Nat
         /\ parameters.orbit_closure_symbols \in Nat
         /\ parameters.squeeze_bytes \in Nat
         /\ parameters.squeeze_symbols_per_byte \in Nat
  <1>1. Begun' = Begun
    BY DEF Begun, absorbVars
  <1>2. UNCHANGED callVars /\ CallTypeOK /\ WalkTypeOK
    BY DEF IInv, TypeOK
  <1>3. i \in Nat /\ j \in Nat /\ chain \in Byte /\ digest \in Seq(Byte)
    BY DEF IInv, TypeOK, CallTypeOK, OutputTypeOK
  <1>. QED
    BY <1>1, <1>2, <1>3, SameCall, SymbolCounts, CallFacts

LEMMA RejectKeepsIInv == IInv /\ Reject => IInv'
  <1>. SUFFICES ASSUME IInv, Reject PROVE IInv'
    OBVIOUS
  <1>1. /\ pc = "validate" /\ pc' = "rejected" /\ UNCHANGED <<i, j, chain, digest>>
        /\ UNCHANGED <<callVars, walkVars, symbol_index, trace, absorbVars>>
    BY DEF Reject
  <1>2. ~absorbing
    BY <1>1 DEF IInv, ControlOK
  <1>3. SymbolSchedule'
    BY <1>1, SameCounts DEF IInv, SymbolSchedule
  <1>. QED
    BY <1>1, <1>2, <1>3, SameCounts, BetweenSymbols DEF ProgramPlaces

LEMMA BeginKeepsIInv == IInv /\ Begin => IInv'
  <1>. SUFFICES ASSUME IInv, Begin PROVE IInv'
    OBVIOUS
  <1>1. /\ pc = "validate" /\ Valid(parameters) /\ pc' = "forward"
        /\ UNCHANGED <<i, j, chain, digest>>
        /\ UNCHANGED <<callVars, walkVars, symbol_index, trace, absorbVars>>
    BY DEF Begin
  <1>2. ~absorbing
    BY <1>1 DEF IInv, ControlOK
  <1>3. i = 0 /\ Begun = 0
    BY <1>1 DEF IInv, SymbolSchedule, ControlOK
  <1>4. i' \in 0..MessageSymbols' /\ Begun' = i'
    BY <1>1, <1>3, SameCounts
  <1>5. SymbolSchedule'
    BY <1>1, <1>4 DEF SymbolSchedule
  <1>. QED
    BY <1>1, <1>2, <1>5, SameCounts, BetweenSymbols DEF ProgramPlaces

LEMMA EndForwardKeepsIInv == IInv /\ EndForward => IInv'
  <1>. SUFFICES ASSUME IInv, EndForward PROVE IInv'
    OBVIOUS
  <1>1. /\ ~absorbing /\ pc = "forward" /\ ~(i < MessageSymbols)
        /\ pc' = "foldback" /\ i' = MessageSymbols /\ UNCHANGED <<j, chain, digest>>
        /\ UNCHANGED <<callVars, walkVars, symbol_index, trace, absorbVars>>
    BY DEF EndForward, Leaving, LeaveFor, SymbolsLeft, MessageSymbols
  <1>2. Valid(parameters)
    BY <1>1 DEF IInv, ControlOK
  <1>3. i \in 0..MessageSymbols /\ Begun = i
    BY <1>1 DEF IInv, SymbolSchedule
  <1>4. /\ i' \in 0..MessageSymbols'
        /\ Begun' = MessageSymbols' + (IF parameters'.enable_foldback
                                       THEN MessageSymbols' - i' ELSE 0)
    BY <1>1, <1>3, SameCounts
  <1>5. SymbolSchedule'
    BY <1>1, <1>4, SameCounts DEF SymbolSchedule
  <1>. QED
    BY <1>1, <1>2, <1>5, SameCounts, BetweenSymbols DEF ProgramPlaces

LEMMA EndFoldbackKeepsIInv == IInv /\ EndFoldback => IInv'
  <1>. SUFFICES ASSUME IInv, EndFoldback PROVE IInv'
    OBVIOUS
  <1>1. /\ ~absorbing /\ pc = "foldback" /\ ~(parameters.enable_foldback /\ i > 0)
        /\ pc' = "frame" /\ i' = 0 /\ UNCHANGED <<j, chain, digest>>
        /\ UNCHANGED <<callVars, walkVars, symbol_index, trace, absorbVars>>
    BY DEF EndFoldback, Leaving, LeaveFor, SymbolsLeft
  <1>2. Valid(parameters)
    BY <1>1 DEF IInv, ControlOK
  <1>3. /\ i \in 0..MessageSymbols
        /\ Begun = MessageSymbols + (IF parameters.enable_foldback
                                     THEN MessageSymbols - i ELSE 0)
    BY <1>1 DEF IInv, SymbolSchedule
  <1>4. i' \in 0..10 /\ Begun' = MessageSymbols' + FoldbackSymbols' + i'
    BY <1>1, <1>3, SameCounts DEF FoldbackSymbols, MessageSymbols
  <1>5. SymbolSchedule'
    BY <1>1, <1>4, SameCounts DEF SymbolSchedule
  <1>. QED
    BY <1>1, <1>2, <1>5, SameCounts, BetweenSymbols DEF ProgramPlaces

LEMMA EndFrameKeepsIInv == IInv /\ EndFrame => IInv'
  <1>. SUFFICES ASSUME IInv, EndFrame PROVE IInv'
    OBVIOUS
  <1>1. /\ ~absorbing /\ pc = "frame" /\ ~(i < 10)
        /\ pc' = "diagonal" /\ i' = 0 /\ UNCHANGED <<j, chain, digest>>
        /\ UNCHANGED <<callVars, walkVars, symbol_index, trace, absorbVars>>
    BY DEF EndFrame, Leaving, LeaveFor, SymbolsLeft
  <1>2. Valid(parameters)
    BY <1>1 DEF IInv, ControlOK
  <1>3. i \in 0..10 /\ Begun = MessageSymbols + FoldbackSymbols + i
    BY <1>1 DEF IInv, SymbolSchedule
  <1>4. i' \in 0..parameters'.diagonal_closure_symbols /\ Begun' = FramedSymbols' + i'
    BY <1>1, <1>3, SameCounts, SymbolCounts
  <1>5. SymbolSchedule'
    BY <1>1, <1>4, SameCounts DEF SymbolSchedule
  <1>. QED
    BY <1>1, <1>2, <1>5, SameCounts, BetweenSymbols DEF ProgramPlaces

LEMMA EndDiagonalClosureKeepsIInv == IInv /\ EndDiagonalClosure => IInv'
  <1>. SUFFICES ASSUME IInv, EndDiagonalClosure PROVE IInv'
    OBVIOUS
  <1>1. /\ ~absorbing /\ pc = "diagonal" /\ ~(i < parameters.diagonal_closure_symbols)
        /\ pc' = "orbit" /\ i' = 0 /\ UNCHANGED <<j, chain, digest>>
        /\ UNCHANGED <<callVars, walkVars, symbol_index, trace, absorbVars>>
    BY DEF EndDiagonalClosure, Leaving, LeaveFor, SymbolsLeft
  <1>2. Valid(parameters)
    BY <1>1 DEF IInv, ControlOK
  <1>3. i \in 0..parameters.diagonal_closure_symbols /\ Begun = FramedSymbols + i
    BY <1>1 DEF IInv, SymbolSchedule
  <1>4. /\ i' \in 0..parameters'.orbit_closure_symbols
        /\ Begun' = FramedSymbols' + parameters'.diagonal_closure_symbols + i'
    BY <1>1, <1>3, SameCounts, SymbolCounts, SMTT(30)
  <1>5. SymbolSchedule'
    BY <1>1, <1>4, SameCounts DEF SymbolSchedule
  <1>. QED
    BY <1>1, <1>2, <1>5, SameCounts, BetweenSymbols DEF ProgramPlaces

LEMMA EndOrbitClosureKeepsIInv == IInv /\ EndOrbitClosure => IInv'
  <1>. SUFFICES ASSUME IInv, EndOrbitClosure PROVE IInv'
    OBVIOUS
  <1>1. /\ ~absorbing /\ pc = "orbit" /\ ~(i < parameters.orbit_closure_symbols)
        /\ pc' = "squeeze" /\ i' = 0 /\ chain' = InitialChain
        /\ UNCHANGED <<j, digest>>
        /\ UNCHANGED <<callVars, walkVars, symbol_index, trace, absorbVars>>
    BY DEF EndOrbitClosure, Leaving, LeaveFor, SymbolsLeft
  <1>2. Valid(parameters)
    BY <1>1 DEF IInv, ControlOK
  <1>3. /\ i \in 0..parameters.orbit_closure_symbols
        /\ Begun = FramedSymbols + parameters.diagonal_closure_symbols + i
    BY <1>1 DEF IInv, SymbolSchedule
  <1>4. /\ i' \in 0..parameters'.squeeze_bytes
        /\ Begun' = ClosedSymbols' + i' * parameters'.squeeze_symbols_per_byte
    <2>1. i' * parameters'.squeeze_symbols_per_byte = 0
      BY <1>1, SameCounts
    <2>2. i = parameters.orbit_closure_symbols
      BY <1>1, <1>3, SameCounts
    <2>. QED
      BY <1>1, <1>3, <2>1, <2>2, SameCounts, SymbolCounts, SMTT(30)
  <1>5. SymbolSchedule'
    BY <1>1, <1>4, SameCounts DEF SymbolSchedule
  <1>6. chain' \in Byte
    BY <1>1, SameCounts, InitialChainType
  <1>. QED
    BY <1>1, <1>2, <1>5, <1>6, SameCounts, BetweenSymbols DEF ProgramPlaces

LEMMA UnsupportedKeepsIInv == IInv /\ Unsupported => IInv'
  <1>. SUFFICES ASSUME IInv, Unsupported PROVE IInv'
    OBVIOUS
  <1>1. /\ ~absorbing /\ pc \in Loops /\ ~Supported(parameters) /\ pc' = "unsupported"
        /\ UNCHANGED <<i, j, chain, digest>>
        /\ UNCHANGED <<callVars, walkVars, symbol_index, trace, absorbVars>>
    BY DEF Unsupported, SymbolsLeft, Loops
  <1>2. Valid(parameters)
    BY <1>1 DEF IInv, ControlOK, Loops
  <1>3. Begun = 0
    BY <1>1 DEF IInv, ControlOK
  <1>4. SymbolSchedule'
    BY <1>1, <1>3, SameCounts DEF SymbolSchedule
  <1>. QED
    BY <1>1, <1>2, <1>4, SameCounts, BetweenSymbols DEF ProgramPlaces
LEMMA SqueezeByteKeepsIInv == IInv /\ SqueezeByte => IInv'
  <1>. SUFFICES ASSUME IInv, SqueezeByte PROVE IInv'
    OBVIOUS
  <1>. DEFINE output == DeriveDiagonalByte(BodyDiagonals(cube), i, chain)
              fed == i * parameters.squeeze_symbols_per_byte
  <1>1. /\ pc = "squeeze" /\ i < parameters.squeeze_bytes
        /\ digest' = Append(digest, output) /\ pc' = "feed" /\ j' = 0
        /\ UNCHANGED <<i, chain>>
        /\ UNCHANGED <<callVars, walkVars, symbol_index, trace, absorbVars>>
    BY DEF SqueezeByte
  <1>2. ~absorbing /\ Valid(parameters)
    BY <1>1 DEF IInv, ControlOK
  <1>3. Begun = ClosedSymbols + fed
    BY <1>1 DEF IInv, SymbolSchedule
  <1>4. output \in Byte
    BY SameCounts, <1>1, DiagonalsType, DeriveDiagonalByteType DEF WalkTypeOK
  <1>. HIDE DEF output
  <1>5. digest' \in Seq(Byte) /\ digest' # <<>>
    <2>1. digest \in Seq(Byte)
      BY DEF IInv, TypeOK, OutputTypeOK
    <2>2. Len(Append(digest, output)) = Len(digest) + 1 /\ Len(digest) \in Nat
      BY <1>4, <2>1, AppendProperties, LenProperties
    <2>. QED
      BY <1>1, <1>4, <2>1, <2>2, AppendProperties, EmptySeq
  <1>6. fed \in Nat /\ fed' = fed
    BY <1>1, SameCounts
  <1>7. /\ i' \in 0..(parameters'.squeeze_bytes - 1)
        /\ j' \in 0..parameters'.squeeze_symbols_per_byte
        /\ Begun' = ClosedSymbols' + i' * parameters'.squeeze_symbols_per_byte + j'
    <2>1. Begun' = ClosedSymbols' + fed' + j'
      <3>1. ClosedSymbols \in Nat
        BY SameCounts, SymbolCounts, <1>1
      <3>. HIDE DEF fed
      <3>. QED
        BY <1>1, <1>3, <1>6, <3>1, SameCounts
    <2>2. /\ i' \in 0..(parameters'.squeeze_bytes - 1)
          /\ j' \in 0..parameters'.squeeze_symbols_per_byte
      BY <1>1, SameCounts
    <2>. QED
      BY <2>1, <2>2
  <1>8. SymbolSchedule'
    BY <1>1, <1>7 DEF SymbolSchedule
  <1>9. i' \in Nat /\ j' \in Nat /\ chain' \in Byte
    BY <1>1, SameCounts
  <1>. QED
    BY <1>1, <1>2, <1>5, <1>8, <1>9, BetweenSymbols DEF ProgramPlaces

LEMMA EndFeedKeepsIInv == IInv /\ EndFeed => IInv'
  <1>. SUFFICES ASSUME IInv, EndFeed PROVE IInv'
    OBVIOUS
  <1>. DEFINE per == parameters.squeeze_symbols_per_byte
              output == digest[Len(digest)]
  <1>1. /\ ~absorbing /\ pc = "feed" /\ ~(j < per)
        /\ pc' = "squeeze" /\ i' = i + 1 /\ chain' = NextChain(i, output)
        /\ UNCHANGED <<j, digest>>
        /\ UNCHANGED <<callVars, walkVars, symbol_index, trace, absorbVars>>
    BY DEF EndFeed, Leaving, LeaveFor, SymbolsLeft
  <1>2. Valid(parameters) /\ digest # <<>>
    BY <1>1 DEF IInv, ControlOK
  <1>3. /\ i \in 0..(parameters.squeeze_bytes - 1) /\ j \in 0..per
        /\ Begun = ClosedSymbols + i * per + j
    BY <1>1 DEF IInv, SymbolSchedule
  <1>4. per \in Nat /\ i \in Nat /\ ClosedSymbols \in Nat
    BY <1>1, SameCounts, SymbolCounts
  <1>5. output \in Byte
    <2>1. digest \in Seq(Byte)
      BY <1>1, SameCounts
    <2>2. Len(digest) \in 1..Len(digest)
      BY <1>2, <2>1, EmptySeq
    <2>. QED
      BY <2>1, <2>2, ElementOfSeq
  <1>. HIDE DEF output
  <1>6. chain' \in Byte
    BY <1>1, <1>5, SameCounts, NextChainType
  <1>7. per' = per
    BY <1>1, SameCounts
  <1>. HIDE DEF per
  <1>8. (i + 1) * per = i * per + per /\ i * per \in Nat
    BY <1>4
  <1>9. Begun' = ClosedSymbols' + i' * per'
    <2>1. j = per
      BY <1>1, <1>3, <1>4
    <2>2. Begun' = ClosedSymbols' + (i + 1) * per
      BY <1>1, <1>3, <1>4, <1>8, <2>1, SameCounts
    <2>. QED
      BY <1>1, <1>7, <2>2
  <1>10. i' \in 0..parameters'.squeeze_bytes
    BY <1>1, <1>3, SameCounts
  <1>11. SymbolSchedule'
    BY <1>1, <1>9, <1>10 DEF SymbolSchedule, per
  <1>12. i' \in Nat /\ j' \in Nat /\ digest' \in Seq(Byte)
    BY <1>1, <1>4, SameCounts
  <1>. QED
    BY <1>1, <1>2, <1>6, <1>11, <1>12, BetweenSymbols DEF ProgramPlaces

LEMMA FinishKeepsIInv == IInv /\ Finish => IInv'
  <1>. SUFFICES ASSUME IInv, Finish PROVE IInv'
    OBVIOUS
  <1>1. /\ pc = "squeeze" /\ i = parameters.squeeze_bytes /\ pc' = "done"
        /\ UNCHANGED <<i, j, chain, digest>>
        /\ UNCHANGED <<callVars, walkVars, symbol_index, trace, absorbVars>>
    BY DEF Finish, LeaveFor
  <1>2. ~absorbing /\ Valid(parameters)
    BY <1>1 DEF IInv, ControlOK
  <1>3. Begun = ClosedSymbols + i * parameters.squeeze_symbols_per_byte
    BY <1>1 DEF IInv, SymbolSchedule
  <1>4. /\ i' = parameters'.squeeze_bytes
        /\ Begun' = ClosedSymbols' + i' * parameters'.squeeze_symbols_per_byte
    BY <1>1, <1>3, SameCounts
  <1>5. SymbolSchedule'
    BY <1>1, <1>4 DEF SymbolSchedule
  <1>. QED
    BY <1>1, <1>2, <1>5, SameCounts, BetweenSymbols DEF ProgramPlaces

-----------------------------------------------------------------------------
(* Every step keeps the invariant, and turns the cube or leaves it alone.  *)

LEMMA NextKeepsIInv == IInv /\ [Next]_vars => IInv'
  <1>. SUFFICES ASSUME IInv, [Next]_vars PROVE IInv'
    OBVIOUS
  <1>1. CASE Reject
    BY <1>1, RejectKeepsIInv
  <1>2. CASE Begin
    BY <1>2, BeginKeepsIInv
  <1>3. CASE Unsupported
    BY <1>3, UnsupportedKeepsIInv
  <1>4. CASE FreeMove
    <2>1. absorbing
      BY <1>4 DEF FreeMove
    <2>. QED
      BY <1>4, <2>1, FreeMoveIsMove, MoveKeepsIInv
  <1>5. CASE SystematicMove
    <2>1. absorbing
      BY <1>5 DEF SystematicMove
    <2>. QED
      BY <1>5, <2>1, SystematicMoveIsMove, MoveKeepsIInv
  <1>6. CASE Forward \/ EndForward
    BY <1>6, ForwardKeepsIInv, EndForwardKeepsIInv
  <1>7. CASE Foldback \/ EndFoldback
    BY <1>7, FoldbackKeepsIInv, EndFoldbackKeepsIInv
  <1>8. CASE Frame \/ EndFrame
    BY <1>8, FrameKeepsIInv, EndFrameKeepsIInv
  <1>9. CASE DiagonalClosure \/ EndDiagonalClosure
    BY <1>9, DiagonalClosureKeepsIInv, EndDiagonalClosureKeepsIInv
  <1>10. CASE OrbitClosure \/ EndOrbitClosure
    BY <1>10, OrbitClosureKeepsIInv, EndOrbitClosureKeepsIInv
  <1>11. CASE SqueezeByte
    BY <1>11, SqueezeByteKeepsIInv
  <1>12. CASE Feed \/ EndFeed
    BY <1>12, FeedKeepsIInv, EndFeedKeepsIInv
  <1>13. CASE Finish
    BY <1>13, FinishKeepsIInv
  <1>14. CASE Stay \/ UNCHANGED vars
    BY <1>14, StayKeepsIInv DEF Stay
  <1>. QED
    BY <1>1, <1>2, <1>3, <1>4, <1>5, <1>6, <1>7, <1>8, <1>9, <1>10, <1>11, <1>12, <1>13,
       <1>14 DEF Next

LEMMA StepsOfTheWalk == IInv /\ [Next]_vars => [WalkNext]_walkVars
  <1>. SUFFICES ASSUME IInv, [Next]_vars PROVE WalkNext \/ UNCHANGED walkVars
    OBVIOUS
  <1>1. ASSUME \E axis \in Axes \ {previous_axis}, amount \in 1..7 :
                 Move(axis, amount) /\ control' \in Byte
        PROVE  WalkNext
    <2>1. PICK axis \in Axes \ {previous_axis}, amount \in 1..7 : Move(axis, amount)
      BY <1>1
    <2>2. amount \in 1..(Side - 1)
      BY SideIs8
    <2>3. Turn(axis, amount)
      BY <2>1, MoveIsTurn
    <2>. QED
      BY <2>2, <2>3 DEF WalkNext
  <1>2. CASE FreeMove
    BY <1>1, <1>2, FreeMoveIsMove
  <1>3. CASE SystematicMove
    BY <1>1, <1>3, SystematicMoveIsMove
  <1>4. CASE Reject \/ Begin \/ Unsupported \/ SqueezeByte \/ Stay \/ UNCHANGED vars
    BY <1>4 DEF Reject, Begin, Unsupported, SqueezeByte, Stay, vars
  <1>5. CASE \/ Forward \/ Foldback \/ Frame \/ DiagonalClosure \/ OrbitClosure \/ Feed
    <2>1. \E s : Absorb(s)
      BY <1>5 DEF Forward, Foldback, Frame, DiagonalClosure, OrbitClosure, Feed
    <2>. QED
      BY <2>1 DEF Absorb
  <1>6. CASE \/ EndForward \/ EndFoldback \/ EndFrame \/ EndDiagonalClosure
             \/ EndOrbitClosure \/ EndFeed \/ Finish
    BY <1>6 DEF EndForward, EndFoldback, EndFrame, EndDiagonalClosure, EndOrbitClosure,
                EndFeed, Finish, LeaveFor
  <1>. QED
    BY <1>2, <1>3, <1>4, <1>5, <1>6 DEF Next

-----------------------------------------------------------------------------
(* The theorems.                                                           *)

LEMMA InvariantHolds == Spec => []IInv
  BY InitEstablishesIInv, NextKeepsIInv, PTL DEF Spec

(* The variables of compute() keep their types, in particular every value  *)
(* stored in a byte is reduced to one, the amounts of the recorded moves   *)
(* are rotations by 1 to 7, and a symbol never makes more moves than the   *)
(* parameters say.                                                         *)
THEOREM EngineTypeInvariant == Spec => []TypeOK
  <1>1. IInv => TypeOK
    BY DEF IInv
  <1>. QED
    BY <1>1, InvariantHolds, PTL

(* For every message and every parameter record, each phase of compute()   *)
(* begins, runs and ends at the symbol index the closed formula gives: no  *)
(* symbol is skipped, repeated or absorbed under another index.            *)
THEOREM SymbolsOnSchedule == Spec => []SymbolSchedule
  <1>1. IInv => SymbolSchedule
    BY DEF IInv
  <1>. QED
    BY <1>1, InvariantHolds, PTL

(* compute() implements the walk: whatever the symbols, both controllers   *)
(* only ever rotate the line through the cursor, by 1 to 7, along an axis  *)
(* other than that of the previous move, and the cursor moves with it.     *)
THEOREM EngineImplementsWalk == Spec => WalkSpec
  <1>1. Init => WalkInit
    BY DEF Init
  <1>. QED
    BY <1>1, InvariantHolds, StepsOfTheWalk, PTL DEF Spec, WalkSpec

(* So what holds of every walk holds of compute(): the cube is always a    *)
(* rearrangement of the perfect cube,                                      *)
THEOREM EngineRearranges == Spec => []Rearranged
  BY EngineImplementsWalk, WalkRearranges, PTL

(* and the cell under the cursor always holds what the origin of the       *)
(* perfect cube held, whatever has been absorbed.                          *)
THEOREM EngineCarriesItsCell == Spec => []CarriedCell
  BY EngineImplementsWalk, CursorCarriesItsCell, PTL

-----------------------------------------------------------------------------
(* The channel of the systematic controller.                               *)

(* Adding a context digit modulo 7 is undone by subtracting it.            *)
LEMMA DigitIsDecoded ==
  ASSUME NEW d \in 0..6, NEW c \in 0..6
  PROVE  (1 + ((d + c) % 7) + 6 - c) % 7 = d
  <1>1. CASE d + c < 7
    BY <1>1
  <1>2. CASE d + c >= 7
    BY <1>2
  <1>. QED
    BY <1>1, <1>2

(* Three digits of base 7 determine a byte.                                *)
LEMMA DigitsDetermineByte ==
  ASSUME NEW t \in Byte
  PROVE  /\ t % 7 \in 0..6 /\ (t \div 7) % 7 \in 0..6 /\ (t \div 49) % 7 \in 0..6
         /\ (t % 7) + 7 * ((t \div 7) % 7) + 49 * ((t \div 49) % 7) = t
  BY DEF Byte

(* 25 is the inverse of 41 modulo 256, so the permutation can be undone.   *)
LEMMA PermutationIsUndone ==
  ASSUME NEW s \in Byte
  PROVE  ((PermuteSymbol(s) + 239) * 25) % 256 = s
  <1>. DEFINE q == (s * 41 + 17) \div 256
  <1>1. q \in Int /\ PermuteSymbol(s) = s * 41 + 17 - 256 * q
    BY DEF Byte, PermuteSymbol
  <1>. HIDE DEF q
  <1>2. (PermuteSymbol(s) + 239) * 25 = s + 256 * (4 * s + 25 - 25 * q)
    BY <1>1 DEF Byte
  <1>. QED
    BY <1>1, <1>2 DEF Byte

(* The amounts of the first three moves, with the context they were        *)
(* computed in, give back the symbol.                                      *)
LEMMA AmountsDetermineSymbol ==
  ASSUME NEW s \in Byte, NEW c \in [0..2 -> 0..6]
  PROVE  DecodeAmounts(InjAmounts(s, c), c) = s
  <1>. DEFINE t == PermuteSymbol(s)
              a == InjAmounts(s, c)
              digit(which) == (a[which] + 6 - c[which]) % 7
  <1>1. t \in Byte
    BY DEF PermuteSymbol, Byte
  <1>2. /\ SymbolDigits(s)[0] = t % 7
        /\ SymbolDigits(s)[1] = (t \div 7) % 7
        /\ SymbolDigits(s)[2] = (t \div 49) % 7
    <2>1. t \div 1 = t
      BY <1>1 DEF Byte
    <2>. QED
      BY <2>1 DEF SymbolDigits
  <1>3. \A which \in 0..2 : SymbolDigits(s)[which] \in 0..6
    <2>. HIDE DEF t
    <2>1. 0..2 = {0, 1, 2}
      OBVIOUS
    <2>. QED
      BY <1>1, <1>2, <2>1, DigitsDetermineByte
  <1>4. \A which \in 0..2 : digit(which) = SymbolDigits(s)[which]
    <2>1. TAKE which \in 0..2
    <2>2. a[which] = 1 + ((SymbolDigits(s)[which] + c[which]) % 7)
      BY DEF InjAmounts
    <2>3. SymbolDigits(s)[which] \in 0..6 /\ c[which] \in 0..6
      BY <1>3
    <2>. HIDE DEF a
    <2>. QED
      BY <2>2, <2>3, DigitIsDecoded
  <1>5. digit(0) + 7 * digit(1) + 49 * digit(2) = t
    <2>1. 0 \in 0..2 /\ 1 \in 0..2 /\ 2 \in 0..2
      OBVIOUS
    <2>. HIDE DEF t, digit
    <2>. QED
      BY <1>1, <1>2, <1>4, <2>1, DigitsDetermineByte
  <1>6. DecodeAmounts(a, c) = ((digit(0) + 7 * digit(1) + 49 * digit(2) + 239) * 25) % 256
    BY DEF DecodeAmounts
  <1>7. DecodeAmounts(a, c) = ((t + 239) * 25) % 256
    <2>. HIDE DEF t, digit, a
    <2>. QED
      BY <1>5, <1>6
  <1>. QED
    BY <1>7, PermutationIsUndone

(* In every reachable state between two symbols, the three first amounts   *)
(* of the next symbol determine it, whatever it is: the injectivity the    *)
(* source claims for the systematic controller (engine.cpp:258) holds for  *)
(* every context, not only for the contexts of the checked schedule.       *)
THEOREM SymbolsPassTheChannel == Spec => []SystematicChannel
  <1>1. IInv => SystematicChannel
    <2>. SUFFICES ASSUME IInv PROVE SystematicChannel
      OBVIOUS
    <2>. DEFINE c == ContextDigits(symbol_index, cursor, previous_axis, Probe)
    <2>1. /\ symbol_index \in Nat /\ cursor \in Coord /\ previous_axis \in Axes
          /\ Probe \in Byte
      BY DEF IInv, TypeOK, AbsorbTypeOK, WalkTypeOK, Probe, Cubes
    <2>2. c \in [0..2 -> 0..6]
      BY <2>1, SideIs8, ContextDigitsType
    <2>. HIDE DEF c
    <2>3. \A s \in Byte : DecodeAmounts(InjAmounts(s, c), c) = s
      BY <2>2, AmountsDetermineSymbol
    <2>. QED
      BY <2>3 DEF SystematicChannel, c
  <1>. QED
    BY <1>1, InvariantHolds, PTL

-----------------------------------------------------------------------------
(* The trace.                                                              *)

(* A step makes a move, begins a symbol, or touches neither walk nor trace.*)
LEMMA KindsOfSteps ==
  ASSUME IInv, [Next]_vars
  PROVE  \/ /\ absorbing
            /\ \E axis \in Axes \ {previous_axis}, amount \in 1..7 : Move(axis, amount)
         \/ /\ ~absorbing /\ pc \in Loops
            /\ \E s : Absorb(s)
         \/ UNCHANGED <<callVars, walkVars, symbol_index, trace, absorbVars>>
  <1>1. CASE FreeMove
    BY <1>1, FreeMoveIsMove DEF FreeMove
  <1>2. CASE SystematicMove
    BY <1>2, SystematicMoveIsMove DEF SystematicMove
  <1>3. CASE Reject \/ Begin \/ Unsupported \/ SqueezeByte \/ Stay \/ UNCHANGED vars
    BY <1>3 DEF Reject, Begin, Unsupported, SqueezeByte, Stay, vars
  <1>4. CASE \/ Forward \/ Foldback \/ Frame \/ DiagonalClosure \/ OrbitClosure \/ Feed
    <2>1. ~absorbing /\ pc \in Loops
      BY <1>4 DEF Forward, Foldback, Frame, DiagonalClosure, OrbitClosure, Feed, Looping, Loops
    <2>2. \E s : Absorb(s)
      BY <1>4 DEF Forward, Foldback, Frame, DiagonalClosure, OrbitClosure, Feed
    <2>. QED
      BY <2>1, <2>2
  <1>5. CASE \/ EndForward \/ EndFoldback \/ EndFrame \/ EndDiagonalClosure
             \/ EndOrbitClosure \/ EndFeed \/ Finish
    BY <1>5 DEF EndForward, EndFoldback, EndFrame, EndDiagonalClosure, EndOrbitClosure,
                EndFeed, Finish, LeaveFor
  <1>. QED
    BY <1>1, <1>2, <1>3, <1>4, <1>5 DEF Next

(* A recorded move is a move: the trace has moves_per_symbol entries for   *)
(* each symbol absorbed, and those of the symbol being absorbed.           *)
TraceCounts ==
  keep.trace =>
    Len(trace) = parameters.moves_per_symbol * symbol_index + (IF absorbing THEN phase ELSE 0)

LEMMA TraceCountsKept == IInv /\ TraceCounts /\ [Next]_vars => TraceCounts'
  <1>. SUFFICES ASSUME IInv, TraceCounts, [Next]_vars PROVE TraceCounts'
    OBVIOUS
  <1>1. /\ trace \in Seq(MoveRecords) /\ symbol_index \in Nat /\ phase \in Nat
        /\ parameters.moves_per_symbol \in Nat
    BY CallFacts DEF IInv, TypeOK, OutputTypeOK, AbsorbTypeOK
  <1>2. ASSUME absorbing, NEW axis, NEW amount, Move(axis, amount)
        PROVE  TraceCounts'
    <2>. DEFINE per == parameters.moves_per_symbol
    <2>1. /\ UNCHANGED callVars /\ phase' = phase + 1
          /\ \/ /\ phase' = per
                /\ absorbing' = FALSE /\ symbol_index' = symbol_index + 1
             \/ /\ phase' # per
                /\ absorbing' = absorbing /\ symbol_index' = symbol_index
      BY <1>2 DEF Move
    <2>2. keep.trace => Len(trace') = Len(trace) + 1
      BY <1>1, <1>2, AppendProperties DEF Move
    <2>3. keep.trace => Len(trace) = per * symbol_index + phase
      BY <1>2 DEF TraceCounts
    <2>4. per' = per /\ keep' = keep
      BY <2>1 DEF callVars
    <2>. HIDE DEF per
    <2>5. CASE phase' = per
      <3>1. per \in Nat /\ per * (symbol_index + 1) = per * symbol_index + per
        BY <1>1 DEF per
      <3>2. keep.trace => Len(trace') = per * symbol_index'
        <4>1. per * symbol_index \in Nat
          BY <1>1, <3>1
        <4>2. symbol_index' = symbol_index + 1 /\ phase + 1 = per
          BY <2>1, <2>5
        <4>. QED
          BY <1>1, <2>2, <2>3, <3>1, <4>1, <4>2
      <3>3. absorbing' = FALSE /\ per * symbol_index' \in Nat
        BY <1>1, <2>1, <2>5, <3>1
      <3>. QED
        BY <2>4, <3>2, <3>3 DEF TraceCounts, per
    <2>6. CASE phase' # per
      <3>1. /\ absorbing' = absorbing /\ symbol_index' = symbol_index /\ phase' = phase + 1
            /\ per \in Nat /\ per * symbol_index \in Nat
        BY <1>1, <2>1, <2>6 DEF per
      <3>2. keep.trace => Len(trace') = per * symbol_index' + phase'
        BY <1>1, <2>2, <2>3, <3>1
      <3>. QED
        BY <1>2, <2>4, <3>1, <3>2 DEF TraceCounts, per
    <2>. QED
      BY <2>5, <2>6
  <1>3. ASSUME ~absorbing, NEW s, Absorb(s)
        PROVE  TraceCounts'
    BY <1>1, <1>3 DEF TraceCounts, Absorb, callVars
  <1>4. CASE UNCHANGED <<callVars, walkVars, symbol_index, trace, absorbVars>>
    BY <1>4 DEF TraceCounts, callVars, absorbVars
  <1>. QED
    BY <1>2, <1>3, <1>4, KindsOfSteps

LEMMA TraceCountsHolds == Spec => []TraceCounts
  <1>1. Init => TraceCounts
    <2>. SUFFICES ASSUME Init PROVE TraceCounts
      OBVIOUS
    <2>1. parameters.moves_per_symbol \in Nat
      BY ParametersAssumption DEF Init, ParameterRecords
    <2>. QED
      BY <2>1 DEF Init, TraceCounts
  <1>. QED
    BY <1>1, InvariantHolds, TraceCountsKept, PTL DEF Spec

LEMMA ProductIsMonotone ==
  ASSUME NEW a \in Nat, NEW b \in Nat, NEW c \in Nat, a <= b
  PROVE  a * c <= b * c /\ a * c \in Nat /\ b * c \in Nat
  <1>1. PICK d \in Nat : b = a + d
    <2>1. b - a \in Nat /\ b = a + (b - a)
      OBVIOUS
    <2>. QED
      BY <2>1
  <1>2. b * c = a * c + d * c /\ d * c \in Nat /\ a * c \in Nat
    BY <1>1
  <1>. QED
    BY <1>2

(* All symbols of a computation.                                           *)
AllSymbols == ClosedSymbols + parameters.squeeze_bytes * parameters.squeeze_symbols_per_byte

LEMMA NeverMoreSymbols ==
  ASSUME IInv
  PROVE  /\ AllSymbols \in Nat /\ Begun \in Nat /\ Begun <= AllSymbols
         /\ pc = "done" => Begun = AllSymbols
  <1>. DEFINE per == parameters.squeeze_symbols_per_byte
              fed == parameters.squeeze_bytes * per
  <1>1. CallTypeOK /\ symbol_index \in Nat
    BY DEF IInv, TypeOK, AbsorbTypeOK
  <1>2. /\ per \in Nat /\ parameters.squeeze_bytes \in Nat /\ i \in Nat
        /\ parameters.diagonal_closure_symbols \in Nat
        /\ parameters.orbit_closure_symbols \in Nat
    BY <1>1, CallFacts
  <1>3. /\ MessageSymbols \in Nat /\ FoldbackSymbols \in Nat
        /\ FramedSymbols \in Nat /\ ClosedSymbols \in Nat
        /\ ClosedSymbols = FramedSymbols + parameters.diagonal_closure_symbols
                            + parameters.orbit_closure_symbols
        /\ FramedSymbols = MessageSymbols + FoldbackSymbols + 10
        /\ FoldbackSymbols = IF parameters.enable_foldback THEN MessageSymbols ELSE 0
    BY <1>1, SymbolCounts DEF FoldbackSymbols, MessageSymbols
  <1>4. AllSymbols = ClosedSymbols + fed
    BY DEF AllSymbols
  <1>5. fed \in Nat
    BY <1>2
  <1>6. Begun \in Nat
    BY <1>1 DEF Begun
  <1>7. CASE pc \in {"squeeze", "feed", "done"}
    <2>1. CASE pc = "squeeze" \/ pc = "done"
      <3>1. i \in 0..parameters.squeeze_bytes /\ Begun = ClosedSymbols + i * per
            /\ (pc = "done" => i = parameters.squeeze_bytes)
        BY <1>2, <2>1 DEF IInv, SymbolSchedule
      <3>2. i * per <= fed /\ i * per \in Nat
        BY <1>2, <3>1, ProductIsMonotone
      <3>3. pc = "done" => i * per = fed
        BY <3>1
      <3>. DEFINE got == i * per
      <3>. HIDE DEF fed, per, got
      <3>4. Begun = ClosedSymbols + got /\ got <= fed /\ got \in Nat
            /\ (pc = "done" => got = fed)
        BY <3>1, <3>2, <3>3 DEF got
      <3>5. Begun <= AllSymbols /\ AllSymbols \in Nat
        BY <1>3, <1>4, <1>5, <3>4
      <3>6. pc = "done" => Begun = AllSymbols
        BY <1>4, <3>4
      <3>. QED
        BY <1>6, <3>5, <3>6
    <2>2. CASE pc = "feed"
      <3>1. /\ i \in 0..(parameters.squeeze_bytes - 1) /\ j \in 0..per
            /\ Begun = ClosedSymbols + i * per + j
        BY <2>2 DEF IInv, SymbolSchedule
      <3>2. (i + 1) * per <= fed /\ i * per \in Nat /\ (i + 1) * per = i * per + per
        BY <1>2, <3>1, ProductIsMonotone
      <3>. HIDE DEF fed, per
      <3>. QED
        BY <1>2, <1>3, <1>4, <1>5, <1>6, <2>2, <3>1, <3>2
    <2>. QED
      BY <1>7, <2>1, <2>2
  <1>8. CASE pc \notin {"squeeze", "feed", "done"}
    <2>. HIDE DEF fed, per
    <2>1. pc \in {"validate", "forward", "foldback", "frame", "diagonal", "orbit",
                  "rejected", "unsupported"}
      BY <1>1, <1>8 DEF CallTypeOK
    <2>2. Begun <= ClosedSymbols
      <3>1. CASE pc \in {"validate", "rejected", "unsupported", "forward"}
        BY <1>2, <1>3, <3>1 DEF IInv, SymbolSchedule
      <3>2. CASE pc = "foldback"
        BY <1>2, <1>3, <3>2 DEF IInv, SymbolSchedule
      <3>3. CASE pc \in {"frame", "diagonal", "orbit"}
        BY <1>2, <1>3, <3>3 DEF IInv, SymbolSchedule
      <3>. QED
        BY <2>1, <3>1, <3>2, <3>3
    <2>3. ClosedSymbols \in Nat
      BY <1>3
    <2>4. AllSymbols \in Nat /\ Begun <= AllSymbols
      BY <1>4, <1>5, <1>6, <2>2, <2>3
    <2>. QED
      BY <1>6, <1>8, <2>4
  <1>. QED
    BY <1>3, <1>4, <1>5, <1>6, <1>7, <1>8

(* The capacity compute() reserves for the trace in advance is what its    *)
(* loops then record, for every message and every parameter record: the    *)
(* vector never grows during a computation, and is full at its end.        *)
THEOREM ReservationIsExact == Spec => []ReservationExact
  <1>1. IInv /\ TraceCounts => ReservationExact
    <2>. SUFFICES ASSUME IInv, TraceCounts, keep.trace
                  PROVE  /\ Len(trace) <= ReservedMoves
                         /\ pc = "done" => Len(trace) = ReservedMoves
      BY DEF ReservationExact
    <2>. DEFINE per == parameters.moves_per_symbol
    <2>1. /\ per \in Nat /\ symbol_index \in Nat /\ phase \in Nat
          /\ absorbing => phase < per
      BY CallFacts DEF IInv, TypeOK, AbsorbTypeOK
    <2>2. ReservedMoves = AllSymbols * per
      <3>1. /\ CallTypeOK
            /\ parameters.squeeze_bytes * parameters.squeeze_symbols_per_byte \in Nat
        BY CallFacts DEF IInv, TypeOK
      <3>2. AllSymbols = Len(bytes) + FoldbackSymbols + 2 + 8
                         + parameters.diagonal_closure_symbols + parameters.orbit_closure_symbols
                         + parameters.squeeze_bytes * parameters.squeeze_symbols_per_byte
        BY <3>1, CallFacts, SymbolCounts, SMTT(30) DEF AllSymbols, MessageSymbols
      <3>. QED
        BY <3>2 DEF ReservedMoves
    <2>3. Len(trace) = per * symbol_index + (IF absorbing THEN phase ELSE 0)
      BY DEF TraceCounts
    <2>. HIDE DEF per
    <2>4. AllSymbols \in Nat /\ Begun \in Nat /\ Begun <= AllSymbols
          /\ (pc = "done" => Begun = AllSymbols)
      BY NeverMoreSymbols
    <2>5. Begun * per <= AllSymbols * per /\ Begun * per \in Nat
      BY <2>1, <2>4, ProductIsMonotone
    <2>6. Begun = symbol_index + (IF absorbing THEN 1 ELSE 0)
      BY DEF Begun
    <2>7. CASE absorbing
      <3>1. Begun * per = per * symbol_index + per /\ per * symbol_index \in Nat
        BY <2>1, <2>6, <2>7
      <3>2. pc # "done"
        BY <2>7 DEF IInv, ControlOK
      <3>. QED
        BY <2>1, <2>2, <2>3, <2>4, <2>5, <2>7, <3>1, <3>2
    <2>8. CASE ~absorbing
      <3>1. Begun * per = per * symbol_index /\ per * symbol_index \in Nat
        BY <2>1, <2>6, <2>8
      <3>. QED
        BY <2>2, <2>3, <2>4, <2>5, <2>8, <3>1
    <2>. QED
      BY <2>7, <2>8
  <1>. QED
    BY <1>1, InvariantHolds, TraceCountsHolds, PTL

-----------------------------------------------------------------------------
(* Redoing the computation from its trace.                                 *)

Redos == [cube : Cubes, cursor : Coord, connected : BOOLEAN]
Start == [cube |-> PerfectCube, cursor |-> Origin, connected |-> TRUE]
Present == [cube |-> cube, cursor |-> cursor, connected |-> TRUE]

(* f is the way from the start through the recorded moves.                 *)
IsRedoing(f, moves) ==
  /\ f \in [0..Len(moves) -> Redos]
  /\ f[0] = Start
  /\ \A n \in 1..Len(moves) : f[n] = Redone(f[n - 1], moves[n])

TraceLeadsHere ==
  keep.trace => \E f : IsRedoing(f, trace) /\ f[Len(trace)] = Present

LEMMA TraceLeadsHereKept == IInv /\ TraceLeadsHere /\ [Next]_vars => TraceLeadsHere'
  <1>. SUFFICES ASSUME IInv, TraceLeadsHere, [Next]_vars, keep'.trace
                PROVE  \E f : IsRedoing(f, trace') /\ f[Len(trace')] = Present'
    BY DEF TraceLeadsHere
  <1>1. trace \in Seq(MoveRecords) /\ Len(trace) \in Nat
    BY LenProperties DEF IInv, TypeOK, OutputTypeOK
  <1>2. ASSUME absorbing, NEW axis \in Axes \ {previous_axis}, NEW amount \in 1..7,
               Move(axis, amount)
        PROVE  \E f : IsRedoing(f, trace') /\ f[Len(trace')] = Present'
    <2>. DEFINE move == [axis |-> axis, before |-> cursor, after |-> cursor',
                         amount |-> amount, symbol |-> symbol,
                         phase |-> phase, symbol_index |-> symbol_index]
                last == Len(trace)
    <2>1. /\ keep' = keep /\ trace' = Append(trace, move)
          /\ cube' = RotateLine(cube, axis, cursor, amount)
          /\ cursor' = Advance(cursor, axis, amount)
      BY <1>2 DEF Move, callVars
    <2>2. PICK f : IsRedoing(f, trace) /\ f[last] = Present
      BY <2>1 DEF TraceLeadsHere
    <2>3. WalkTypeOK'
      BY <1>2, MoveIsTurn
    <2>4. Present' \in Redos
      BY <2>3 DEF Present, Redos, WalkTypeOK
    <2>5. Redone(Present, move) = Present'
      BY <2>1 DEF Redone, Present
    <2>. DEFINE g == [n \in 0..(last + 1) |-> IF n = last + 1 THEN Present' ELSE f[n]]
    <2>6. /\ Len(trace') = last + 1
          /\ trace'[last + 1] = move
          /\ \A n \in 1..last : trace'[n] = trace[n]
      BY <1>1, <2>1
    <2>. HIDE DEF move
    <2>7. /\ f \in [0..last -> Redos] /\ f[0] = Start
          /\ \A n \in 1..last : f[n] = Redone(f[n - 1], trace[n])
      BY <2>2 DEF IsRedoing
    <2>8. g \in [0..(last + 1) -> Redos] /\ g[0] = Start /\ g[last + 1] = Present'
      BY <1>1, <2>4, <2>7
    <2>9. ASSUME NEW n \in 1..(last + 1) PROVE g[n] = Redone(g[n - 1], trace'[n])
      <3>1. CASE n = last + 1
        <4>1. g[n - 1] = f[last] /\ g[n] = Present'
          BY <1>1, <3>1
        <4>. QED
          BY <2>2, <2>5, <2>6, <3>1, <4>1
      <3>2. CASE n # last + 1
        <4>1. n \in 1..last /\ g[n] = f[n] /\ g[n - 1] = f[n - 1]
          BY <1>1, <3>2
        <4>. QED
          BY <2>6, <2>7, <4>1
      <3>. QED
        BY <3>1, <3>2
    <2>10. IsRedoing(g, trace')
      <3>. HIDE DEF g
      <3>. QED
        BY <2>6, <2>8, <2>9 DEF IsRedoing
    <2>. QED
      BY <2>6, <2>8, <2>10
  <1>3. CASE UNCHANGED <<keep, cube, cursor, trace>>
    BY <1>3 DEF TraceLeadsHere, Present
  <1>4. ASSUME ~absorbing, NEW s, Absorb(s)
        PROVE  UNCHANGED <<keep, cube, cursor, trace>>
    BY <1>4 DEF Absorb, callVars, walkVars
  <1>5. CASE UNCHANGED <<callVars, walkVars, symbol_index, trace, absorbVars>>
    BY <1>3, <1>5 DEF callVars, walkVars
  <1>. QED
    BY <1>2, <1>3, <1>4, <1>5, KindsOfSteps

LEMMA TraceLeadsHereHolds == Spec => []TraceLeadsHere
  <1>1. Init => TraceLeadsHere
    <2>. SUFFICES ASSUME Init PROVE \E f : IsRedoing(f, trace) /\ f[Len(trace)] = Present
      BY DEF TraceLeadsHere
    <2>. DEFINE f == [n \in 0..0 |-> Start]
    <2>1. Start \in Redos
      BY PerfectCubeAssumption, OriginType DEF Start, Redos
    <2>2. trace = <<>> /\ Len(trace) = 0 /\ Present = Start
      BY DEF Init, WalkInit, Present, Start
    <2>3. IsRedoing(f, trace)
      BY <2>1, <2>2 DEF IsRedoing
    <2>. QED
      BY <2>2, <2>3
  <1>. QED
    BY <1>1, InvariantHolds, TraceLeadsHereKept, PTL DEF Spec

(* The recursive definition is that way.                                   *)
LEMMA ReplayIsRedoing ==
  ASSUME Len(trace) \in Nat, NEW f, IsRedoing(f, trace)
  PROVE  Replay = f[Len(trace)]
  <1>. DEFINE last == Len(trace)
              body(h) == [n \in 0..last |-> IF n = 0 THEN Start ELSE Redone(h[n - 1], trace[n])]
              behind == CHOOSE h : h = body(h)
  <1>1. f = body(f)
    <2>1. /\ f \in [0..last -> Redos] /\ f[0] = Start
          /\ \A n \in 1..last : f[n] = Redone(f[n - 1], trace[n])
      BY DEF IsRedoing
    <2>. HIDE DEF last
    <2>. QED
      BY <2>1
  <1>2. behind = body(behind)
    BY <1>1
  <1>3. Replay = behind[last]
    BY DEF Replay, Start
  <1>. HIDE DEF behind
  <1>4. /\ f[0] = behind[0]
        /\ \A n \in 1..last : f[n - 1] = behind[n - 1] => f[n] = behind[n]
    <2>1. \A n \in 0..last : /\ f[n] = IF n = 0 THEN Start ELSE Redone(f[n - 1], trace[n])
                             /\ behind[n] = IF n = 0 THEN Start
                                           ELSE Redone(behind[n - 1], trace[n])
      BY <1>1, <1>2
    <2>. QED
      BY <2>1
  <1>. HIDE DEF body, last
  <1>5. \A n \in 0..last : f[n] = behind[n]
    BY <1>4, RecursionIsUnique DEF last
  <1>. QED
    BY <1>3, <1>5 DEF last

(* The trace alone is enough to redo a computation, whatever the message,  *)
(* the parameters and the initial cube: each recorded move starts where    *)
(* the one before it ended, and all together lead to the present cube.     *)
(* That holds at any moment; TraceReplays says it of the end.              *)
THEOREM TracesReplay == Spec => []TraceReplays
  <1>1. IInv /\ TraceLeadsHere => TraceReplays
    <2>. SUFFICES ASSUME IInv, TraceLeadsHere, keep.trace PROVE Replay = Present
      BY DEF TraceReplays, Present
    <2>1. Len(trace) \in Nat
      BY LenProperties DEF IInv, TypeOK, OutputTypeOK
    <2>. QED
      BY <2>1, ReplayIsRedoing DEF TraceLeadsHere
  <1>. QED
    BY <1>1, InvariantHolds, TraceLeadsHereHolds, PTL

-----------------------------------------------------------------------------
(* The orbit.                                                              *)

(* The place of a cell in the storage determines the cell.                 *)
LEMMA StorageCoordIsInjective ==
  ASSUME NEW m \in 0..511, NEW n \in 0..511, StorageCoord(m) = StorageCoord(n)
  PROVE  m = n
  <1>1. ASSUME NEW p \in 0..511
        PROVE  p = StorageCoord(p)["x"] + 8 * StorageCoord(p)["y"] + 64 * StorageCoord(p)["z"]
    <2>1. /\ StorageCoord(p)["x"] = (p \div 1) % 8
          /\ StorageCoord(p)["y"] = (p \div 8) % 8
          /\ StorageCoord(p)["z"] = (p \div 64) % 8
      BY SideIs8 DEF StorageCoord, Axes, AxisCode
    <2>2. p = ((p \div 1) % 8) + 8 * ((p \div 8) % 8) + 64 * ((p \div 64) % 8)
      OBVIOUS
    <2>. QED
      BY <2>1, <2>2
  <1>. QED
    BY <1>1

LEMMA OrbitCellIsInjective ==
  \A a, b \in 0..127 : \A q, r \in 0..3 :
    OrbitCell(a, q) = OrbitCell(b, r) => a = b /\ q = r
  <1>. SUFFICES ASSUME NEW a \in 0..127, NEW b \in 0..127, NEW q \in 0..3, NEW r \in 0..3,
                       OrbitCell(a, q) = OrbitCell(b, r)
                PROVE  a = b /\ q = r
    OBVIOUS
  <1>1. /\ (a % 128) + 128 * q = a + 128 * q /\ a + 128 * q \in 0..511
        /\ (b % 128) + 128 * r = b + 128 * r /\ b + 128 * r \in 0..511
    OBVIOUS
  <1>2. a + 128 * q = b + 128 * r
    BY <1>1, StorageCoordIsInjective, ZenonT(30) DEF OrbitCell
  <1>. QED
    BY <1>2

LEMMA OrbitReads ==
  ASSUME NEW n \in Nat
  PROVE  Cardinality({OrbitCell(k, quarter) : k \in 0..(n - 1), quarter \in 0..3})
           = 4 * (IF n < 128 THEN n ELSE 128)
  <1>. DEFINE m == IF n < 128 THEN n ELSE 128
              Cells == {OrbitCell(k, quarter) : k \in 0..(n - 1), quarter \in 0..3}
              Steps == (0..(m - 1)) \X (0..3)
              F == [s \in Steps |-> OrbitCell(s[1], s[2])]
  <1>1. m \in Nat /\ m <= n /\ m <= 128
    OBVIOUS
  <1>2. Cells = {OrbitCell(a, quarter) : a \in 0..(m - 1), quarter \in 0..3}
    <2>1. ASSUME NEW k \in 0..(n - 1), NEW quarter \in 0..3
          PROVE  \E a \in 0..(m - 1) : OrbitCell(k, quarter) = OrbitCell(a, quarter)
      <3>1. k % 128 \in 0..(m - 1) /\ (k % 128) % 128 = k % 128
        OBVIOUS
      <3>. QED
        BY <3>1 DEF OrbitCell
    <2>2. \A a \in 0..(m - 1) : a \in 0..(n - 1)
      BY <1>1
    <2>. QED
      BY <2>1, <2>2
  <1>3. F \in Bijection(Steps, Cells)
    <2>1. \A s \in Steps : F[s] \in Cells
      BY <1>2
    <2>2. \A s, t \in Steps : F[s] = F[t] => s = t
      <3>1. SUFFICES ASSUME NEW s \in Steps, NEW t \in Steps, F[s] = F[t] PROVE s = t
        OBVIOUS
      <3>2. PICK a \in 0..127, q \in 0..3 : s = <<a, q>>
        BY <1>1
      <3>3. PICK b \in 0..127, r \in 0..3 : t = <<b, r>>
        BY <1>1
      <3>4. OrbitCell(a, q) = OrbitCell(b, r)
        BY <3>1, <3>2, <3>3
      <3>5. a = b /\ q = r
        <4>. HIDE DEF F, Steps, m, Cells
        <4>1. OrbitCell(a, q) = OrbitCell(b, r) => a = b /\ q = r
          BY OrbitCellIsInjective, Zenon
        <4>. QED
          BY <3>4, <4>1
      <3>. QED
        BY <3>2, <3>3, <3>5
    <2>3. \A c \in Cells : \E s \in Steps : F[s] = c
      <3>1. ASSUME NEW a \in 0..(m - 1), NEW quarter \in 0..3
            PROVE  \E s \in Steps : F[s] = OrbitCell(a, quarter)
        <4>1. <<a, quarter>> \in Steps
          OBVIOUS
        <4>. QED
          BY <4>1
      <3>. HIDE DEF F, Steps, m, Cells
      <3>. QED
        BY <1>2, <3>1
    <2>. HIDE DEF Steps, Cells
    <2>. QED
      BY <2>1, <2>2, <2>3, Fun_IsBij
  <1>4. IsFiniteSet(Steps) /\ Cardinality(Steps) = m * 4
    <2>. HIDE DEF m
    <2>1. \A b \in Int : /\ IsFiniteSet(0..b)
                          /\ Cardinality(0..b) = IF 0 > b THEN 0 ELSE b - 0 + 1
      BY FS_Interval
    <2>2. IsFiniteSet(0..(m - 1)) /\ Cardinality(0..(m - 1)) = m
      <3>1. m - 1 \in Int /\ (IF 0 > m - 1 THEN 0 ELSE (m - 1) - 0 + 1) = m
        BY <1>1
      <3>. QED
        BY <2>1, <3>1
    <2>3. IsFiniteSet(0..3) /\ Cardinality(0..3) = 4
      <3>1. 3 \in Int /\ (IF 0 > 3 THEN 0 ELSE 3 - 0 + 1) = 4
        OBVIOUS
      <3>. QED
        BY <2>1, <3>1
    <2>. QED
      BY <2>2, <2>3, FS_Product, ZenonT(30)
  <1>5. Cardinality(Cells) = Cardinality(Steps)
    <2>. HIDE DEF Steps, Cells, F
    <2>. QED
      BY <1>3, <1>4, FS_Bijection DEF ExistsBijection
  <1>. QED
    BY <1>1, <1>4, <1>5

(* The first 128 steps of the orbit closure read every cell of the cube    *)
(* once, and further steps start over, whatever the number of steps.       *)
THEOREM OrbitCoversTheCube == Spec => []OrbitCoverage
  <1>1. IInv => OrbitCoverage
    BY OrbitReads DEF IInv, TypeOK, CallTypeOK, OrbitCoverage
  <1>. QED
    BY <1>1, InvariantHolds, PTL

-----------------------------------------------------------------------------
(* The output.                                                             *)

(* The bytes appended to the digest so far.                                *)
Squeezed ==
  IF pc \in {"squeeze", "done"} THEN i ELSE IF pc = "feed" THEN i + 1 ELSE 0

DigestLength == pc # "unsupported" => Len(digest) = Squeezed

LEMMA DigestLengthKept == IInv /\ DigestLength /\ [Next]_vars => DigestLength'
  <1>. SUFFICES ASSUME IInv, DigestLength, [Next]_vars PROVE DigestLength'
    OBVIOUS
  <1>1. digest \in Seq(Byte) /\ Len(digest) \in Nat /\ i \in Nat
    BY LenProperties DEF IInv, TypeOK, CallTypeOK, OutputTypeOK
  <1>2. ASSUME UNCHANGED <<pc, i, digest>> PROVE DigestLength'
    BY <1>2 DEF DigestLength, Squeezed
  <1>3. ASSUME UNCHANGED <<pc, digest>>, pc \in Loops, pc # "feed" PROVE DigestLength'
    BY <1>3 DEF DigestLength, Squeezed, Loops
  <1>4. CASE SqueezeByte
    <2>1. Len(digest') = Len(digest) + 1
      BY <1>1, <1>4, AppendProperties DEF SqueezeByte
    <2>. QED
      BY <1>1, <1>4, <2>1 DEF SqueezeByte, DigestLength, Squeezed
  <1>5. CASE FreeMove \/ SystematicMove \/ Stay \/ UNCHANGED vars
    BY <1>2, <1>5 DEF FreeMove, SystematicMove, Move, Stay, vars
  <1>6. CASE Forward \/ Foldback \/ Frame \/ DiagonalClosure \/ OrbitClosure
    BY <1>3, <1>6 DEF Forward, Foldback, Frame, DiagonalClosure, OrbitClosure, Looping,
                      Loops, Absorb
  <1>7. CASE Feed
    BY <1>2, <1>7 DEF Feed, Absorb
  <1>8. CASE Reject \/ Begin \/ Unsupported
    BY <1>8 DEF Reject, Begin, Unsupported, DigestLength, Squeezed
  <1>9. CASE EndForward \/ EndFoldback \/ EndFrame \/ EndDiagonalClosure \/ EndOrbitClosure
    BY <1>9 DEF EndForward, EndFoldback, EndFrame, EndDiagonalClosure, EndOrbitClosure,
                Leaving, LeaveFor, DigestLength, Squeezed
  <1>10. CASE EndFeed \/ Finish
    BY <1>10 DEF EndFeed, Finish, Leaving, LeaveFor, DigestLength, Squeezed
  <1>. QED
    BY <1>2, <1>4, <1>5, <1>6, <1>7, <1>8, <1>9, <1>10 DEF Next

LEMMA DigestLengthHolds == Spec => []DigestLength
  <1>1. Init => DigestLength
    BY DEF Init, DigestLength, Squeezed
  <1>. QED
    BY <1>1, InvariantHolds, DigestLengthKept, PTL DEF Spec

(* A finished computation has produced exactly the bytes it was asked for: *)
(* RotHash1::finalize never throws its logic_error over the length of the  *)
(* digest (hash.cpp:29).                                                   *)
THEOREM DigestIsComplete == Spec => [](pc = "done" => Len(digest) = parameters.squeeze_bytes)
  <1>1. IInv /\ DigestLength => (pc = "done" => Len(digest) = parameters.squeeze_bytes)
    BY DEF IInv, SymbolSchedule, DigestLength, Squeezed
  <1>. QED
    BY <1>1, InvariantHolds, DigestLengthHolds, PTL

-----------------------------------------------------------------------------
(* The checkpoints.                                                        *)

PhaseNames == {"Initial", "AfterForward", "AfterFoldback", "AfterDiagonalClosure",
               "AfterOrbitClosure", "AfterSqueezeByte", "Final"}

LEMMA PhasesOfCheckpoints ==
  ASSUME CallTypeOK
  PROVE  /\ CheckpointPhases[1] = "Initial"
         /\ CheckpointPhases[2] = "AfterForward"
         /\ CheckpointPhases[3] = "AfterFoldback"
         /\ CheckpointPhases[4] = "AfterDiagonalClosure"
         /\ CheckpointPhases[5] = "AfterOrbitClosure"
         /\ \A k \in 1..parameters.squeeze_bytes : CheckpointPhases[5 + k] = "AfterSqueezeByte"
         /\ CheckpointPhases[parameters.squeeze_bytes + 6] = "Final"
         /\ Len(CheckpointPhases) = parameters.squeeze_bytes + 6
  <1>. DEFINE bytesOut == parameters.squeeze_bytes
              opening == <<"Initial", "AfterForward", "AfterFoldback",
                           "AfterDiagonalClosure", "AfterOrbitClosure">>
              middle == [k \in 1..bytesOut |-> "AfterSqueezeByte"]
              before == opening \o middle
  <1>1. bytesOut \in Nat
    BY CallFacts
  <1>2. CheckpointPhases = before \o <<"Final">>
    BY DEF CheckpointPhases
  <1>. HIDE DEF bytesOut
  <1>3. opening \in Seq(PhaseNames) /\ Len(opening) = 5
    BY DEF PhaseNames
  <1>4. middle \in Seq(PhaseNames) /\ Len(middle) = bytesOut
        /\ \A k \in 1..bytesOut : middle[k] = "AfterSqueezeByte"
    <2>1. middle \in Seq(PhaseNames)
      BY <1>1 DEF PhaseNames
    <2>. QED
      BY <1>1, <2>1
  <1>5. <<"Final">> \in Seq(PhaseNames) /\ Len(<<"Final">>) = 1 /\ <<"Final">>[1] = "Final"
    BY DEF PhaseNames
  <1>6. /\ opening[1] = "Initial" /\ opening[2] = "AfterForward"
        /\ opening[3] = "AfterFoldback" /\ opening[4] = "AfterDiagonalClosure"
        /\ opening[5] = "AfterOrbitClosure"
    OBVIOUS
  <1>. HIDE DEF opening, middle
  <1>7. /\ before \in Seq(PhaseNames) /\ Len(before) = 5 + bytesOut
        /\ \A k \in 1..5 : before[k] = opening[k]
        /\ \A k \in 1..bytesOut : before[5 + k] = middle[k]
    <2>1. /\ before \in Seq(PhaseNames) /\ Len(before) = Len(opening) + Len(middle)
          /\ \A k \in 1..(Len(opening) + Len(middle)) :
               before[k] = IF k <= Len(opening) THEN opening[k] ELSE middle[k - Len(opening)]
      BY <1>3, <1>4, ConcatProperties
    <2>. HIDE DEF before
    <2>2. \A k \in 1..(5 + bytesOut) : before[k] = IF k <= 5 THEN opening[k] ELSE middle[k - 5]
      BY <1>3, <1>4, <2>1
    <2>3. ASSUME NEW k \in 1..bytesOut PROVE before[5 + k] = middle[k]
      <3>1. 5 + k \in 1..(5 + bytesOut) /\ ~(5 + k <= 5) /\ (5 + k) - 5 = k
        BY <1>1
      <3>. QED
        BY <2>2, <3>1
    <2>. QED
      BY <1>1, <1>3, <1>4, <2>1, <2>2, <2>3
  <1>. HIDE DEF before
  <1>8. /\ Len(before \o <<"Final">>) = bytesOut + 6
        /\ \A k \in 1..(5 + bytesOut) : (before \o <<"Final">>)[k] = before[k]
        /\ (before \o <<"Final">>)[bytesOut + 6] = "Final"
    BY <1>1, <1>5, <1>7
  <1>9. \A k \in 1..bytesOut : 5 + k \in 1..(5 + bytesOut)
    BY <1>1
  <1>10. \A k \in 1..5 : k \in 1..(5 + bytesOut)
    BY <1>1
  <1>. QED
    <2>1. \A k \in 1..bytesOut : CheckpointPhases[5 + k] = "AfterSqueezeByte"
      BY <1>2, <1>4, <1>7, <1>8, <1>9
    <2>2. \A k \in 1..5 : CheckpointPhases[k] = opening[k]
      BY <1>2, <1>7, <1>8, <1>10
    <2>3. 1 \in 1..5 /\ 2 \in 1..5 /\ 3 \in 1..5 /\ 4 \in 1..5 /\ 5 \in 1..5
      OBVIOUS
    <2>4. /\ CheckpointPhases[1] = opening[1] /\ CheckpointPhases[2] = opening[2]
          /\ CheckpointPhases[3] = opening[3] /\ CheckpointPhases[4] = opening[4]
          /\ CheckpointPhases[5] = opening[5]
      BY <2>2, <2>3
    <2>5. CheckpointPhases[bytesOut + 6] = "Final" /\ Len(CheckpointPhases) = bytesOut + 6
      BY <1>2, <1>8
    <2>. QED
      BY <1>6, <2>1, <2>4, <2>5 DEF bytesOut

Recorded ==
  [phase : PhaseNames, index : Nat,
   state : [cube : Cubes, cursor : Coord, previous_axis : Axes, symbol_index : Nat]]

(* The checkpoints taken so far.                                           *)
Taken ==
  CASE pc \in {"validate", "rejected"}            -> 0
    [] pc = "forward"                             -> 1
    [] pc = "foldback"                            -> 2
    [] pc \in {"frame", "diagonal"}               -> 3
    [] pc = "orbit"                               -> 4
    [] pc \in {"squeeze", "feed", "unsupported"}  -> i + 5
    [] pc = "done"                                -> parameters.squeeze_bytes + 6

OnSchedule(checkpoint, k) ==
  /\ checkpoint.phase = CheckpointPhases[k]
  /\ checkpoint.state.symbol_index = SymbolsAt(checkpoint.phase, checkpoint.index)

(* Each checkpoint is on schedule, their number is the one that belongs to *)
(* the place in the program, and the last one is of the present state once *)
(* the computation is over.                                                *)
CheckpointsTaken ==
  keep.checkpoints =>
    /\ checkpoints \in Seq(Recorded)
    /\ \A k \in 1..Len(checkpoints) : OnSchedule(checkpoints[k], k)
    /\ pc # "unsupported" => Len(checkpoints) = Taken
    /\ pc = "done" => checkpoints[Len(checkpoints)].state = Snapshot

LEMMA SameSchedule ==
  ASSUME UNCHANGED callVars, NEW checkpoint, NEW k
  PROVE  OnSchedule(checkpoint, k)' = OnSchedule(checkpoint, k)
  BY DEF OnSchedule, SymbolsAt, CheckpointPhases, callVars, FoldbackSymbols, FramedSymbols,
         ClosedSymbols, MessageSymbols

LEMMA CheckpointAdded ==
  ASSUME IInv, CheckpointsTaken, NEW name \in PhaseNames, NEW index \in Nat,
         AddCheckpoint(name, index), UNCHANGED <<callVars, walkVars, symbol_index>>,
         pc # "unsupported", Taken' = Taken + 1,
         name = CheckpointPhases[Taken + 1], symbol_index = SymbolsAt(name, index)
  PROVE  CheckpointsTaken'
  <1>. DEFINE new == [phase |-> name, index |-> index, state |-> Snapshot]
  <1>. SUFFICES ASSUME keep'.checkpoints
                PROVE  /\ checkpoints' \in Seq(Recorded)
                       /\ \A k \in 1..Len(checkpoints') : (OnSchedule(checkpoints[k], k))'
                       /\ Len(checkpoints') = Taken'
                       /\ checkpoints'[Len(checkpoints')].state = Snapshot'
    BY DEF CheckpointsTaken
  <1>1. /\ checkpoints \in Seq(Recorded) /\ Len(checkpoints) = Taken
        /\ \A k \in 1..Len(checkpoints) : OnSchedule(checkpoints[k], k)
        /\ checkpoints' = Append(checkpoints, new)
    BY DEF CheckpointsTaken, AddCheckpoint, callVars
  <1>2. new \in Recorded
    BY DEF Recorded, Snapshot, IInv, TypeOK, WalkTypeOK, AbsorbTypeOK
  <1>3. OnSchedule(new, Taken + 1)
    BY DEF OnSchedule, Snapshot
  <1>4. new.state = Snapshot /\ Snapshot' = Snapshot
    BY DEF Snapshot, walkVars
  <1>. HIDE DEF new
  <1>5. /\ checkpoints' \in Seq(Recorded)
        /\ Len(checkpoints') = Len(checkpoints) + 1 /\ Len(checkpoints) \in Nat
        /\ \A k \in 1..Len(checkpoints) : checkpoints'[k] = checkpoints[k]
        /\ checkpoints'[Len(checkpoints) + 1] = new
    BY <1>1, <1>2, AppendProperties, LenProperties
  <1>6. ASSUME NEW k \in 1..Len(checkpoints') PROVE (OnSchedule(checkpoints[k], k))'
    <2>1. OnSchedule(checkpoints'[k], k)
      <3>1. CASE k = Taken + 1
        BY <1>1, <1>3, <1>5, <3>1
      <3>2. CASE k # Taken + 1
        <4>1. k \in 1..Len(checkpoints)
          BY <1>1, <1>5, <3>2
        <4>. QED
          BY <1>1, <1>5, <4>1
      <3>. QED
        BY <3>1, <3>2
    <2>. QED
      BY <2>1 DEF OnSchedule, SymbolsAt, CheckpointPhases, callVars, FoldbackSymbols,
                  FramedSymbols, ClosedSymbols, MessageSymbols
  <1>. QED
    BY <1>1, <1>4, <1>5, <1>6

LEMMA NoCheckpointAdded ==
  ASSUME CheckpointsTaken, UNCHANGED <<callVars, checkpoints>>, pc' # "done",
         pc' # "unsupported" => pc # "unsupported" /\ Taken' = Taken
  PROVE  CheckpointsTaken'
  <1>1. ASSUME NEW k, OnSchedule(checkpoints[k], k) PROVE OnSchedule(checkpoints[k], k)'
    BY <1>1, SameSchedule
  <1>. QED
    BY <1>1 DEF CheckpointsTaken, callVars

(* One step per call of add_checkpoint, and the steps that take none.      *)
LEMMA CheckpointsKept ==
  IInv /\ DigestLength /\ CheckpointsTaken /\ [Next]_vars => CheckpointsTaken'
  <1>. SUFFICES ASSUME IInv, DigestLength, CheckpointsTaken, [Next]_vars
                PROVE  CheckpointsTaken'
    OBVIOUS
  <1>1. /\ CallTypeOK /\ symbol_index \in Nat /\ Len(bytes) \in Nat /\ i \in Nat /\ j \in Nat
        /\ parameters.diagonal_closure_symbols \in Nat
        /\ parameters.orbit_closure_symbols \in Nat
        /\ parameters.squeeze_bytes \in Nat
        /\ parameters.squeeze_symbols_per_byte \in Nat
        /\ parameters.enable_foldback \in BOOLEAN
        /\ MessageSymbols \in Nat /\ FoldbackSymbols \in Nat /\ FramedSymbols \in Nat
        /\ ClosedSymbols \in Nat
    BY CallFacts, SymbolCounts DEF IInv, TypeOK, AbsorbTypeOK
  <1>2. ~absorbing => Begun = symbol_index
    BY <1>1 DEF Begun
  <1>3. CASE Begin
    <2>1. /\ pc = "validate" /\ pc' = "forward" /\ UNCHANGED <<callVars, walkVars, symbol_index>>
          /\ AddCheckpoint("Initial", 0)
      BY <1>3 DEF Begin
    <2>2. symbol_index = 0
      BY <1>1, <2>1 DEF IInv, SymbolSchedule, Begun, AbsorbTypeOK
    <2>3. symbol_index = SymbolsAt("Initial", 0)
      BY <2>2 DEF SymbolsAt
    <2>4. Taken = 0 /\ Taken' = 1 /\ "Initial" = CheckpointPhases[1] /\ "Initial" \in PhaseNames
      BY <1>1, <2>1, PhasesOfCheckpoints DEF Taken, PhaseNames
    <2>. QED
      BY <2>1, <2>3, <2>4, CheckpointAdded
  <1>4. CASE EndForward
    <2>1. /\ pc = "forward" /\ pc' = "foldback" /\ UNCHANGED <<callVars, walkVars, symbol_index>>
          /\ AddCheckpoint("AfterForward", Len(bytes))
          /\ ~absorbing /\ ~(i < Len(bytes))
      BY <1>4 DEF EndForward, Leaving, LeaveFor, SymbolsLeft
    <2>2. symbol_index = Len(bytes)
      BY <1>1, <1>2, <2>1 DEF IInv, SymbolSchedule, MessageSymbols
    <2>3. symbol_index = SymbolsAt("AfterForward", Len(bytes))
      BY <2>2 DEF SymbolsAt
    <2>4. Taken = 1 /\ Taken' = 2 /\ "AfterForward" = CheckpointPhases[2]
          /\ "AfterForward" \in PhaseNames
      BY <1>1, <2>1, PhasesOfCheckpoints DEF Taken, PhaseNames
    <2>. QED
      BY <1>1, <2>1, <2>3, <2>4, CheckpointAdded
  <1>5. CASE EndFoldback
    <2>1. /\ pc = "foldback" /\ pc' = "frame" /\ UNCHANGED <<callVars, walkVars, symbol_index>>
          /\ AddCheckpoint("AfterFoldback", Len(bytes))
          /\ ~absorbing /\ ~(parameters.enable_foldback /\ i > 0)
      BY <1>5 DEF EndFoldback, Leaving, LeaveFor, SymbolsLeft
    <2>2. symbol_index = Len(bytes) + FoldbackSymbols
      BY <1>1, <1>2, <2>1 DEF IInv, SymbolSchedule, MessageSymbols, FoldbackSymbols
    <2>3. symbol_index = SymbolsAt("AfterFoldback", Len(bytes))
      BY <2>2 DEF SymbolsAt
    <2>4. Taken = 2 /\ Taken' = 3 /\ "AfterFoldback" = CheckpointPhases[3]
          /\ "AfterFoldback" \in PhaseNames
      BY <1>1, <2>1, PhasesOfCheckpoints DEF Taken, PhaseNames
    <2>. QED
      BY <1>1, <2>1, <2>3, <2>4, CheckpointAdded
  <1>6. CASE EndDiagonalClosure
    <2>. DEFINE steps == parameters.diagonal_closure_symbols
    <2>1. /\ pc = "diagonal" /\ pc' = "orbit" /\ UNCHANGED <<callVars, walkVars, symbol_index>>
          /\ AddCheckpoint("AfterDiagonalClosure", steps)
          /\ ~absorbing /\ ~(i < steps)
      BY <1>6 DEF EndDiagonalClosure, Leaving, LeaveFor, SymbolsLeft
    <2>2. symbol_index = FramedSymbols + steps
      BY <1>1, <1>2, <2>1 DEF IInv, SymbolSchedule
    <2>3. symbol_index = SymbolsAt("AfterDiagonalClosure", steps)
      BY <2>2 DEF SymbolsAt
    <2>4. Taken = 3 /\ Taken' = 4 /\ "AfterDiagonalClosure" = CheckpointPhases[4]
          /\ "AfterDiagonalClosure" \in PhaseNames
      BY <1>1, <2>1, PhasesOfCheckpoints DEF Taken, PhaseNames
    <2>. QED
      BY <1>1, <2>1, <2>3, <2>4, CheckpointAdded
  <1>7. CASE EndOrbitClosure
    <2>. DEFINE steps == parameters.orbit_closure_symbols
    <2>1. /\ pc = "orbit" /\ pc' = "squeeze" /\ i' = 0
          /\ UNCHANGED <<callVars, walkVars, symbol_index>>
          /\ AddCheckpoint("AfterOrbitClosure", steps)
          /\ ~absorbing /\ ~(i < steps)
      BY <1>7 DEF EndOrbitClosure, Leaving, LeaveFor, SymbolsLeft
    <2>2. symbol_index = FramedSymbols + parameters.diagonal_closure_symbols + steps
      BY <1>1, <1>2, <2>1 DEF IInv, SymbolSchedule
    <2>3. symbol_index = SymbolsAt("AfterOrbitClosure", steps)
      BY <2>2 DEF SymbolsAt
    <2>4. Taken = 4 /\ Taken' = 5 /\ "AfterOrbitClosure" = CheckpointPhases[5]
          /\ "AfterOrbitClosure" \in PhaseNames
      BY <1>1, <2>1, PhasesOfCheckpoints DEF Taken, PhaseNames
    <2>. QED
      BY <1>1, <2>1, <2>3, <2>4, CheckpointAdded
  <1>8. CASE EndFeed
    <2>. DEFINE per == parameters.squeeze_symbols_per_byte
    <2>1. /\ pc = "feed" /\ pc' = "squeeze" /\ i' = i + 1
          /\ UNCHANGED <<callVars, walkVars, symbol_index>>
          /\ AddCheckpoint("AfterSqueezeByte", i)
          /\ ~absorbing /\ ~(j < per)
      BY <1>8 DEF EndFeed, Leaving, LeaveFor, SymbolsLeft
    <2>2. /\ i + 1 \in 1..parameters.squeeze_bytes
          /\ symbol_index = ClosedSymbols + i * per + per
      BY <1>1, <1>2, <2>1 DEF IInv, SymbolSchedule
    <2>3. symbol_index = ClosedSymbols + (i + 1) * per
      <3>1. (i + 1) * per = i * per + per /\ i * per \in Nat
        BY <1>1
      <3>. QED
        BY <1>1, <2>2, <3>1
    <2>4. symbol_index = SymbolsAt("AfterSqueezeByte", i)
      BY <2>3 DEF SymbolsAt
    <2>5. Taken = i + 5 /\ Taken' = (i + 5) + 1
      BY <1>1, <2>1 DEF Taken
    <2>6. CheckpointPhases[5 + (i + 1)] = "AfterSqueezeByte" /\ 5 + (i + 1) = (i + 5) + 1
      BY <1>1, <2>2, PhasesOfCheckpoints
    <2>7. "AfterSqueezeByte" \in PhaseNames
      BY DEF PhaseNames
    <2>. QED
      BY <1>1, <2>1, <2>4, <2>5, <2>6, <2>7, CheckpointAdded
  <1>9. CASE Finish
    <2>. DEFINE per == parameters.squeeze_symbols_per_byte
    <2>1. /\ pc = "squeeze" /\ pc' = "done" /\ i = parameters.squeeze_bytes
          /\ UNCHANGED <<callVars, walkVars, symbol_index>>
          /\ AddCheckpoint("Final", Len(digest))
      BY <1>9 DEF Finish, LeaveFor
    <2>2. ~absorbing /\ Len(digest) = i
      BY <2>1 DEF IInv, ControlOK, DigestLength, Squeezed
    <2>3. symbol_index = ClosedSymbols + i * per
      BY <1>1, <1>2, <2>1, <2>2 DEF IInv, SymbolSchedule
    <2>4. symbol_index = SymbolsAt("Final", Len(digest))
      BY <2>2, <2>3 DEF SymbolsAt
    <2>5. Taken = i + 5 /\ Taken' = (i + 5) + 1
      <3>1. parameters' = parameters
        BY <2>1 DEF callVars
      <3>. QED
        BY <1>1, <2>1, <3>1 DEF Taken
    <2>6. CheckpointPhases[(i + 5) + 1] = "Final"
      <3>1. (i + 5) + 1 = parameters.squeeze_bytes + 6
        BY <1>1, <2>1
      <3>. QED
        BY <1>1, <3>1, PhasesOfCheckpoints
    <2>7. "Final" \in PhaseNames
      BY DEF PhaseNames
    <2>. QED
      BY <1>1, <2>1, <2>2, <2>4, <2>5, <2>6, <2>7, CheckpointAdded
  <1>10. CASE Stay \/ UNCHANGED vars
    <2>1. UNCHANGED <<callVars, walkVars, symbol_index, checkpoints, pc, i>>
      BY <1>10 DEF Stay, vars
    <2>. QED
      BY <2>1, SameSchedule DEF CheckpointsTaken, Taken, Snapshot, callVars, walkVars,
         OnSchedule, SymbolsAt, CheckpointPhases, FoldbackSymbols,
                  FramedSymbols, ClosedSymbols, MessageSymbols
  <1>11. ASSUME UNCHANGED <<callVars, checkpoints, pc>>, pc \in Loops, pc # "feed"
         PROVE  CheckpointsTaken'
    <2>1. Taken' = Taken
      BY <1>11 DEF Loops, Taken
    <2>. QED
      BY <1>11, <2>1, NoCheckpointAdded DEF Loops
  <1>12. ASSUME UNCHANGED <<callVars, checkpoints, pc, i>>, pc \in Loops
         PROVE  CheckpointsTaken'
    <2>1. Taken' = Taken
      BY <1>12 DEF Loops, Taken
    <2>. QED
      BY <1>12, <2>1, NoCheckpointAdded DEF Loops
  <1>13. CASE FreeMove \/ SystematicMove
    <2>1. UNCHANGED <<callVars, checkpoints, pc, i>> /\ absorbing
      BY <1>13 DEF FreeMove, SystematicMove, Move
    <2>. QED
      BY <1>12, <2>1 DEF IInv, ControlOK, Loops
  <1>14. CASE Forward \/ Foldback \/ Frame \/ DiagonalClosure \/ OrbitClosure
    BY <1>11, <1>14 DEF Forward, Foldback, Frame, DiagonalClosure, OrbitClosure, Looping,
                        Loops, Absorb
  <1>15. CASE Feed
    BY <1>12, <1>15 DEF Feed, Looping, Loops, Absorb
  <1>16. CASE Reject \/ Unsupported \/ EndFrame \/ SqueezeByte
    <2>1. /\ UNCHANGED <<callVars, checkpoints>> /\ pc' # "done"
          /\ pc' # "unsupported" => pc # "unsupported" /\ Taken' = Taken
      BY <1>16 DEF Reject, Unsupported, EndFrame, SqueezeByte, Leaving, LeaveFor, Taken
    <2>. QED
      BY <2>1, NoCheckpointAdded
  <1>. QED
    BY <1>3, <1>4, <1>5, <1>6, <1>7, <1>8, <1>9, <1>10, <1>13, <1>14, <1>15, <1>16 DEF Next

LEMMA CheckpointsTakenHolds == Spec => []CheckpointsTaken
  <1>1. Init => CheckpointsTaken
    <2>. SUFFICES ASSUME Init PROVE CheckpointsTaken
      OBVIOUS
    <2>1. checkpoints = <<>> /\ pc = "validate"
      BY DEF Init
    <2>2. checkpoints \in Seq(Recorded) /\ Len(checkpoints) = 0
      BY <2>1
    <2>. QED
      BY <2>1, <2>2 DEF CheckpointsTaken, Taken
  <1>. QED
    BY <1>1, InvariantHolds, DigestLengthHolds, CheckpointsKept, PTL DEF Spec

(* The checkpoints come in the order of the phases, one per phase and one  *)
(* per byte of the squeeze, each a snapshot of the moment its phase and    *)
(* index name, whatever the parameters: compute() calls add_checkpoint     *)
(* from seven places, and a snapshot taken one statement early or late     *)
(* would be listed under the right name with the wrong state.              *)
THEOREM CheckpointsOnSchedule == Spec => []CheckpointSchedule
  <1>1. IInv /\ CheckpointsTaken => CheckpointSchedule
    <2>. SUFFICES ASSUME IInv, CheckpointsTaken, keep.checkpoints
                  PROVE  /\ \A k \in DOMAIN checkpoints : OnSchedule(checkpoints[k], k)
                         /\ pc = "done" =>
                              /\ Len(checkpoints) = Len(CheckpointPhases)
                              /\ checkpoints[Len(checkpoints)].state = Snapshot
      BY DEF CheckpointSchedule, OnSchedule
    <2>1. DOMAIN checkpoints = 1..Len(checkpoints)
      BY LenProperties DEF CheckpointsTaken
    <2>2. Len(CheckpointPhases) = parameters.squeeze_bytes + 6
      BY PhasesOfCheckpoints DEF IInv, TypeOK
    <2>3. pc = "done" => Taken = parameters.squeeze_bytes + 6
      BY DEF Taken
    <2>. QED
      BY <2>1, <2>2, <2>3 DEF CheckpointsTaken
  <1>. QED
    BY <1>1, InvariantHolds, CheckpointsTakenHolds, PTL

-----------------------------------------------------------------------------
(* The computation of another message of the same length.                  *)

(* The operators of the engine that do not name the message are the same   *)
(* in both computations.                                                   *)
LEMMA BytesBeside ==
  /\ Beside!Xor = Xor
  /\ \A n : Beside!U8(n) = U8(n)
  /\ \A n, m : Beside!RotateLeftByte(n, m) = RotateLeftByte(n, m)
  /\ \A n : Beside!EncodeLength(n) = EncodeLength(n)
  BY DEF Beside!Xor, Xor, Beside!XorBit, XorBit, Beside!Byte, Byte, Beside!U8,
         U8, Beside!RotateLeftByte, RotateLeftByte, Beside!Pow2, Pow2,
         Beside!EncodeLength, EncodeLength

LEMMA CubeBeside ==
  /\ \A c, a, n : Beside!Advance(c, a, n) = Advance(c, a, n)
  /\ \A C, a, c, n : Beside!RotateLine(C, a, c, n) = RotateLine(C, a, c, n)
  /\ \A n : Beside!StorageCoord(n) = StorageCoord(n)
  /\ \A C : Beside!BodyDiagonals(C) = BodyDiagonals(C)
  BY DEF Beside!Axes, Axes, Beside!AxisCode, AxisCode, Beside!Idx, Idx,
         Beside!Coord, Coord, Beside!Advance, Advance, Beside!Retreat, Retreat,
         Beside!LineContains, LineContains, Beside!RotateLine, RotateLine,
         Beside!StorageCoord, StorageCoord, Beside!DiagonalCell, DiagonalCell,
         Beside!DiagonalCells, DiagonalCells, Beside!BodyDiagonals,
         BodyDiagonals

LEMMA ControllersBeside ==
  /\ \A c : Beside!CoordinateCode(c) = CoordinateCode(c)
  /\ \A c, p, n : Beside!Geometry(c, p, n) = Geometry(c, p, n)
  /\ \A s, n, c : Beside!FreeControl(s, n, c) = FreeControl(s, n, c)
  /\ \A c, p, b, g, a : Beside!FreeAxis(c, p, b, g, a)
         = FreeAxis(c, p, b, g, a)
  /\ \A s, c, b, g, a : Beside!FreeAmount(s, c, b, g, a)
         = FreeAmount(s, c, b, g, a)
  /\ \A c, p, a, m, b, d : Beside!FreeNextControl(c, p, a, m, b, d)
         = FreeNextControl(c, p, a, m, b, d)
  /\ \A n, c, a, b : Beside!ContextDigits(n, c, a, b)
         = ContextDigits(n, c, a, b)
  /\ \A s, d : Beside!InjAmounts(s, d) = InjAmounts(s, d)
  /\ \A s, n, c : Beside!SystematicControl(s, n, c)
         = SystematicControl(s, n, c)
  /\ \A s, c, p, b, g, a : Beside!SystematicAxis(s, c, p, b, g, a)
         = SystematicAxis(s, c, p, b, g, a)
  /\ \A s, c, p, b, g, a : Beside!DiffusionAmount(s, c, p, b, g, a)
         = DiffusionAmount(s, c, p, b, g, a)
  /\ \A s, c, p, a, m, b, d : Beside!SystematicNextControl(s, c, p, a, m, b, d)
         = SystematicNextControl(s, c, p, a, m, b, d)
  <1>. USE DEF Beside!Xor, Xor, Beside!XorBit, XorBit, Beside!Byte, Byte,
               Beside!##, ##, Beside!U8, U8, Beside!RotateLeftByte,
               RotateLeftByte, Beside!Pow2, Pow2, Beside!MulOddByte,
               MulOddByte, Beside!EncodeLength, EncodeLength, Beside!Axes,
               Axes, Beside!AxisCode, AxisCode, Beside!CoordinateCode,
               CoordinateCode, Beside!IndexByte, IndexByte, Beside!Geometry,
               Geometry, Beside!AxisAfter, AxisAfter, Beside!ChooseOtherAxis,
               ChooseOtherAxis, Beside!FreeControl, FreeControl,
               Beside!FreeAxis, FreeAxis, Beside!FreeAmount, FreeAmount,
               Beside!FreeNextControl, FreeNextControl, Beside!ContextSeed,
               ContextSeed, Beside!ContextDigits, ContextDigits,
               Beside!PermuteSymbol, PermuteSymbol, Beside!SymbolDigits,
               SymbolDigits, Beside!InjAmounts, InjAmounts,
               Beside!SystematicControl, SystematicControl,
               Beside!SystematicAxis, SystematicAxis, Beside!DiffusionAmount,
               DiffusionAmount, Beside!SystematicNextControl,
               SystematicNextControl
  <1>1. \A c : Beside!CoordinateCode(c) = CoordinateCode(c)
    OBVIOUS
  <1>2. \A c, p, n : Beside!Geometry(c, p, n) = Geometry(c, p, n)
    OBVIOUS
  <1>3. \A s, n, c : Beside!FreeControl(s, n, c) = FreeControl(s, n, c)
    OBVIOUS
  <1>4. \A c, p, b, g, a : Beside!FreeAxis(c, p, b, g, a)
            = FreeAxis(c, p, b, g, a)
    OBVIOUS
  <1>5. \A s, c, b, g, a : Beside!FreeAmount(s, c, b, g, a)
            = FreeAmount(s, c, b, g, a)
    OBVIOUS
  <1>6. \A c, p, a, m, b, d : Beside!FreeNextControl(c, p, a, m, b, d)
            = FreeNextControl(c, p, a, m, b, d)
    OBVIOUS
  <1>7. \A n, c, a, b : Beside!ContextDigits(n, c, a, b)
            = ContextDigits(n, c, a, b)
    OBVIOUS
  <1>8. \A s, d : Beside!InjAmounts(s, d) = InjAmounts(s, d)
    OBVIOUS
  <1>9. \A s, n, c : Beside!SystematicControl(s, n, c)
            = SystematicControl(s, n, c)
    OBVIOUS
  <1>10. \A s, c, p, b, g, a : Beside!SystematicAxis(s, c, p, b, g, a)
             = SystematicAxis(s, c, p, b, g, a)
    OBVIOUS
  <1>11. \A s, c, p, b, g, a : Beside!DiffusionAmount(s, c, p, b, g, a)
             = DiffusionAmount(s, c, p, b, g, a)
    OBVIOUS
  <1>12. \A s, c, p, a, m, b, d : Beside!SystematicNextControl(s, c, p, a, m, b, d)
             = SystematicNextControl(s, c, p, a, m, b, d)
    OBVIOUS
  <1>. HIDE DEF Beside!CoordinateCode, CoordinateCode, Beside!Geometry,
                Geometry, Beside!FreeControl, FreeControl, Beside!FreeAxis,
                FreeAxis, Beside!FreeAmount, FreeAmount,
                Beside!FreeNextControl, FreeNextControl, Beside!ContextDigits,
                ContextDigits, Beside!InjAmounts, InjAmounts,
                Beside!SystematicControl, SystematicControl,
                Beside!SystematicAxis, SystematicAxis, Beside!DiffusionAmount,
                DiffusionAmount, Beside!SystematicNextControl,
                SystematicNextControl
  <1>. QED
    BY <1>1, <1>2, <1>3, <1>4, <1>5, <1>6, <1>7, <1>8, <1>9, <1>10, <1>11,
       <1>12

LEMMA LengthBeside ==
  ASSUME bytes \in Seq(Byte)
  PROVE  Len(Sibling) = Len(bytes)
  <1>. DEFINE S == {Sibling[n] : n \in DOMAIN bytes}
  <1>1. Len(bytes) \in Nat /\ DOMAIN bytes = 1..Len(bytes)
    BY LenProperties
  <1>2. Sibling \in [1..Len(bytes) -> S]
    BY <1>1 DEF Sibling
  <1>3. Sibling \in Seq(S)
    BY <1>1, <1>2, SeqDef
  <1>. HIDE DEF S
  <1>4. Len(Sibling) \in Nat /\ DOMAIN Sibling = 1..Len(Sibling)
    BY <1>3, LenProperties
  <1>5. DOMAIN Sibling = 1..Len(bytes)
    BY <1>2
  <1>6. \A m, n \in Nat : 1..m = 1..n => m = n
    <2>1. SUFFICES ASSUME NEW m \in Nat, NEW n \in Nat, 1..m = 1..n
                   PROVE  m = n
      OBVIOUS
    <2>2. \A k \in Nat \ {0} : k \in 1..m <=> k \in 1..n
      BY <2>1
    <2>3. m > 0 => m <= n
      BY <2>2
    <2>4. n > 0 => n <= m
      BY <2>2
    <2>. QED
      BY <2>3, <2>4
  <1>7. 1..Len(bytes) = 1..Len(Sibling)
    BY <1>4, <1>5
  <1>. QED
    BY <1>1, <1>4, <1>6, <1>7, Zenon

LEMMA SymbolsBeside ==
  ASSUME Len(Sibling) = Len(bytes)
  PROVE  /\ Beside!length = length
         /\ Beside!perfect_diagonals = perfect_diagonals
         /\ \A k : Beside!FrameSymbol(k) = FrameSymbol(k)
         /\ \A k : Beside!DiagonalSymbol(k) = DiagonalSymbol(k)
         /\ \A k : Beside!OrbitSymbol(k) = OrbitSymbol(k)
         /\ \A D, k, c : Beside!DeriveDiagonalByte(D, k, c) = DeriveDiagonalByte(D, k, c)
         /\ Beside!InitialChain = InitialChain
         /\ \A k, d, o : Beside!FeedSymbol(k, d, o) = FeedSymbol(k, d, o)
         /\ \A k, o : Beside!NextChain(k, o) = NextChain(k, o)
  <1>1. Beside!length = length
    BY BytesBeside DEF Beside!length, length
  <1>2. Beside!perfect_diagonals = perfect_diagonals
    BY CubeBeside DEF Beside!perfect_diagonals, perfect_diagonals
  <1>. USE DEF Beside!##, ##
  <1>3. \A k : Beside!FrameSymbol(k) = FrameSymbol(k)
    BY <1>1, <1>2, BytesBeside DEF Beside!FrameSymbol, FrameSymbol
  <1>4. \A k : Beside!DiagonalSymbol(k) = DiagonalSymbol(k)
    BY <1>1, <1>2, BytesBeside, CubeBeside DEF Beside!DiagonalSymbol, DiagonalSymbol
  <1>5. \A k : Beside!OrbitSymbol(k) = OrbitSymbol(k)
    BY <1>1, BytesBeside, CubeBeside, ControllersBeside
    DEF Beside!OrbitSymbol, OrbitSymbol, Beside!OrbitCell, OrbitCell
  <1>6. \A D, k, c : Beside!DeriveDiagonalByte(D, k, c) = DeriveDiagonalByte(D, k, c)
    BY BytesBeside DEF Beside!DeriveDiagonalByte, DeriveDiagonalByte
  <1>7. Beside!InitialChain = InitialChain
    BY <1>1, BytesBeside, CubeBeside DEF Beside!InitialChain, InitialChain
  <1>8. \A k, d, o : Beside!FeedSymbol(k, d, o) = FeedSymbol(k, d, o)
    BY <1>1, BytesBeside, CubeBeside DEF Beside!FeedSymbol, FeedSymbol
  <1>9. \A k, o : Beside!NextChain(k, o) = NextChain(k, o)
    BY BytesBeside, CubeBeside, ControllersBeside DEF Beside!NextChain, NextChain
  <1>. HIDE DEF Beside!##, ##
  <1>. QED
    BY <1>1, <1>2, <1>3, <1>4, <1>5, <1>6, <1>7, <1>8, <1>9

(* What absorbing a symbol and recording a checkpoint do knows nothing of  *)
(* the message.                                                            *)
LEMMA StepsBeside ==
  /\ UNCHANGED callVars => UNCHANGED Beside!callVars
  /\ \A s : Absorb(s) => Beside!Absorb(s)
  /\ \A axis, amount : Move(axis, amount) => Beside!Move(axis, amount)
  /\ \A name, index : AddCheckpoint(name, index) => Beside!AddCheckpoint(name, index)
  /\ \A loop, k : LeaveFor(loop, k) => Beside!LeaveFor(loop, k)
  /\ FreeMove => Beside!FreeMove
  /\ SystematicMove => Beside!SystematicMove
  <1>1. UNCHANGED callVars => UNCHANGED Beside!callVars
    BY DEF callVars, Beside!callVars, Sibling
  <1>2. \A s : Absorb(s) => Beside!Absorb(s)
    BY <1>1, ControllersBeside
    DEF Absorb, Beside!Absorb, Supported, Beside!Supported, Probe, Beside!Probe,
        walkVars, Beside!walkVars, kMovesPerSymbol, Beside!kMovesPerSymbol
  <1>3. \A axis, amount : Move(axis, amount) => Beside!Move(axis, amount)
    BY <1>1, CubeBeside DEF Move, Beside!Move
  <1>4. \A name, index : AddCheckpoint(name, index) => Beside!AddCheckpoint(name, index)
    BY DEF AddCheckpoint, Beside!AddCheckpoint, Snapshot, Beside!Snapshot
  <1>5. \A loop, k : LeaveFor(loop, k) => Beside!LeaveFor(loop, k)
    BY <1>1 DEF LeaveFor, Beside!LeaveFor, walkVars, Beside!walkVars,
                absorbVars, Beside!absorbVars
  <1>6. FreeMove => Beside!FreeMove
    BY <1>3, ControllersBeside DEF FreeMove, Beside!FreeMove, Probe, Beside!Probe
  <1>7. SystematicMove => Beside!SystematicMove
    BY <1>3, ControllersBeside
    DEF SystematicMove, Beside!SystematicMove, Probe, Beside!Probe
  <1>. QED
    BY <1>1, <1>2, <1>3, <1>4, <1>5, <1>6, <1>7

(* Behind the foldback every step of the one computation is a step of the  *)
(* other.                                                                  *)
LEMMA LateStepsBeside ==
  ASSUME Next, pc \in LatePhases, Len(Sibling) = Len(bytes)
  PROVE  Beside!Next
  <1>. USE SymbolsBeside, StepsBeside, CubeBeside
  <1>1. SymbolsLeft <=> Beside!SymbolsLeft
    BY DEF SymbolsLeft, Beside!SymbolsLeft, LatePhases
  <1>2. \A loop : Looping(loop) => Beside!Looping(loop)
    BY <1>1 DEF Looping, Beside!Looping
  <1>3. \A loop : Leaving(loop) => Beside!Leaving(loop)
    BY <1>1 DEF Leaving, Beside!Leaving
  <1>4. CASE Unsupported
    <2>1. Beside!Unsupported
      BY <1>1, <1>4
      DEF Unsupported, Beside!Unsupported, Supported, Beside!Supported,
          kMovesPerSymbol, Beside!kMovesPerSymbol, walkVars, Beside!walkVars,
          absorbVars, Beside!absorbVars
    <2>. QED  BY <2>1 DEF Beside!Next
  <1>5. CASE FreeMove \/ SystematicMove
    BY <1>5 DEF Beside!Next
  <1>6. CASE Frame
    <2>1. Beside!Frame
      BY <1>2, <1>6 DEF Frame, Beside!Frame
    <2>. QED  BY <2>1 DEF Beside!Next
  <1>7. CASE EndFrame
    <2>1. Beside!EndFrame
      BY <1>3, <1>7 DEF EndFrame, Beside!EndFrame
    <2>. QED  BY <2>1 DEF Beside!Next
  <1>8. CASE DiagonalClosure
    <2>1. Beside!DiagonalClosure
      BY <1>2, <1>8 DEF DiagonalClosure, Beside!DiagonalClosure
    <2>. QED  BY <2>1 DEF Beside!Next
  <1>9. CASE EndDiagonalClosure
    <2>1. Beside!EndDiagonalClosure
      BY <1>3, <1>9 DEF EndDiagonalClosure, Beside!EndDiagonalClosure
    <2>. QED  BY <2>1 DEF Beside!Next
  <1>10. CASE OrbitClosure
    <2>1. Beside!OrbitClosure
      BY <1>2, <1>10 DEF OrbitClosure, Beside!OrbitClosure
    <2>. QED  BY <2>1 DEF Beside!Next
  <1>11. CASE EndOrbitClosure
    <2>1. Beside!EndOrbitClosure
      BY <1>3, <1>11 DEF EndOrbitClosure, Beside!EndOrbitClosure
    <2>. QED  BY <2>1 DEF Beside!Next
  <1>12. CASE SqueezeByte
    <2>1. Beside!SqueezeByte
      BY <1>12
      DEF SqueezeByte, Beside!SqueezeByte, walkVars, Beside!walkVars,
          absorbVars, Beside!absorbVars
    <2>. QED  BY <2>1 DEF Beside!Next
  <1>13. CASE Feed
    <2>1. Beside!Feed
      BY <1>2, <1>13 DEF Feed, Beside!Feed
    <2>. QED  BY <2>1 DEF Beside!Next
  <1>14. CASE EndFeed
    <2>1. Beside!EndFeed
      BY <1>3, <1>14 DEF EndFeed, Beside!EndFeed
    <2>. QED  BY <2>1 DEF Beside!Next
  <1>15. CASE Finish
    <2>1. Beside!Finish
      BY <1>15 DEF Finish, Beside!Finish
    <2>. QED  BY <2>1 DEF Beside!Next
  <1>16. CASE Stay
    <2>1. Beside!Stay
      BY <1>16
      DEF Stay, Beside!Stay, Terminated, Beside!Terminated, vars, Beside!vars,
          walkVars, Beside!walkVars, absorbVars, Beside!absorbVars
    <2>. QED  BY <2>1 DEF Beside!Next
  <1>17. ~Reject /\ ~Begin /\ ~Forward /\ ~EndForward /\ ~Foldback /\ ~EndFoldback
    BY DEF Reject, Begin, Forward, EndForward, Foldback, EndFoldback, Looping,
           Leaving, LatePhases
  <1>. QED
    BY <1>4, <1>5, <1>6, <1>7, <1>8, <1>9, <1>10, <1>11, <1>12, <1>13, <1>14,
       <1>15, <1>16, <1>17 DEF Next

(* Behind the foldback every step of the computation is also a step of the *)
(* computation of any other message of the same length, for every such     *)
(* message: compute() uses there the bytes by their number alone, as       *)
(* research.hpp:99 says of two equal snapshots.                            *)
THEOREM FinalizationIsBlind == Spec => FinalizationBlind
  <1>1. IInv /\ [Next]_vars => [FinalizationStep]_vars
    <2>. SUFFICES ASSUME IInv, Next, pc \in LatePhases
                  PROVE  Beside!Next
      BY DEF FinalizationStep
    <2>1. bytes \in Seq(Byte)
      BY CallFacts DEF IInv, TypeOK
    <2>2. Len(Sibling) = Len(bytes)
      BY <2>1, LengthBeside
    <2>. QED
      BY <2>2, LateStepsBeside
  <1>. QED
    BY <1>1, InvariantHolds, PTL DEF Spec, FinalizationBlind

-----------------------------------------------------------------------------
(* The research API: a symbol absorbed by a call and by compute().         *)

(* The control byte and the working state behind n moves of a symbol.      *)
InjectedBy(w, s) ==
  InjAmounts(s, ContextDigits(w.symbol_index, w.cursor, w.previous_axis, w.cube[w.cursor]))

IsLoop(f, w, s, p, n) ==
  /\ f[0] = [at |-> w, control |-> FirstControl(w, s, p)]
  /\ \A m \in 1..n : f[m] = MoveOn(f[m - 1], s, m - 1, InjectedBy(w, s), p)

LEMMA LoopExists ==
  ASSUME NEW w, NEW s, NEW p, NEW n \in Nat
  PROVE  \E f : f = [m \in 0..n |-> f[m]] /\ IsLoop(f, w, s, p, n)
  <1>. DEFINE first == [at |-> w, control |-> FirstControl(w, s, p)]
              on(x, m) == MoveOn(x, s, m - 1, InjectedBy(w, s), p)
              Has(m, f) == f = [x \in 0..m |-> f[x]] /\ f[0] = first
                           /\ \A x \in 1..m : f[x] = on(f[x - 1], x)
              T == {m \in Nat : \E f : Has(m, f)}
  <1>. HIDE DEF on, first
  <1>1. 0 \in T
    <2>1. Has(0, [x \in 0..0 |-> first])
      OBVIOUS
    <2>. QED
      BY <2>1
  <1>2. ASSUME NEW m \in Nat \ {0}, m - 1 \in T PROVE m \in T
    <2>1. PICK f : Has(m - 1, f)
      BY <1>2
    <2>. DEFINE g == [x \in 0..m |-> IF x = m THEN on(f[m - 1], m) ELSE f[x]]
    <2>2. g = [x \in 0..m |-> g[x]] /\ g[0] = first
      BY <2>1
    <2>3. ASSUME NEW x \in 1..m PROVE g[x] = on(g[x - 1], x)
      <3>1. g[x - 1] = f[x - 1]
        OBVIOUS
      <3>2. CASE x = m
        BY <3>1, <3>2
      <3>3. CASE x # m
        <4>1. x \in 1..(m - 1) /\ g[x] = f[x]
          BY <3>3
        <4>. QED
          BY <2>1, <3>1, <4>1
      <3>. QED
        BY <3>2, <3>3
    <2>4. Has(m, g)
      <3>. HIDE DEF g
      <3>. QED
        BY <2>2, <2>3
    <2>. QED
      BY <2>4
  <1>3. n \in T
    <2>. HIDE DEF T
    <2>. QED
      BY <1>1, <1>2, InductionOnNat
  <1>. QED
    BY <1>3 DEF IsLoop, first, on


(* Two such loops agree as far as both go.                                 *)
LEMMA LoopIsUnique ==
  ASSUME NEW w, NEW s, NEW p, NEW n \in Nat, NEW f, NEW g,
         IsLoop(f, w, s, p, n), IsLoop(g, w, s, p, n)
  PROVE  \A m \in 0..n : f[m] = g[m]
  <1>1. /\ f[0] = g[0]
        /\ \A m \in 1..n : f[m - 1] = g[m - 1] => f[m] = g[m]
    BY DEF IsLoop
  <1>. QED
    BY <1>1, RecursionIsUnique

StageAfter(w, s, p, n) == (CHOOSE f : IsLoop(f, w, s, p, n))[n]

LEMMA StageOfLoop ==
  ASSUME NEW w, NEW s, NEW p, NEW n \in Nat, NEW f, IsLoop(f, w, s, p, n), NEW m \in 0..n
  PROVE  f[m] = StageAfter(w, s, p, m)
  <1>. DEFINE g == CHOOSE h : IsLoop(h, w, s, p, m)
  <1>1. IsLoop(f, w, s, p, m)
    <2>1. \A x \in 1..m : x \in 1..n
      OBVIOUS
    <2>. QED
      BY <2>1 DEF IsLoop
  <1>2. IsLoop(g, w, s, p, m)
    BY <1>1
  <1>3. m \in Nat /\ m \in 0..m
    OBVIOUS
  <1>4. g[m] = StageAfter(w, s, p, m)
    BY DEF StageAfter
  <1>. HIDE DEF g
  <1>5. \A x \in 0..m : f[x] = g[x]
    BY <1>1, <1>2, <1>3, LoopIsUnique
  <1>. QED
    BY <1>3, <1>4, <1>5

LEMMA StageStarts ==
  \A w, s, p : StageAfter(w, s, p, 0) = [at |-> w, control |-> FirstControl(w, s, p)]
  <1>. SUFFICES ASSUME NEW w, NEW s, NEW p
                PROVE  StageAfter(w, s, p, 0) = [at |-> w, control |-> FirstControl(w, s, p)]
    OBVIOUS
  <1>1. PICK f : IsLoop(f, w, s, p, 0)
    BY LoopExists
  <1>2. f[0] = StageAfter(w, s, p, 0)
    BY <1>1, StageOfLoop
  <1>. QED
    BY <1>1, <1>2 DEF IsLoop

LEMMA StageGoesOn ==
  ASSUME NEW w, NEW s, NEW p, NEW n \in Nat
  PROVE  StageAfter(w, s, p, n + 1) = MoveOn(StageAfter(w, s, p, n), s, n, InjectedBy(w, s), p)
  <1>1. n + 1 \in Nat /\ n \in 0..(n + 1) /\ n + 1 \in 0..(n + 1) /\ n + 1 \in 1..(n + 1)
        /\ (n + 1) - 1 = n
    OBVIOUS
  <1>2. PICK f : IsLoop(f, w, s, p, n + 1)
    BY <1>1, LoopExists
  <1>3. f[n + 1] = StageAfter(w, s, p, n + 1) /\ f[n] = StageAfter(w, s, p, n)
    BY <1>1, <1>2, StageOfLoop
  <1>4. f[n + 1] = MoveOn(f[n], s, n, InjectedBy(w, s), p)
    BY <1>1, <1>2 DEF IsLoop
  <1>. QED
    BY <1>3, <1>4

LEMMA StageEnds ==
  ASSUME NEW w, NEW s, NEW p, p.moves_per_symbol \in Nat
  PROVE  AbsorbSymbol(w, s, p)
           = [StageAfter(w, s, p, p.moves_per_symbol).at EXCEPT !.symbol_index = @ + 1]
  <1>. DEFINE last == p.moves_per_symbol
              injected == InjAmounts(s, ContextDigits(w.symbol_index, w.cursor, w.previous_axis,
                                                      w.cube[w.cursor]))
              body(h) == [n \in 0..p.moves_per_symbol |->
                            IF n = 0 THEN [at |-> w, control |-> FirstControl(w, s, p)]
                            ELSE MoveOn(h[n - 1], s, n - 1, injected, p)]
              loop == CHOOSE h : h = body(h)
  <1>1. AbsorbSymbol(w, s, p) = [loop[last].at EXCEPT !.symbol_index = @ + 1]
    BY DEF AbsorbSymbol
  <1>2. injected = InjectedBy(w, s)
    BY DEF InjectedBy
  <1>3. PICK f : f = [m \in 0..last |-> f[m]] /\ IsLoop(f, w, s, p, last)
    BY LoopExists
  <1>. HIDE DEF injected
  <1>4. f = body(f)
    <2>1. \A m \in 0..last : m # 0 => m \in 1..last
      OBVIOUS
    <2>2. \A m \in 0..last : f[m] = IF m = 0 THEN [at |-> w, control |-> FirstControl(w, s, p)]
                                    ELSE MoveOn(f[m - 1], s, m - 1, injected, p)
      BY <1>2, <1>3, <2>1 DEF IsLoop
    <2>. QED
      BY <1>3, <2>2
  <1>5. loop = body(loop)
    BY <1>4
  <1>. HIDE DEF loop
  <1>6. IsLoop(loop, w, s, p, last)
    <2>1. \A m \in 0..last : loop[m] = IF m = 0 THEN [at |-> w, control |-> FirstControl(w, s, p)]
                                       ELSE MoveOn(loop[m - 1], s, m - 1, injected, p)
      BY <1>5
    <2>2. 0 \in 0..last /\ \A m \in 1..last : m \in 0..last /\ m # 0
      OBVIOUS
    <2>. HIDE DEF last
    <2>. QED
      BY <1>2, <2>1, <2>2 DEF IsLoop
  <1>7. loop[last] = StageAfter(w, s, p, last)
    BY <1>6, StageOfLoop
  <1>. QED
    BY <1>1, <1>7


-----------------------------------------------------------------------------
(* Absorbing symbols one after the other.                                  *)

IsChain(f, w, symbols, p, n) ==
  f[0] = w /\ \A m \in 1..n : f[m] = AbsorbSymbol(f[m - 1], symbols[m], p)

LEMMA ChainExists ==
  ASSUME NEW w, NEW symbols, NEW p, NEW n \in Nat
  PROVE  \E f : f = [m \in 0..n |-> f[m]] /\ IsChain(f, w, symbols, p, n)
  <1>. DEFINE on(x, m) == AbsorbSymbol(x, symbols[m], p)
              Has(m, f) == f = [x \in 0..m |-> f[x]] /\ f[0] = w
                           /\ \A x \in 1..m : f[x] = on(f[x - 1], x)
              T == {m \in Nat : \E f : Has(m, f)}
  <1>. HIDE DEF on
  <1>1. 0 \in T
    <2>1. Has(0, [x \in 0..0 |-> w])
      OBVIOUS
    <2>. QED
      BY <2>1
  <1>2. ASSUME NEW m \in Nat \ {0}, m - 1 \in T PROVE m \in T
    <2>1. PICK f : Has(m - 1, f)
      BY <1>2
    <2>. DEFINE g == [x \in 0..m |-> IF x = m THEN on(f[m - 1], m) ELSE f[x]]
    <2>2. g = [x \in 0..m |-> g[x]] /\ g[0] = w
      BY <2>1
    <2>3. ASSUME NEW x \in 1..m PROVE g[x] = on(g[x - 1], x)
      <3>1. g[x - 1] = f[x - 1]
        OBVIOUS
      <3>2. CASE x = m
        BY <3>1, <3>2
      <3>3. CASE x # m
        <4>1. x \in 1..(m - 1) /\ g[x] = f[x]
          BY <3>3
        <4>. QED
          BY <2>1, <3>1, <4>1
      <3>. QED
        BY <3>2, <3>3
    <2>4. Has(m, g)
      <3>. HIDE DEF g
      <3>. QED
        BY <2>2, <2>3
    <2>. QED
      BY <2>4
  <1>3. n \in T
    <2>. HIDE DEF T
    <2>. QED
      BY <1>1, <1>2, InductionOnNat
  <1>. QED
    BY <1>3 DEF IsChain, on

LEMMA AbsorbAllEnds ==
  ASSUME NEW w, NEW symbols, NEW p, NEW f, Len(symbols) \in Nat,
         IsChain(f, w, symbols, p, Len(symbols))
  PROVE  AbsorbAll(w, symbols, p) = f[Len(symbols)]
  <1>. DEFINE last == Len(symbols)
              body(h) == [n \in 0..Len(symbols) |->
                            IF n = 0 THEN w ELSE AbsorbSymbol(h[n - 1], symbols[n], p)]
              behind == CHOOSE h : h = body(h)
  <1>1. AbsorbAll(w, symbols, p) = behind[last]
    BY DEF AbsorbAll
  <1>2. PICK g : g = [m \in 0..last |-> g[m]] /\ IsChain(g, w, symbols, p, last)
    BY ChainExists
  <1>3. g = body(g)
    <2>1. \A m \in 0..last : m # 0 => m \in 1..last
      OBVIOUS
    <2>2. \A m \in 0..last : g[m] = IF m = 0 THEN w ELSE AbsorbSymbol(g[m - 1], symbols[m], p)
      BY <1>2, <2>1 DEF IsChain
    <2>. QED
      BY <1>2, <2>2
  <1>4. behind = body(behind)
    BY <1>3
  <1>. HIDE DEF behind
  <1>5. /\ behind[0] = f[0]
        /\ \A m \in 1..last : behind[m - 1] = f[m - 1] => behind[m] = f[m]
    <2>1. \A m \in 0..last : behind[m] = IF m = 0 THEN w
                                         ELSE AbsorbSymbol(behind[m - 1], symbols[m], p)
      BY <1>4
    <2>2. 0 \in 0..last /\ \A m \in 1..last : m \in 0..last /\ m # 0
      OBVIOUS
    <2>. HIDE DEF last
    <2>. QED
      BY <2>1, <2>2 DEF IsChain, last
  <1>6. \A m \in 0..last : behind[m] = f[m]
    BY <1>5, RecursionIsUnique
  <1>. QED
    BY <1>1, <1>6

LEMMA NoSymbols == \A w, p : AbsorbAll(w, <<>>, p) = w
  <1>. SUFFICES ASSUME NEW w, NEW p PROVE AbsorbAll(w, <<>>, p) = w
    OBVIOUS
  <1>1. Len(<<>>) = 0
    OBVIOUS
  <1>2. IsChain([m \in 0..0 |-> w], w, <<>>, p, 0)
    BY DEF IsChain
  <1>. QED
    BY <1>1, <1>2, AbsorbAllEnds

LEMMA OneMoreSymbol ==
  ASSUME NEW S, NEW symbols \in Seq(S), NEW s \in S, NEW w, NEW p
  PROVE  AbsorbAll(w, Append(symbols, s), p) = AbsorbSymbol(AbsorbAll(w, symbols, p), s, p)
  <1>. DEFINE last == Len(symbols)
              more == Append(symbols, s)
  <1>1. /\ last \in Nat /\ last + 1 \in Nat /\ Len(more) = last + 1 /\ more[last + 1] = s
        /\ \A m \in 1..last : more[m] = symbols[m]
    OBVIOUS
  <1>. HIDE DEF more, last
  <1>2. PICK f : IsChain(f, w, more, p, last + 1)
    BY <1>1, ChainExists
  <1>3. IsChain(f, w, symbols, p, last)
    <2>1. \A m \in 1..last : m \in 1..(last + 1)
      BY <1>1
    <2>. QED
      BY <1>1, <1>2, <2>1 DEF IsChain
  <1>4. AbsorbAll(w, symbols, p) = f[last]
    BY <1>1, <1>3, AbsorbAllEnds DEF last
  <1>5. AbsorbAll(w, more, p) = f[last + 1]
    BY <1>1, <1>2, AbsorbAllEnds
  <1>6. f[last + 1] = AbsorbSymbol(f[last], s, p)
    <2>1. last + 1 \in 1..(last + 1) /\ (last + 1) - 1 = last
      BY <1>1
    <2>. QED
      BY <1>1, <1>2, <2>1 DEF IsChain
  <1>. QED
    BY <1>4, <1>5, <1>6 DEF more

(* Absorbing goes on where it stopped.                                     *)
LEMMA MoreSymbols ==
  ASSUME NEW S, NEW front \in Seq(S), NEW back \in Seq(S), NEW w, NEW p
  PROVE  AbsorbAll(w, front \o back, p) = AbsorbAll(AbsorbAll(w, front, p), back, p)
  <1>. DEFINE Holds(b) == AbsorbAll(w, front \o b, p) = AbsorbAll(AbsorbAll(w, front, p), b, p)
              T == {n \in Nat : \A b \in Seq(S) : Len(b) = n => Holds(b)}
  <1>1. 0 \in T
    <2>. SUFFICES ASSUME NEW b \in Seq(S), Len(b) = 0 PROVE Holds(b)
      OBVIOUS
    <2>1. b = <<>>
      BY EmptySeq
    <2>2. front \o <<>> = front
      OBVIOUS
    <2>. QED
      BY <2>1, <2>2, NoSymbols
  <1>2. ASSUME NEW n \in Nat, n \in T PROVE n + 1 \in T
    <2>. SUFFICES ASSUME NEW b \in Seq(S), Len(b) = n + 1 PROVE Holds(b)
      OBVIOUS
    <2>. DEFINE c == SubSeq(b, 1, n)
                x == b[n + 1]
    <2>1. c \in Seq(S) /\ Len(c) = n /\ x \in S /\ b = Append(c, x)
      OBVIOUS
    <2>. HIDE DEF c, x, Holds
    <2>2. Holds(c)
      BY <1>2, <2>1
    <2>4. front \o Append(c, x) = Append(front \o c, x) /\ front \o c \in Seq(S)
      BY <2>1, AppendToJoined
    <2>8. \A v : \A ss \in Seq(S) : AbsorbAll(v, Append(ss, x), p) = AbsorbSymbol(AbsorbAll(v, ss, p), x, p)
      BY <2>1, OneMoreSymbol
    <2>5. AbsorbAll(w, front \o b, p) = AbsorbSymbol(AbsorbAll(w, front \o c, p), x, p)
      BY <2>1, <2>4, <2>8
    <2>6. AbsorbAll(AbsorbAll(w, front, p), b, p)
            = AbsorbSymbol(AbsorbAll(AbsorbAll(w, front, p), c, p), x, p)
      BY <2>1, <2>8
    <2>. QED
      BY <2>2, <2>5, <2>6 DEF Holds
  <1>3. Len(back) \in Nat
    OBVIOUS
  <1>. HIDE DEF Holds
  <1>4. Len(back) \in T
    <2>. HIDE DEF T
    <2>. QED
      BY <1>1, <1>2, <1>3, InductionOnNat
  <1>5. Holds(back)
    BY <1>4
  <1>. QED
    BY <1>5 DEF Holds


-----------------------------------------------------------------------------
(* What calls do to snapshots, whatever trace they are given: a symbol, n  *)
(* moves of a symbol, symbols.                                             *)

Snapshots == [cube : Cubes, cursor : Coord, previous_axis : Axes, symbol_index : Nat]
Traces == Seq(MoveRecords)

AbsorbsTo(from, s, p, to, moves) ==
  \A t \in Traces :
    AbsorbSymbol(WorkingStateFrom(from, t), s, p) = WorkingStateFrom(to, t \o moves)

HalfwayTo(from, s, p, n, to, moves, control_byte) ==
  \A t \in Traces :
    StageAfter(WorkingStateFrom(from, t), s, p, n)
      = [at |-> WorkingStateFrom(to, t \o moves), control |-> control_byte]

Reaches(from, symbols, p, to, moves) ==
  \A t \in Traces :
    AbsorbAll(WorkingStateFrom(from, t), symbols, p) = WorkingStateFrom(to, t \o moves)

(* Snapshots do not hold the trace.                                        *)
FirstControlFrom(from, s, p) ==
  IF p.systematic_absorb THEN SystematicControl(s, from.symbol_index, from.cursor)
                         ELSE FreeControl(s, from.symbol_index, from.cursor)
InjectedFrom(from, s) ==
  InjAmounts(s, ContextDigits(from.symbol_index, from.cursor, from.previous_axis,
                              from.cube[from.cursor]))

LEMMA TraceIsNotRead ==
  \A from, t, s, p :
    /\ FirstControl(WorkingStateFrom(from, t), s, p) = FirstControlFrom(from, s, p)
    /\ InjectedBy(WorkingStateFrom(from, t), s) = InjectedFrom(from, s)
  BY DEF FirstControl, FirstControlFrom, InjectedBy, InjectedFrom, WorkingStateFrom

LEMMA HalfwayStarts ==
  ASSUME NEW from, NEW s, NEW p
  PROVE  HalfwayTo(from, s, p, 0, from, <<>>, FirstControlFrom(from, s, p))
  <1>. SUFFICES ASSUME NEW t \in Traces
                PROVE  StageAfter(WorkingStateFrom(from, t), s, p, 0)
                         = [at |-> WorkingStateFrom(from, t \o <<>>),
                            control |-> FirstControlFrom(from, s, p)]
    BY DEF HalfwayTo
  <1>1. t \o <<>> = t
    BY DEF Traces
  <1>. QED
    BY <1>1, StageStarts, TraceIsNotRead

(* The next move of a symbol, number n.                                    *)
TurnsTo(at, control_byte, s, n, injected, p, to, move, next_control) ==
  \A t \in Traces :
    MoveOn([at |-> WorkingStateFrom(at, t), control |-> control_byte], s, n, injected, p)
      = [at |-> WorkingStateFrom(to, Append(t, move)), control |-> next_control]

LEMMA HalfwayGoesOn ==
  ASSUME NEW from, NEW s, NEW p, NEW n \in Nat, NEW at, NEW moves \in Traces, NEW control_byte,
         HalfwayTo(from, s, p, n, at, moves, control_byte),
         NEW to, NEW move \in MoveRecords, NEW next_control,
         TurnsTo(at, control_byte, s, n, InjectedFrom(from, s), p, to, move, next_control)
  PROVE  HalfwayTo(from, s, p, n + 1, to, Append(moves, move), next_control)
  <1>. SUFFICES ASSUME NEW t \in Traces
                PROVE  StageAfter(WorkingStateFrom(from, t), s, p, n + 1)
                         = [at |-> WorkingStateFrom(to, t \o Append(moves, move)),
                            control |-> next_control]
    BY DEF HalfwayTo
  <1>1. t \o Append(moves, move) = Append(t \o moves, move) /\ t \o moves \in Traces
    BY AppendToJoined DEF Traces
  <1>2. StageAfter(WorkingStateFrom(from, t), s, p, n)
          = [at |-> WorkingStateFrom(at, t \o moves), control |-> control_byte]
    BY DEF HalfwayTo
  <1>3. InjectedBy(WorkingStateFrom(from, t), s) = InjectedFrom(from, s)
    BY TraceIsNotRead
  <1>4. StageAfter(WorkingStateFrom(from, t), s, p, n + 1)
          = MoveOn(StageAfter(WorkingStateFrom(from, t), s, p, n), s, n,
                   InjectedBy(WorkingStateFrom(from, t), s), p)
    BY StageGoesOn
  <1>5. MoveOn([at |-> WorkingStateFrom(at, t \o moves), control |-> control_byte],
               s, n, InjectedFrom(from, s), p)
          = [at |-> WorkingStateFrom(to, Append(t \o moves, move)), control |-> next_control]
    BY <1>1 DEF TurnsTo
  <1>. QED
    BY <1>1, <1>2, <1>3, <1>4, <1>5

LEMMA HalfwayEnds ==
  ASSUME NEW from, NEW s, NEW p, p.moves_per_symbol \in Nat, NEW at, NEW moves, NEW control_byte,
         HalfwayTo(from, s, p, p.moves_per_symbol, at, moves, control_byte),
         NEW to, to = [cube |-> at.cube, cursor |-> at.cursor,
                       previous_axis |-> at.previous_axis, symbol_index |-> at.symbol_index + 1]
  PROVE  AbsorbsTo(from, s, p, to, moves)
  <1>. SUFFICES ASSUME NEW t \in Traces
                PROVE  AbsorbSymbol(WorkingStateFrom(from, t), s, p)
                         = WorkingStateFrom(to, t \o moves)
    BY DEF AbsorbsTo
  <1>1. AbsorbSymbol(WorkingStateFrom(from, t), s, p)
          = [WorkingStateFrom(at, t \o moves) EXCEPT !.symbol_index = @ + 1]
    <2>1. StageAfter(WorkingStateFrom(from, t), s, p, p.moves_per_symbol).at
            = WorkingStateFrom(at, t \o moves)
      <3>1. StageAfter(WorkingStateFrom(from, t), s, p, p.moves_per_symbol)
              = [at |-> WorkingStateFrom(at, t \o moves), control |-> control_byte]
        BY DEF HalfwayTo
      <3>. QED
        BY <3>1
    <2>. QED
      BY <2>1, StageEnds
  <1>2. [WorkingStateFrom(at, t \o moves) EXCEPT !.symbol_index = @ + 1]
          = WorkingStateFrom(to, t \o moves)
    <2>. DEFINE Working(c, q, a, x, u) == [cube |-> c, cursor |-> q, previous_axis |-> a,
                                           symbol_index |-> x, trace |-> u]
                Absorbed(w) == [w EXCEPT !.symbol_index = @ + 1]
    <2>1. \A c, q, a, x, u : Absorbed(Working(c, q, a, x, u)) = Working(c, q, a, x + 1, u)
      OBVIOUS
    <2>2. to.cube = at.cube /\ to.cursor = at.cursor /\ to.previous_axis = at.previous_axis
          /\ to.symbol_index = at.symbol_index + 1
      OBVIOUS
    <2>3. WorkingStateFrom(to, t \o moves)
            = Working(at.cube, at.cursor, at.previous_axis, at.symbol_index + 1, t \o moves)
      BY <2>2, Zenon DEF WorkingStateFrom
    <2>4. WorkingStateFrom(at, t \o moves)
            = Working(at.cube, at.cursor, at.previous_axis, at.symbol_index, t \o moves)
      BY Zenon DEF WorkingStateFrom
    <2>5. Absorbed(WorkingStateFrom(at, t \o moves)) = WorkingStateFrom(to, t \o moves)
      <3>. HIDE DEF Working, Absorbed
      <3>. QED
        BY <2>1, <2>3, <2>4
    <2>. QED
      BY <2>5
  <1>. QED
    BY <1>1, <1>2

LEMMA NothingReached == \A from, p : Reaches(from, <<>>, p, from, <<>>)
  <1>. SUFFICES ASSUME NEW from, NEW p, NEW t \in Traces
                PROVE  AbsorbAll(WorkingStateFrom(from, t), <<>>, p)
                         = WorkingStateFrom(from, t \o <<>>)
    BY DEF Reaches
  <1>1. t \o <<>> = t
    BY DEF Traces
  <1>. QED
    BY <1>1, NoSymbols

LEMMA ReachesOneMore ==
  ASSUME NEW symbols \in Seq(Byte), NEW s \in Byte, NEW p, NEW from, NEW over, NEW to,
         NEW front \in Traces, NEW back \in Traces,
         Reaches(from, symbols, p, over, front), AbsorbsTo(over, s, p, to, back)
  PROVE  Reaches(from, Append(symbols, s), p, to, front \o back)
  <1>. SUFFICES ASSUME NEW t \in Traces
                PROVE  AbsorbAll(WorkingStateFrom(from, t), Append(symbols, s), p)
                         = WorkingStateFrom(to, t \o (front \o back))
    BY DEF Reaches
  <1>1. t \o (front \o back) = (t \o front) \o back /\ t \o front \in Traces
    BY ConcatAssociative, ConcatProperties, SMTT(30) DEF Traces
  <1>2. AbsorbAll(WorkingStateFrom(from, t), Append(symbols, s), p)
          = AbsorbSymbol(AbsorbAll(WorkingStateFrom(from, t), symbols, p), s, p)
    BY OneMoreSymbol
  <1>3. AbsorbAll(WorkingStateFrom(from, t), symbols, p) = WorkingStateFrom(over, t \o front)
    BY DEF Reaches
  <1>4. AbsorbSymbol(WorkingStateFrom(over, t \o front), s, p)
          = WorkingStateFrom(to, (t \o front) \o back)
    BY <1>1 DEF AbsorbsTo
  <1>. QED
    BY <1>1, <1>2, <1>3, <1>4

LEMMA ReachesMore ==
  ASSUME NEW first \in Seq(Byte), NEW then \in Seq(Byte), NEW p, NEW from, NEW over, NEW to,
         NEW front \in Traces, NEW back \in Traces,
         Reaches(from, first, p, over, front), Reaches(over, then, p, to, back)
  PROVE  Reaches(from, first \o then, p, to, front \o back)
  <1>. SUFFICES ASSUME NEW t \in Traces
                PROVE  AbsorbAll(WorkingStateFrom(from, t), first \o then, p)
                         = WorkingStateFrom(to, t \o (front \o back))
    BY DEF Reaches
  <1>1. t \o (front \o back) = (t \o front) \o back /\ t \o front \in Traces
    BY ConcatAssociative, ConcatProperties, SMTT(30) DEF Traces
  <1>2. AbsorbAll(WorkingStateFrom(from, t), first \o then, p)
          = AbsorbAll(AbsorbAll(WorkingStateFrom(from, t), first, p), then, p)
    BY MoreSymbols
  <1>3. AbsorbAll(WorkingStateFrom(from, t), first, p) = WorkingStateFrom(over, t \o front)
    BY DEF Reaches
  <1>4. AbsorbAll(WorkingStateFrom(over, t \o front), then, p)
          = WorkingStateFrom(to, (t \o front) \o back)
    BY <1>1 DEF Reaches
  <1>. QED
    BY <1>1, <1>2, <1>3, <1>4


-----------------------------------------------------------------------------
(* A move of compute() is a move of the calls.                             *)

LEMMA OneMove ==
  ASSUME NEW w, NEW control_byte, NEW s, NEW n, NEW injected, NEW p, NEW axis, NEW amount,
         axis = AxisOfMove(w, s, control_byte, n, p),
         amount = AmountOfMove(w, s, control_byte, n, axis, injected, p)
  PROVE  MoveOn([at |-> w, control |-> control_byte], s, n, injected, p)
           = [at |-> Moved(w, s, n, axis, amount),
              control |-> NextControl(s, control_byte, n, axis, amount,
                            Moved(w, s, n, axis, amount).cube[Moved(w, s, n, axis, amount).cursor],
                            Moved(w, s, n, axis, amount).cursor, p)]
  BY DEF MoveOn, Steered, Turned, Controlled

(* The snapshot of a state in the middle of a symbol: the symbol counts    *)
(* when it has been absorbed.                                              *)
Standing(x) ==
  [cube |-> cube, cursor |-> cursor, previous_axis |-> previous_axis, symbol_index |-> x]

RecordOf(axis, amount) ==
  [axis |-> axis, before |-> cursor, after |-> Advance(cursor, axis, amount),
   amount |-> amount, symbol |-> symbol, phase |-> phase, symbol_index |-> symbol_index]

(* What MoveOn makes of the present state and a trace when it turns axis   *)
(* by amount.                                                              *)
LEMMA MoveFromHere ==
  ASSUME IInv, absorbing, NEW axis \in Axes \ {previous_axis}, NEW amount \in 1..7,
         Move(axis, amount), NEW injected, NEW t,
         axis = AxisOfMove(WorkingStateFrom(Snapshot, t), symbol, control, phase, parameters),
         amount = AmountOfMove(WorkingStateFrom(Snapshot, t), symbol, control, phase, axis,
                               injected, parameters),
         control' = NextControl(symbol, control, phase, axis, amount, cube'[cursor'], cursor',
                                parameters),
         NEW x, x = symbol_index
  PROVE  MoveOn([at |-> WorkingStateFrom(Snapshot, t), control |-> control],
                symbol, phase, injected, parameters)
           = [at |-> WorkingStateFrom(Standing(x)', Append(t, RecordOf(axis, amount))),
              control |-> control']
  <1>. DEFINE w == WorkingStateFrom(Snapshot, t)
              moved == Moved(w, symbol, phase, axis, amount)
  <1>1. w = [cube |-> cube, cursor |-> cursor, previous_axis |-> previous_axis,
             symbol_index |-> symbol_index, trace |-> t]
    BY DEF WorkingStateFrom, Snapshot
  <1>2. /\ cube' = RotateLine(cube, axis, cursor, amount)
        /\ cursor' = Advance(cursor, axis, amount)
        /\ previous_axis' = axis
    BY DEF Move
  <1>3. moved = [cube |-> cube', cursor |-> cursor', previous_axis |-> previous_axis',
                 symbol_index |-> symbol_index, trace |-> Append(t, RecordOf(axis, amount))]
    BY <1>1, <1>2 DEF Moved, RecordOf
  <1>4. moved = WorkingStateFrom(Standing(x)', Append(t, RecordOf(axis, amount)))
    BY <1>3 DEF WorkingStateFrom, Standing
  <1>5. moved.cube = cube' /\ moved.cursor = cursor'
    BY <1>3
  <1>6. MoveOn([at |-> w, control |-> control], symbol, phase, injected, parameters)
          = [at |-> moved,
             control |-> NextControl(symbol, control, phase, axis, amount,
                                     moved.cube[moved.cursor], moved.cursor, parameters)]
    <2>. HIDE DEF w
    <2>. QED
      BY OneMove DEF w
  <1>. HIDE DEF w, moved
  <1>7. MoveOn([at |-> w, control |-> control], symbol, phase, injected, parameters)
          = [at |-> moved, control |-> control']
    BY <1>5, <1>6
  <1>. QED
    BY <1>4, <1>7 DEF w

(* What one step of compute() within a symbol adds, seen from the calls.   *)
GoesOnBy(move, x) ==
  /\ trace' = IF keep.trace THEN Append(trace, move) ELSE trace
  /\ \A injected, t :
       (parameters.systematic_absorb => injected = amounts) =>
         MoveOn([at |-> WorkingStateFrom(Snapshot, t), control |-> control],
                symbol, phase, injected, parameters)
           = [at |-> WorkingStateFrom(Standing(x)', Append(t, move)), control |-> control']

LEMMA FreeMoveOfCalls ==
  ASSUME IInv, FreeMove, NEW x, x = symbol_index
  PROVE  \E move \in MoveRecords : GoesOnBy(move, x)
  <1>. DEFINE geometry == Geometry(cursor, phase, symbol_index)
              axis == FreeAxis(control, phase, Probe, geometry, previous_axis)
              amount == FreeAmount(symbol, control, Probe, geometry, axis)
  <1>1. /\ absorbing /\ ~parameters.systematic_absorb
        /\ Move(axis, amount)
        /\ control' = FreeNextControl(control, phase, axis, amount, cube'[cursor'], cursor')
    BY DEF FreeMove
  <1>2. geometry \in Byte /\ Probe \in Byte /\ symbol \in Byte /\ control \in Byte
        /\ phase \in Nat /\ symbol_index \in Nat /\ cursor \in Coord /\ previous_axis \in Axes
    BY <1>1, AbsorbingFacts
  <1>3. axis \in Axes \ {previous_axis}
    <2>. HIDE DEF geometry
    <2>. QED
      BY <1>2, SideIs8, FreeControllerType
  <1>4. amount \in 1..7
    <2>. HIDE DEF geometry, axis
    <2>. QED
      BY <1>2, <1>3, SideIs8, FreeControllerType
  <1>5. \A t, injected :
          /\ axis = AxisOfMove(WorkingStateFrom(Snapshot, t), symbol, control, phase, parameters)
          /\ amount = AmountOfMove(WorkingStateFrom(Snapshot, t), symbol, control, phase, axis,
                                   injected, parameters)
    BY <1>1 DEF AxisOfMove, AmountOfMove, WorkingStateFrom, Snapshot, Probe
  <1>. HIDE DEF geometry, axis, amount
  <1>6. control' = NextControl(symbol, control, phase, axis, amount, cube'[cursor'], cursor',
                               parameters)
    BY <1>1 DEF NextControl
  <1>7. cursor' = Advance(cursor, axis, amount) /\ cursor' \in Coord
    BY <1>1, <1>3, <1>4, MoveIsTurn DEF Move, WalkTypeOK
  <1>8. RecordOf(axis, amount) \in MoveRecords
    <2>1. 1..7 = 1..(Side - 1)
      BY SideIs8
    <2>. QED
      BY <1>2, <1>3, <1>4, <1>7, <2>1 DEF RecordOf, MoveRecords
  <1>9. trace' = IF keep.trace THEN Append(trace, RecordOf(axis, amount)) ELSE trace
    BY <1>1, <1>7 DEF Move, RecordOf
  <1>10. GoesOnBy(RecordOf(axis, amount), x)
    BY <1>1, <1>3, <1>4, <1>5, <1>6, <1>9, MoveFromHere DEF GoesOnBy
  <1>. QED
    BY <1>8, <1>10

LEMMA SystematicMoveOfCalls ==
  ASSUME IInv, SystematicMove, NEW x, x = symbol_index
  PROVE  \E move \in MoveRecords : GoesOnBy(move, x)
  <1>. DEFINE geometry == Geometry(cursor, phase, symbol_index)
              axis == SystematicAxis(symbol, control, phase, Probe, geometry, previous_axis)
              amount == IF phase < 3 THEN amounts[phase]
                        ELSE DiffusionAmount(symbol, control, phase, Probe, geometry, axis)
  <1>1. /\ absorbing /\ parameters.systematic_absorb
        /\ Move(axis, amount)
        /\ control' = SystematicNextControl(symbol, control, phase, axis, amount,
                                            cube'[cursor'], cursor')
    BY DEF SystematicMove
  <1>2. geometry \in Byte /\ Probe \in Byte /\ symbol \in Byte /\ control \in Byte
        /\ phase \in 0..5 /\ phase \in Nat /\ symbol_index \in Nat /\ cursor \in Coord /\ previous_axis \in Axes
        /\ amounts \in [0..2 -> 1..7]
    BY <1>1, AbsorbingFacts
  <1>3. axis \in Axes \ {previous_axis}
    <2>. HIDE DEF geometry
    <2>. QED
      BY <1>2, SystematicAxisType
  <1>4. amount \in 1..7
    <2>. HIDE DEF geometry, axis
    <2>1. CASE phase < 3
      BY <1>2, <2>1
    <2>2. CASE phase >= 3
      BY <1>2, <1>3, <2>2, DiffusionAmountType
    <2>. QED
      BY <1>2, <2>1, <2>2
  <1>5. \A t : \A injected : injected = amounts =>
          /\ axis = AxisOfMove(WorkingStateFrom(Snapshot, t), symbol, control, phase, parameters)
          /\ amount = AmountOfMove(WorkingStateFrom(Snapshot, t), symbol, control, phase, axis,
                                   injected, parameters)
    BY <1>1 DEF AxisOfMove, AmountOfMove, WorkingStateFrom, Snapshot, Probe
  <1>. HIDE DEF geometry, axis, amount
  <1>6. control' = NextControl(symbol, control, phase, axis, amount, cube'[cursor'], cursor',
                               parameters)
    BY <1>1 DEF NextControl
  <1>7. cursor' = Advance(cursor, axis, amount) /\ cursor' \in Coord
    BY <1>1, <1>3, <1>4, MoveIsTurn DEF Move, WalkTypeOK
  <1>8. RecordOf(axis, amount) \in MoveRecords
    <2>1. 1..7 = 1..(Side - 1)
      BY SideIs8
    <2>. QED
      BY <1>2, <1>3, <1>4, <1>7, <2>1 DEF RecordOf, MoveRecords
  <1>9. trace' = IF keep.trace THEN Append(trace, RecordOf(axis, amount)) ELSE trace
    BY <1>1, <1>7 DEF Move, RecordOf
  <1>10. GoesOnBy(RecordOf(axis, amount), x)
    BY <1>1, <1>3, <1>4, <1>5, <1>6, <1>9, MoveFromHere DEF GoesOnBy
  <1>. QED
    BY <1>8, <1>10


-----------------------------------------------------------------------------
(* compute() on its way: of all the symbols of a pass, n have been begun   *)
(* since the snapshot from, with these moves.                              *)

LastOf(from, symbols, s, moves) ==
  \E over \in Snapshots, front \in Traces, back \in Traces :
    /\ moves = front \o back
    /\ Reaches(from, symbols, parameters, over, front)
    /\ AbsorbsTo(over, s, parameters, Snapshot, back)

Within(from, symbols, s, moves) ==
  \E over \in Snapshots, front \in Traces, back \in Traces :
    /\ moves = front \o back
    /\ Reaches(from, symbols, parameters, over, front)
    /\ symbol = s
    /\ parameters.systematic_absorb => amounts = InjectedFrom(over, s)
    /\ HalfwayTo(over, s, parameters, phase, Snapshot, back, control)

OnWay(from, all, n, moves) ==
  \/ ~absorbing /\ n = 0 /\ Snapshot = from /\ moves = <<>>
  \/ ~absorbing /\ n \in 1..Len(all) /\ LastOf(from, SubSeq(all, 1, n - 1), all[n], moves)
  \/ absorbing /\ n \in 1..Len(all) /\ Within(from, SubSeq(all, 1, n - 1), all[n], moves)

LEMMA SnapshotType ==
  ASSUME IInv
  PROVE  Snapshot \in Snapshots
  BY DEF IInv, TypeOK, WalkTypeOK, AbsorbTypeOK, Snapshot, Snapshots

LEMMA FrontOfSymbols ==
  ASSUME NEW all \in Seq(Byte), NEW n \in 1..Len(all)
  PROVE  /\ SubSeq(all, 1, n - 1) \in Seq(Byte) /\ all[n] \in Byte
         /\ SubSeq(all, 1, n) = Append(SubSeq(all, 1, n - 1), all[n])
         /\ SubSeq(all, 1, n) \in Seq(Byte)
  OBVIOUS

LEMMA OnWayReaches ==
  ASSUME NEW from, NEW all \in Seq(Byte), NEW n, NEW moves \in Traces,
         ~absorbing, OnWay(from, all, n, moves)
  PROVE  Reaches(from, SubSeq(all, 1, n), parameters, Snapshot, moves)
  <1>1. CASE n = 0 /\ Snapshot = from /\ moves = <<>>
    <2>1. SubSeq(all, 1, 0) = <<>>
      OBVIOUS
    <2>. QED
      BY <1>1, <2>1, NothingReached
  <1>2. CASE n \in 1..Len(all) /\ LastOf(from, SubSeq(all, 1, n - 1), all[n], moves)
    <2>1. PICK over \in Snapshots, front \in Traces, back \in Traces :
            /\ moves = front \o back
            /\ Reaches(from, SubSeq(all, 1, n - 1), parameters, over, front)
            /\ AbsorbsTo(over, all[n], parameters, Snapshot, back)
      BY <1>2 DEF LastOf
    <2>2. SubSeq(all, 1, n - 1) \in Seq(Byte) /\ all[n] \in Byte
          /\ SubSeq(all, 1, n) = Append(SubSeq(all, 1, n - 1), all[n])
      BY <1>2, FrontOfSymbols
    <2>3. PICK first \in Seq(Byte), s \in Byte : first = SubSeq(all, 1, n - 1) /\ s = all[n]
      BY <2>2
    <2>4. Reaches(from, Append(first, s), parameters, Snapshot, front \o back)
      BY <2>1, <2>3, ReachesOneMore
    <2>. QED
      BY <2>1, <2>2, <2>3, <2>4
  <1>. QED
    BY <1>1, <1>2 DEF OnWay

(* Beginning a symbol.                                                     *)
LEMMA SymbolOnWay ==
  ASSUME IInv, ~absorbing, NEW from, NEW all \in Seq(Byte), NEW n \in Nat, n < Len(all),
         NEW moves \in Traces, OnWay(from, all, n, moves), Absorb(all[n + 1])
  PROVE  OnWay(from, all, n + 1, moves)'
  <1>. DEFINE s == all[n + 1]
  <1>1. PICK over : over = Snapshot
    OBVIOUS
  <1>2. over \in Snapshots
    BY <1>1, SnapshotType
  <1>3. Reaches(from, SubSeq(all, 1, n), parameters, over, moves)
    BY <1>1, OnWayReaches
  <1>4. /\ absorbing' /\ symbol' = s /\ phase' = 0
        /\ UNCHANGED <<callVars, walkVars, symbol_index, trace>>
    BY DEF Absorb
  <1>5. parameters' = parameters /\ Snapshot' = over
    BY <1>1, <1>4 DEF Snapshot, callVars, walkVars
  <1>6. /\ parameters.systematic_absorb => amounts' = InjectedFrom(over, s)
        /\ control' = FirstControlFrom(over, s, parameters)
    BY <1>1 DEF Absorb, InjectedFrom, FirstControlFrom, Snapshot, Probe
  <1>. HIDE DEF s
  <1>7. HalfwayTo(over, s, parameters, 0, over, <<>>, FirstControlFrom(over, s, parameters))
    BY HalfwayStarts
  <1>8. <<>> \in Traces /\ moves = moves \o <<>>
    BY DEF Traces
  <1>9. Within(from, SubSeq(all, 1, n), s, moves)'
    BY <1>2, <1>3, <1>4, <1>5, <1>6, <1>7, <1>8 DEF Within
  <1>10. n + 1 \in 1..Len(all) /\ (n + 1) - 1 = n
    OBVIOUS
  <1>. QED
    BY <1>4, <1>9, <1>10 DEF OnWay, s

(* Making a move of it.                                                    *)
LEMMA MoveOnWay ==
  ASSUME IInv, FreeMove \/ SystematicMove, NEW from, NEW all \in Seq(Byte), NEW n,
         NEW moves \in Traces, OnWay(from, all, n, moves)
  PROVE  \E move \in MoveRecords :
           /\ trace' = IF keep.trace THEN Append(trace, move) ELSE trace
           /\ OnWay(from, all, n, Append(moves, move))'
  <1>1. PICK x : x = symbol_index
    OBVIOUS
  <1>2. PICK move \in MoveRecords : GoesOnBy(move, x)
    BY <1>1, FreeMoveOfCalls, SystematicMoveOfCalls
  <1>3. absorbing /\ \E axis, amount : Move(axis, amount)
    BY DEF FreeMove, SystematicMove
  <1>4. /\ UNCHANGED <<callVars, symbol, amounts>> /\ phase' = phase + 1
        /\ \/ /\ phase' = parameters.moves_per_symbol
              /\ absorbing' = FALSE /\ symbol_index' = symbol_index + 1
           \/ /\ phase' # parameters.moves_per_symbol
              /\ absorbing' = absorbing /\ symbol_index' = symbol_index
    BY <1>3 DEF Move
  <1>5. parameters' = parameters
    BY <1>4 DEF callVars
  <1>6. n \in 1..Len(all) /\ Within(from, SubSeq(all, 1, n - 1), all[n], moves)
    BY <1>3 DEF OnWay
  <1>. DEFINE first == SubSeq(all, 1, n - 1)
              s == all[n]
  <1>7. PICK over \in Snapshots, front \in Traces, back \in Traces :
          /\ moves = front \o back
          /\ Reaches(from, first, parameters, over, front)
          /\ symbol = s
          /\ parameters.systematic_absorb => amounts = InjectedFrom(over, s)
          /\ HalfwayTo(over, s, parameters, phase, Snapshot, back, control)
    BY <1>6 DEF Within
  <1>. HIDE DEF first, s
  <1>8. PICK at, to, ctl, next_ctl, p, ph :
          /\ at = Snapshot /\ to = Standing(x)' /\ ctl = control /\ next_ctl = control'
          /\ p = parameters /\ ph = phase
    OBVIOUS
  <1>9. ph \in Nat /\ p.moves_per_symbol \in Nat
    BY <1>3, <1>8, AbsorbingFacts
  <1>10. TurnsTo(at, ctl, s, ph, InjectedFrom(over, s), p, to, move, next_ctl)
    BY <1>2, <1>7, <1>8 DEF GoesOnBy, TurnsTo
  <1>11. HalfwayTo(over, s, p, ph + 1, to, Append(back, move), next_ctl)
    <2>1. HalfwayTo(over, s, p, ph, at, back, ctl)
      BY <1>7, <1>8
    <2>2. ph \in Nat
      BY <1>9
    <2>. QED
      BY <1>10, <2>1, <2>2, HalfwayGoesOn
  <1>12. Append(moves, move) = front \o Append(back, move) /\ Append(back, move) \in Traces
    <2>1. \A a, b \in Traces : /\ a \o Append(b, move) = Append(a \o b, move)
                              /\ Append(b, move) \in Traces
      BY AppendToJoined DEF Traces
    <2>2. moves = front \o back
      BY <1>7
    <2>. QED
      BY <2>1, <2>2
  <1>13. CASE phase' = parameters.moves_per_symbol
    <2>1. absorbing' = FALSE /\ symbol_index' = x + 1 /\ ph + 1 = p.moves_per_symbol
      BY <1>1, <1>3, <1>4, <1>8, <1>13
    <2>2. PICK end : end = Snapshot'
      OBVIOUS
    <2>3. end = [cube |-> to.cube, cursor |-> to.cursor, previous_axis |-> to.previous_axis,
                 symbol_index |-> to.symbol_index + 1]
      BY <1>8, <2>1, <2>2 DEF Snapshot, Standing
    <2>4. HalfwayTo(over, s, p, p.moves_per_symbol, to, Append(back, move), next_ctl)
      BY <1>11, <2>1
    <2>5. AbsorbsTo(over, s, p, end, Append(back, move))
      BY <1>9, <2>3, <2>4, HalfwayEnds
    <2>6. LastOf(from, first, s, Append(moves, move))'
      BY <1>5, <1>7, <1>8, <1>12, <2>2, <2>5 DEF LastOf
    <2>7. OnWay(from, all, n, Append(moves, move))'
      BY <1>6, <2>1, <2>6 DEF OnWay, first, s
    <2>. QED
      BY <1>2, <2>7 DEF GoesOnBy
  <1>14. CASE phase' # parameters.moves_per_symbol
    <2>1. absorbing' /\ symbol_index' = x /\ phase' = ph + 1
      BY <1>1, <1>3, <1>4, <1>8, <1>14
    <2>2. to = Snapshot'
      BY <1>8, <2>1 DEF Snapshot, Standing
    <2>3. HalfwayTo(over, s, parameters', phase', Snapshot', Append(back, move), control')
      BY <1>5, <1>8, <1>11, <2>1, <2>2
    <2>4. symbol' = s /\ (parameters'.systematic_absorb => amounts' = InjectedFrom(over, s))
      BY <1>4, <1>5, <1>7
    <2>5. Within(from, first, s, Append(moves, move))'
      BY <1>5, <1>7, <1>12, <2>3, <2>4 DEF Within
    <2>6. OnWay(from, all, n, Append(moves, move))'
      BY <1>6, <2>1, <2>5 DEF OnWay, first, s
    <2>. QED
      BY <1>2, <2>6 DEF GoesOnBy
  <1>. QED
    BY <1>13, <1>14


-----------------------------------------------------------------------------
(* The forward pass and the foldback of compute() and of the calls.        *)

FoldbackDone == IF parameters.enable_foldback THEN Len(bytes) - i ELSE 0

PassesAgree ==
  /\ pc = "validate" => ~absorbing /\ Snapshot = InitialState /\ trace = <<>>
  /\ pc = "forward" =>
       \E moves \in Traces :
         /\ keep.trace => trace = moves
         /\ OnWay(InitialState, bytes, i, moves)
  /\ pc = "foldback" =>
       \E over \in Snapshots, front \in Traces, back \in Traces :
         /\ keep.trace => trace = front \o back
         /\ Reaches(InitialState, bytes, parameters, over, front)
         /\ OnWay(over, ReturnSymbols(bytes, parameters), FoldbackDone, back)
  /\ pc = "rejected" => ~Valid(parameters)
  /\ pc = "unsupported" => ~Supported(parameters)

LEMMA ReturnSymbolsType ==
  ASSUME NEW given \in Seq(Byte), NEW p
  PROVE  /\ ReturnSymbols(given, p) \in Seq(Byte)
         /\ p.enable_foldback =>
              /\ Len(ReturnSymbols(given, p)) = Len(given)
              /\ \A n \in 1..Len(given) :
                   ReturnSymbols(given, p)[Len(given) - n + 1]
                     = ReturnSymbol(given[n], n - 1)
         /\ ~p.enable_foldback => ReturnSymbols(given, p) = <<>>
  <1>. DEFINE last == Len(given)
              e == [n \in DOMAIN given |-> ReturnSymbol(given[n], n - 1)]
  <1>1. last \in Nat /\ DOMAIN given = 1..last
    BY LenProperties
  <1>2. ASSUME NEW n \in 1..last PROVE ReturnSymbol(given[n], n - 1) \in Byte
    <2>1. given[n] \in Byte /\ n - 1 \in Nat
      BY <1>1, ElementOfSeq
    <2>. QED
      BY <2>1, ReturnSymbolType
  <1>3. e \in [1..last -> Byte]
    BY <1>1, <1>2
  <1>4. e \in Seq(Byte) /\ Len(e) = last
    BY <1>1, <1>3, SeqDef
  <1>5. \A n \in 1..last : e[n] = ReturnSymbol(given[n], n - 1)
    BY <1>1
  <1>6. ReturnSymbols(given, p) = IF p.enable_foldback THEN Reverse(e) ELSE <<>>
    BY DEF ReturnSymbols
  <1>. HIDE DEF e, last
  <1>7. Reverse(e) = [n \in 1..last |-> e[last - n + 1]]
    BY <1>4 DEF Reverse
  <1>8. Reverse(e) \in [1..last -> Byte]
    BY <1>1, <1>3, <1>7
  <1>9. Reverse(e) \in Seq(Byte) /\ Len(Reverse(e)) = last
    BY <1>1, <1>8, SeqDef
  <1>10. ASSUME NEW n \in 1..last PROVE Reverse(e)[last - n + 1] = ReturnSymbol(given[n], n - 1)
    <2>1. last - n + 1 \in 1..last /\ last - (last - n + 1) + 1 = n
      BY <1>1
    <2>2. Reverse(e)[last - n + 1] = e[last - (last - n + 1) + 1]
      BY <1>7, <2>1
    <2>. QED
      BY <1>5, <2>1, <2>2
  <1>11. CASE p.enable_foldback
    BY <1>6, <1>9, <1>10, <1>11 DEF last
  <1>12. CASE ~p.enable_foldback
    BY <1>6, <1>12
  <1>. QED
    BY <1>11, <1>12

LEMMA StartsInAgreement == Init => PassesAgree
  <1>. SUFFICES ASSUME Init PROVE PassesAgree
    OBVIOUS
  <1>1. Snapshot = InitialState
    BY DEF Init, WalkInit, Snapshot, InitialState
  <1>. QED
    BY <1>1 DEF Init, PassesAgree

LEMMA MoveKeepsAgreement ==
  ASSUME IInv, PassesAgree, FreeMove \/ SystematicMove
  PROVE  PassesAgree'
  <1>1. absorbing /\ \E axis, amount : Move(axis, amount)
    BY DEF FreeMove, SystematicMove
  <1>2. UNCHANGED <<callVars, pc, i>>
    BY <1>1 DEF Move
  <1>3. pc \in Loops
    BY <1>1 DEF IInv, ControlOK, Loops
  <1>4. bytes' = bytes /\ parameters' = parameters /\ keep' = keep
        /\ FoldbackDone' = FoldbackDone
    BY <1>2 DEF callVars, FoldbackDone
  <1>5. bytes \in Seq(Byte) /\ ReturnSymbols(bytes, parameters) \in Seq(Byte)
    BY CallFacts, ReturnSymbolsType DEF IInv, TypeOK
  <1>6. ASSUME pc = "forward"
        PROVE  \E moves \in Traces : /\ keep.trace => trace' = moves
                                     /\ OnWay(InitialState, bytes, i, moves)'
    <2>1. PICK moves \in Traces : /\ keep.trace => trace = moves
                                  /\ OnWay(InitialState, bytes, i, moves)
      BY <1>6 DEF PassesAgree
    <2>2. PICK all \in Seq(Byte), n \in {i}, from \in {InitialState} : all = bytes
      BY <1>5
    <2>3. OnWay(from, all, n, moves)
      BY <2>1, <2>2
    <2>4. PICK move \in MoveRecords :
            /\ trace' = IF keep.trace THEN Append(trace, move) ELSE trace
            /\ OnWay(from, all, n, Append(moves, move))'
      BY <2>3, MoveOnWay
    <2>5. Append(moves, move) \in Traces
      BY AppendProperties DEF Traces
    <2>6. keep.trace => trace' = Append(moves, move)
      BY <2>1, <2>4
    <2>7. OnWay(InitialState, bytes, i, Append(moves, move))'
      BY <1>2, <1>4, <2>2, <2>4
    <2>. QED
      BY <2>5, <2>6, <2>7
  <1>7. ASSUME pc = "foldback"
        PROVE  \E over \in Snapshots, front \in Traces, back \in Traces :
                 /\ keep.trace => trace' = front \o back
                 /\ Reaches(InitialState, bytes, parameters, over, front)
                 /\ OnWay(over, ReturnSymbols(bytes, parameters), FoldbackDone, back)'
    <2>1. PICK over \in Snapshots, front \in Traces, back \in Traces :
            /\ keep.trace => trace = front \o back
            /\ Reaches(InitialState, bytes, parameters, over, front)
            /\ OnWay(over, ReturnSymbols(bytes, parameters), FoldbackDone, back)
      BY <1>7 DEF PassesAgree
    <2>2. PICK all \in Seq(Byte), n \in {FoldbackDone} : all = ReturnSymbols(bytes, parameters)
      BY <1>5
    <2>3. OnWay(over, all, n, back)
      BY <2>1, <2>2
    <2>4. PICK move \in MoveRecords :
            /\ trace' = IF keep.trace THEN Append(trace, move) ELSE trace
            /\ OnWay(over, all, n, Append(back, move))'
      BY <2>3, MoveOnWay
    <2>5. Append(back, move) \in Traces /\ front \o Append(back, move) = Append(front \o back, move)
      BY AppendToJoined DEF Traces
    <2>6. keep.trace => trace' = front \o Append(back, move)
      BY <2>1, <2>4, <2>5
    <2>7. OnWay(over, ReturnSymbols(bytes, parameters), FoldbackDone, Append(back, move))'
      BY <1>4, <2>2, <2>4
    <2>. QED
      BY <2>1, <2>5, <2>6, <2>7
  <1>. QED
    BY <1>2, <1>3, <1>4, <1>6, <1>7 DEF PassesAgree, Loops

LEMMA ForwardKeepsAgreement == IInv /\ PassesAgree /\ Forward => PassesAgree'
  <1>. SUFFICES ASSUME IInv, PassesAgree, Forward PROVE PassesAgree'
    OBVIOUS
  <1>1. /\ ~absorbing /\ pc = "forward" /\ i < Len(bytes)
        /\ Absorb(bytes[i + 1]) /\ i' = i + 1 /\ pc' = pc
    BY DEF Forward, Looping, SymbolsLeft
  <1>2. bytes' = bytes /\ parameters' = parameters /\ keep' = keep /\ trace' = trace
    BY <1>1 DEF Absorb, callVars
  <1>3. bytes \in Seq(Byte) /\ i \in Nat
    BY CallFacts DEF IInv, TypeOK
  <1>4. PICK moves \in Traces : /\ keep.trace => trace = moves
                                /\ OnWay(InitialState, bytes, i, moves)
    BY <1>1 DEF PassesAgree
  <1>5. PICK all \in Seq(Byte), n \in Nat, from \in {InitialState} : all = bytes /\ n = i
    BY <1>3
  <1>6. OnWay(from, all, n, moves) /\ n < Len(all) /\ Absorb(all[n + 1])
    BY <1>1, <1>4, <1>5
  <1>7. OnWay(from, all, n + 1, moves)'
    BY <1>1, <1>6, SymbolOnWay
  <1>8. OnWay(InitialState, bytes, i, moves)'
    BY <1>1, <1>2, <1>5, <1>7
  <1>. QED
    BY <1>1, <1>2, <1>4, <1>8 DEF PassesAgree

LEMMA FoldbackKeepsAgreement == IInv /\ PassesAgree /\ Foldback => PassesAgree'
  <1>. SUFFICES ASSUME IInv, PassesAgree, Foldback PROVE PassesAgree'
    OBVIOUS
  <1>1. /\ ~absorbing /\ pc = "foldback" /\ parameters.enable_foldback /\ i > 0
        /\ Absorb(ReturnSymbol(bytes[i], i - 1)) /\ i' = i - 1 /\ pc' = pc
    BY DEF Foldback, Looping, SymbolsLeft
  <1>2. bytes' = bytes /\ parameters' = parameters /\ keep' = keep /\ trace' = trace
    BY <1>1 DEF Absorb, callVars
  <1>3. bytes \in Seq(Byte) /\ i \in 0..Len(bytes) /\ Len(bytes) \in Nat
    BY <1>1, CallFacts DEF IInv, TypeOK, SymbolSchedule, MessageSymbols
  <1>4. PICK over \in Snapshots, front \in Traces, back \in Traces :
          /\ keep.trace => trace = front \o back
          /\ Reaches(InitialState, bytes, parameters, over, front)
          /\ OnWay(over, ReturnSymbols(bytes, parameters), FoldbackDone, back)
    BY <1>1 DEF PassesAgree
  <1>5. FoldbackDone = Len(bytes) - i /\ FoldbackDone' = FoldbackDone + 1
        /\ FoldbackDone \in Nat /\ FoldbackDone < Len(bytes)
        /\ Len(bytes) - i + 1 = FoldbackDone + 1
    BY <1>1, <1>2, <1>3 DEF FoldbackDone
  <1>6. /\ ReturnSymbols(bytes, parameters) \in Seq(Byte)
        /\ Len(ReturnSymbols(bytes, parameters)) = Len(bytes)
        /\ ReturnSymbols(bytes, parameters)[FoldbackDone + 1] = ReturnSymbol(bytes[i], i - 1)
    <2>1. /\ ReturnSymbols(bytes, parameters) \in Seq(Byte)
          /\ Len(ReturnSymbols(bytes, parameters)) = Len(bytes)
          /\ \A n \in 1..Len(bytes) :
               ReturnSymbols(bytes, parameters)[Len(bytes) - n + 1] = ReturnSymbol(bytes[n], n - 1)
      BY <1>1, <1>3, ReturnSymbolsType
    <2>2. i \in 1..Len(bytes)
      BY <1>1, <1>3
    <2>3. ReturnSymbols(bytes, parameters)[Len(bytes) - i + 1] = ReturnSymbol(bytes[i], i - 1)
      BY <2>1, <2>2
    <2>. QED
      BY <1>5, <2>1, <2>3
  <1>7. PICK all \in Seq(Byte), n \in Nat : all = ReturnSymbols(bytes, parameters) /\ n = FoldbackDone
    BY <1>5, <1>6
  <1>8. OnWay(over, all, n, back) /\ n < Len(all) /\ Absorb(all[n + 1])
    BY <1>1, <1>4, <1>5, <1>6, <1>7
  <1>9. OnWay(over, all, n + 1, back)'
    BY <1>1, <1>8, SymbolOnWay
  <1>10. OnWay(over, ReturnSymbols(bytes, parameters), FoldbackDone, back)'
    BY <1>2, <1>5, <1>7, <1>9
  <1>. QED
    BY <1>1, <1>2, <1>4, <1>10 DEF PassesAgree

LEMMA BeginKeepsAgreement == IInv /\ PassesAgree /\ Begin => PassesAgree'
  <1>. SUFFICES ASSUME IInv, PassesAgree, Begin PROVE PassesAgree'
    OBVIOUS
  <1>1. /\ pc = "validate" /\ pc' = "forward"
        /\ UNCHANGED <<callVars, i, walkVars, symbol_index, trace, absorbVars>>
    BY DEF Begin
  <1>2. ~absorbing' /\ Snapshot' = InitialState /\ trace' = <<>> /\ i' = 0
    BY <1>1 DEF PassesAgree, IInv, ControlOK, Snapshot, walkVars, absorbVars
  <1>3. OnWay(InitialState, bytes, i, <<>>)'
    BY <1>2 DEF OnWay
  <1>4. <<>> \in Traces
    BY DEF Traces
  <1>. QED
    BY <1>1, <1>2, <1>3, <1>4 DEF PassesAgree

LEMMA EndForwardKeepsAgreement == IInv /\ PassesAgree /\ EndForward => PassesAgree'
  <1>. SUFFICES ASSUME IInv, PassesAgree, EndForward PROVE PassesAgree'
    OBVIOUS
  <1>1. /\ ~absorbing /\ pc = "forward" /\ pc' = "foldback" /\ i >= Len(bytes) /\ i' = Len(bytes)
        /\ UNCHANGED <<callVars, walkVars, symbol_index, trace, absorbVars>>
    <2>1. ~absorbing /\ pc = "forward" /\ ~(i < Len(bytes)) /\ i \in Nat /\ Len(bytes) \in Nat
      BY CallFacts DEF EndForward, Leaving, SymbolsLeft, IInv, TypeOK
    <2>. QED
      BY <2>1 DEF EndForward, LeaveFor
  <1>2. bytes \in Seq(Byte) /\ i = Len(bytes) /\ Len(bytes) \in Nat
    BY <1>1, CallFacts DEF IInv, TypeOK, SymbolSchedule, MessageSymbols
  <1>3. PICK moves \in Traces : /\ keep.trace => trace = moves
                                /\ OnWay(InitialState, bytes, i, moves)
    BY <1>1 DEF PassesAgree
  <1>4. Reaches(InitialState, bytes, parameters, Snapshot, moves)
    <2>1. Reaches(InitialState, SubSeq(bytes, 1, i), parameters, Snapshot, moves)
      BY <1>1, <1>2, <1>3, OnWayReaches
    <2>2. SubSeq(bytes, 1, i) = bytes
      BY <1>2, SubSeqFull
    <2>. QED
      BY <2>1, <2>2
  <1>5. PICK over : over = Snapshot
    OBVIOUS
  <1>6. over \in Snapshots
    BY <1>5, SnapshotType
  <1>7. /\ bytes' = bytes /\ parameters' = parameters /\ keep' = keep /\ trace' = trace
        /\ Snapshot' = over /\ ~absorbing'
    BY <1>1, <1>5 DEF callVars, walkVars, absorbVars, Snapshot
  <1>8. FoldbackDone' = 0
    BY <1>1, <1>2, <1>7 DEF FoldbackDone
  <1>9. OnWay(over, ReturnSymbols(bytes, parameters), FoldbackDone, <<>>)'
    BY <1>7, <1>8 DEF OnWay
  <1>10. moves = moves \o <<>> /\ <<>> \in Traces
    BY DEF Traces
  <1>. QED
    BY <1>1, <1>3, <1>4, <1>5, <1>6, <1>7, <1>9, <1>10 DEF PassesAgree

LEMMA OthersKeepAgreement ==
  ASSUME IInv, PassesAgree, Next, ~(FreeMove \/ SystematicMove), ~Forward, ~Foldback, ~Begin,
         ~EndForward
  PROVE  PassesAgree'
  <1>1. CASE Reject
    BY <1>1 DEF Reject, PassesAgree, callVars, Valid
  <1>2. CASE Unsupported
    BY <1>2 DEF Unsupported, PassesAgree, callVars, Supported
  <1>3. CASE Frame \/ DiagonalClosure \/ OrbitClosure \/ Feed
    BY <1>3 DEF Frame, DiagonalClosure, OrbitClosure, Feed, Looping, PassesAgree
  <1>4. CASE EndFoldback \/ EndFrame \/ EndDiagonalClosure \/ EndOrbitClosure
             \/ SqueezeByte \/ EndFeed \/ Finish
    BY <1>4 DEF EndFoldback, EndFrame, EndDiagonalClosure, EndOrbitClosure, SqueezeByte,
                EndFeed, Finish, LeaveFor, PassesAgree
  <1>5. CASE Stay
    BY <1>5 DEF Stay, Terminated, vars, callVars, PassesAgree, Valid, Supported
  <1>. QED
    BY <1>1, <1>2, <1>3, <1>4, <1>5 DEF Next

LEMMA AgreementKept == IInv /\ PassesAgree /\ [Next]_vars => PassesAgree'
  <1>. SUFFICES ASSUME IInv, PassesAgree, [Next]_vars PROVE PassesAgree'
    OBVIOUS
  <1>1. CASE UNCHANGED vars
    <2>1. /\ bytes' = bytes /\ parameters' = parameters /\ keep' = keep /\ pc' = pc /\ i' = i
          /\ trace' = trace /\ absorbing' = absorbing /\ symbol' = symbol /\ control' = control
          /\ phase' = phase /\ amounts' = amounts
          /\ Snapshot' = Snapshot /\ FoldbackDone' = FoldbackDone
      BY <1>1 DEF vars, callVars, walkVars, absorbVars, Snapshot, FoldbackDone
    <2>2. \A from, all, n, moves : OnWay(from, all, n, moves)' <=> OnWay(from, all, n, moves)
      BY <2>1 DEF OnWay, LastOf, Within
    <2>3. \A moves : OnWay(InitialState, bytes, i, moves)' <=> OnWay(InitialState, bytes, i, moves)
      BY <2>1, <2>2
    <2>4. \A from, moves : OnWay(from, ReturnSymbols(bytes, parameters), FoldbackDone, moves)'
                            <=> OnWay(from, ReturnSymbols(bytes, parameters), FoldbackDone, moves)
      BY <2>1, <2>2
    <2>. QED
      <3>1. ASSUME pc = "forward"
            PROVE  (\E moves \in Traces : /\ keep.trace => trace = moves
                                          /\ OnWay(InitialState, bytes, i, moves))'
        BY <2>1, <2>3, <3>1 DEF PassesAgree
      <3>2. ASSUME pc = "foldback"
            PROVE  (\E over \in Snapshots, front \in Traces, back \in Traces :
                      /\ keep.trace => trace = front \o back
                      /\ Reaches(InitialState, bytes, parameters, over, front)
                      /\ OnWay(over, ReturnSymbols(bytes, parameters), FoldbackDone, back))'
        BY <2>1, <2>4, <3>2 DEF PassesAgree
      <3>3. /\ pc = "rejected" => ~Valid(parameters)'
            /\ pc = "unsupported" => ~Supported(parameters)'
            /\ pc = "validate" => (~absorbing /\ Snapshot = InitialState /\ trace = <<>>)'
        BY <2>1 DEF PassesAgree, Valid, Supported
      <3>. QED
        BY <2>1, <3>1, <3>2, <3>3 DEF PassesAgree
  <1>2. CASE Next
    BY <1>2, MoveKeepsAgreement, ForwardKeepsAgreement, FoldbackKeepsAgreement,
       BeginKeepsAgreement, EndForwardKeepsAgreement, OthersKeepAgreement
  <1>. QED
    BY <1>1, <1>2


-----------------------------------------------------------------------------
(* What the calls answer.                                                  *)

LEMMA AnswerIs ==
  ASSUME NEW from, NEW symbols, NEW p, NEW to \in Snapshots, NEW moves \in Traces,
         Valid(p), symbols = <<>> \/ Supported(p), Reaches(from, symbols, p, to, moves)
  PROVE  /\ Answer(from, symbols, p) = [state |-> to, moves |-> moves]
         /\ Answer(from, symbols, p).state = to
         /\ Answer(from, symbols, p).moves = moves
  <1>. DEFINE w == AbsorbAll(WorkingStateFrom(from, <<>>), symbols, p)
  <1>1. <<>> \in Traces /\ <<>> \o moves = moves
    BY DEF Traces
  <1>2. w = WorkingStateFrom(to, moves)
    <2>1. w = WorkingStateFrom(to, <<>> \o moves)
      BY <1>1 DEF Reaches
    <2>. QED
      BY <1>1, <2>1
  <1>3. Answer(from, symbols, p)
          = CHOOSE answer \in {[state |-> SnapshotOf(x), moves |-> x.trace] : x \in {w}} : TRUE
    BY DEF Answer
  <1>. HIDE DEF w
  <1>4. Answer(from, symbols, p) = [state |-> SnapshotOf(w), moves |-> w.trace]
    BY <1>3
  <1>5. SnapshotOf(w) = to
    <2>1. SnapshotOf(w) = [cube |-> to.cube, cursor |-> to.cursor,
                           previous_axis |-> to.previous_axis, symbol_index |-> to.symbol_index]
      BY <1>2 DEF SnapshotOf, Fields, WorkingStateFrom
    <2>2. to = [cube |-> to.cube, cursor |-> to.cursor,
                previous_axis |-> to.previous_axis, symbol_index |-> to.symbol_index]
      BY DEF Snapshots
    <2>. QED
      BY <2>1, <2>2
  <1>6. w.trace = moves
    BY <1>2 DEF WorkingStateFrom
  <1>. QED
    BY <1>4, <1>5, <1>6

LEMMA ForwardAnswersAgree ==
  ASSUME IInv, PassesAgree
  PROVE  ForwardAgrees
  <1>. SUFFICES ASSUME pc = "forward", ~absorbing, Supported(parameters) \/ i = 0
                PROVE  /\ \E behind \in {ForwardStateForResearch(SubSeq(bytes, 1, i), parameters)} :
                            behind.state = Snapshot /\ (keep.trace => behind.moves = trace)
                       /\ i > 0 =>
                            \E before \in {ForwardStateForResearch(SubSeq(bytes, 1, i - 1), parameters)} :
                              AbsorbSymbolForResearch(before.state, bytes[i], parameters).state = Snapshot
    BY DEF ForwardAgrees
  <1>1. PICK moves \in Traces : /\ keep.trace => trace = moves
                                /\ OnWay(InitialState, bytes, i, moves)
    BY DEF PassesAgree
  <1>2. bytes \in Seq(Byte) /\ i \in Nat /\ Valid(parameters)
    BY CallFacts DEF IInv, TypeOK, ControlOK
  <1>3. Snapshot \in Snapshots
    BY SnapshotType
  <1>4. Reaches(InitialState, SubSeq(bytes, 1, i), parameters, Snapshot, moves)
    BY <1>1, <1>2, OnWayReaches
  <1>5. SubSeq(bytes, 1, i) = <<>> \/ Supported(parameters)
    BY <1>2, SubSeqEmpty
  <1>6. /\ ForwardStateForResearch(SubSeq(bytes, 1, i), parameters).state = Snapshot
        /\ ForwardStateForResearch(SubSeq(bytes, 1, i), parameters).moves = moves
    BY <1>2, <1>3, <1>4, <1>5, AnswerIs DEF ForwardStateForResearch
  <1>7. ASSUME i > 0
        PROVE  AbsorbSymbolForResearch(
                 ForwardStateForResearch(SubSeq(bytes, 1, i - 1), parameters).state,
                 bytes[i], parameters).state = Snapshot
    <2>1. i \in 1..Len(bytes) /\ LastOf(InitialState, SubSeq(bytes, 1, i - 1), bytes[i], moves)
          /\ Supported(parameters)
      BY <1>1, <1>2, <1>7 DEF OnWay
    <2>2. PICK over \in Snapshots, front \in Traces, back \in Traces :
            /\ Reaches(InitialState, SubSeq(bytes, 1, i - 1), parameters, over, front)
            /\ AbsorbsTo(over, bytes[i], parameters, Snapshot, back)
      BY <2>1 DEF LastOf
    <2>3. ForwardStateForResearch(SubSeq(bytes, 1, i - 1), parameters).state = over
      BY <1>2, <2>1, <2>2, AnswerIs DEF ForwardStateForResearch
    <2>4. PICK s \in Byte : s = bytes[i]
      BY <1>2, <2>1, FrontOfSymbols
    <2>5. Reaches(over, <<s>>, parameters, Snapshot, back)
      <3>1. <<>> \in Traces /\ <<>> \o back = back /\ <<>> \in Seq(Byte) /\ Append(<<>>, s) = <<s>>
        BY DEF Traces
      <3>2. Reaches(over, <<>>, parameters, over, <<>>)
        BY NothingReached
      <3>3. AbsorbsTo(over, s, parameters, Snapshot, back)
        BY <2>2, <2>4
      <3>4. Reaches(over, Append(<<>>, s), parameters, Snapshot, <<>> \o back)
        BY <3>1, <3>2, <3>3, ReachesOneMore
      <3>. QED
        BY <3>1, <3>4
    <2>6. AbsorbSymbolForResearch(over, s, parameters).state = Snapshot
      BY <1>2, <1>3, <2>1, <2>5, AnswerIs DEF AbsorbSymbolForResearch
    <2>. QED
      BY <2>3, <2>4, <2>6
  <1>. QED
    BY <1>1, <1>6, <1>7

LEMMA FoldbackAnswersAgree ==
  ASSUME IInv, PassesAgree
  PROVE  FoldbackAgrees
  <1>. DEFINE symbols == ReturnSymbols(bytes, parameters)
  <1>. SUFFICES ASSUME Leaving("foldback")
                PROVE  /\ FoldbackStateForResearch(bytes, parameters).state = Snapshot
                       /\ \E forward \in {ForwardStateForResearch(bytes, parameters)} :
                          \E resumed \in {FoldbackFromForwardState(forward.state, bytes, parameters)} :
                            /\ resumed.state = Snapshot
                            /\ keep.trace => trace = forward.moves \o resumed.moves
    BY DEF FoldbackAgrees
  <1>1. /\ pc = "foldback" /\ ~absorbing /\ ~(parameters.enable_foldback /\ i > 0)
        /\ bytes \in Seq(Byte) /\ Len(bytes) \in Nat /\ i \in 0..Len(bytes)
        /\ Valid(parameters)
    BY CallFacts DEF Leaving, SymbolsLeft, IInv, TypeOK, ControlOK, SymbolSchedule, MessageSymbols
  <1>2. PICK over \in Snapshots, front \in Traces, back \in Traces :
          /\ keep.trace => trace = front \o back
          /\ Reaches(InitialState, bytes, parameters, over, front)
          /\ OnWay(over, ReturnSymbols(bytes, parameters), FoldbackDone, back)
    BY <1>1 DEF PassesAgree
  <1>3. Snapshot \in Snapshots
    BY SnapshotType
  <1>4. symbols \in Seq(Byte)
        /\ (parameters.enable_foldback => Len(symbols) = Len(bytes))
        /\ (~parameters.enable_foldback => symbols = <<>>)
    BY <1>1, ReturnSymbolsType
  <1>5. SubSeq(symbols, 1, FoldbackDone) = symbols
    <2>1. FoldbackDone = Len(symbols)
      <3>1. CASE parameters.enable_foldback
        BY <1>1, <1>4, <3>1 DEF FoldbackDone
      <3>2. CASE ~parameters.enable_foldback
        BY <1>4, <3>2 DEF FoldbackDone
      <3>. QED
        BY <3>1, <3>2
    <2>. QED
      BY <1>4, <2>1, SubSeqFull
  <1>6. Reaches(over, symbols, parameters, Snapshot, back)
    <2>. HIDE DEF symbols
    <2>1. OnWay(over, symbols, FoldbackDone, back)
      BY <1>2 DEF symbols
    <2>2. Reaches(over, SubSeq(symbols, 1, FoldbackDone), parameters, Snapshot, back)
      BY <1>1, <1>4, <2>1, OnWayReaches
    <2>. QED
      BY <1>5, <2>2
  <1>7. bytes = <<>> \/ Supported(parameters)
    <2>1. ASSUME bytes # <<>> PROVE Len(bytes) > 0
      BY <1>1, <2>1, EmptySeq
    <2>2. Begun = Len(bytes) + (IF parameters.enable_foldback THEN Len(bytes) - i ELSE 0)
      BY <1>1 DEF IInv, SymbolSchedule, MessageSymbols
    <2>3. Len(bytes) > 0 => Begun # 0
      BY <1>1, <2>2
    <2>. QED
      BY <2>1, <2>3 DEF IInv, ControlOK
  <1>8. symbols = <<>> \/ Supported(parameters)
    <2>1. CASE bytes = <<>>
      <3>1. Len(bytes) = 0
        BY <2>1
      <3>. HIDE DEF symbols
      <3>2. parameters.enable_foldback => Len(symbols) = 0
        BY <1>4, <3>1
      <3>. QED
        BY <1>4, <3>2, EmptySeq
    <2>. QED
      BY <1>7, <2>1
  <1>9. /\ ForwardStateForResearch(bytes, parameters).state = over
        /\ ForwardStateForResearch(bytes, parameters).moves = front
    BY <1>1, <1>2, <1>7, AnswerIs DEF ForwardStateForResearch
  <1>. HIDE DEF symbols
  <1>10. /\ FoldbackFromForwardState(over, bytes, parameters).state = Snapshot
         /\ FoldbackFromForwardState(over, bytes, parameters).moves = back
    <2>1. Answer(over, symbols, parameters).state = Snapshot
          /\ Answer(over, symbols, parameters).moves = back
      BY <1>1, <1>3, <1>6, <1>8, AnswerIs
    <2>. QED
      BY <2>1 DEF FoldbackFromForwardState, symbols
  <1>11. FoldbackStateForResearch(bytes, parameters).state = Snapshot
    <2>1. Reaches(InitialState, bytes \o symbols, parameters, Snapshot, front \o back)
          /\ front \o back \in Traces
      BY <1>1, <1>2, <1>4, <1>6, ReachesMore, ConcatProperties DEF Traces
    <2>2. bytes \o symbols = <<>> \/ Supported(parameters)
      BY <1>1, <1>4, <1>7, <1>8
    <2>3. Answer(InitialState, bytes \o symbols, parameters).state = Snapshot
      BY <1>1, <1>3, <2>1, <2>2, AnswerIs
    <2>. QED
      BY <2>3 DEF FoldbackStateForResearch, symbols
  <1>. QED
    BY <1>2, <1>9, <1>10, <1>11

LEMMA RefusalAgrees ==
  ASSUME IInv, PassesAgree
  PROVE  RefusesAlike
  <1>. SUFFICES ASSUME Terminated, bytes # <<>>
                PROVE  ForwardStateForResearch(bytes, parameters) = Refusal <=> pc # "done"
    BY DEF RefusesAlike
  <1>1. CASE pc = "done"
    <2>1. Valid(parameters)
      BY <1>1 DEF IInv, ControlOK
    <2>2. Supported(parameters)
      <3>1. /\ bytes \in Seq(Byte) /\ Len(bytes) \in Nat /\ MessageSymbols = Len(bytes)
            /\ FoldbackSymbols \in Nat
            /\ parameters.diagonal_closure_symbols \in Nat
            /\ parameters.orbit_closure_symbols \in Nat
            /\ parameters.squeeze_bytes \in Nat /\ parameters.squeeze_symbols_per_byte \in Nat
        BY CallFacts, SymbolCounts DEF IInv, TypeOK, MessageSymbols
      <3>2. Begun = ClosedSymbols + i * parameters.squeeze_symbols_per_byte
            /\ i = parameters.squeeze_bytes
        BY <1>1 DEF IInv, SymbolSchedule
      <3>3. ClosedSymbols = Len(bytes) + FoldbackSymbols + 10
                            + parameters.diagonal_closure_symbols
                            + parameters.orbit_closure_symbols
        BY <3>1 DEF ClosedSymbols, FramedSymbols
      <3>4. i * parameters.squeeze_symbols_per_byte \in Nat
        BY <3>1, <3>2
      <3>5. Begun # 0
        BY <3>1, <3>2, <3>3, <3>4
      <3>. QED
        BY <3>5 DEF IInv, ControlOK
    <2>3. \E state, moves :
            ForwardStateForResearch(bytes, parameters) = [state |-> state, moves |-> moves]
      BY <2>1, <2>2 DEF ForwardStateForResearch, Answer
    <2>. QED
      BY <1>1, <2>3 DEF Refusal
  <1>2. CASE pc \in {"rejected", "unsupported"}
    BY <1>2 DEF PassesAgree, ForwardStateForResearch, Answer
  <1>. QED
    BY <1>1, <1>2 DEF Terminated


(* Whatever the message, the parameters and the perfect cube: the searches *)
(* may take the states the research API computes, in one call or resumed   *)
(* from a snapshot, for those compute() passes through.                    *)
THEOREM ResearchIsTheEngine == Spec => []ResearchAgrees
  <1>1. Init => PassesAgree
    BY StartsInAgreement
  <1>2. IInv /\ PassesAgree => ResearchAgrees
    BY ForwardAnswersAgree, FoldbackAnswersAgree, RefusalAgrees DEF ResearchAgrees
  <1>. QED
    BY <1>1, <1>2, InvariantHolds, AgreementKept, PTL DEF Spec

-----------------------------------------------------------------------------
(* The streaming API.                                                      *)

Owners == Objects \cup Threads
Texts == {s \in Seq(0..255) : Len(s) <= MaxSize}

Calls ==
  [pc : {"forward", "foldback", "close"}, object : Owners, algorithm : Algorithms,
   keep_trace : BOOLEAN, forward : Seq(0..255), back : Seq(0..255), asked : Seq(0..255)]

TypeInv ==
  /\ message \in [Owners -> Texts]
  /\ call \in [Threads -> Calls \cup {Idle}]

(* What the loops have read of text.                                      *)
HasRead(c, text) ==
  /\ Len(c.forward) <= Len(text)
  /\ \A place \in 1..Len(c.forward) : c.forward[place] = text[place]
  /\ c.pc # "forward" => Len(c.forward) = Len(text)
  /\ c.pc = "forward" => Len(c.back) = 0
  /\ Len(c.back) <= Len(text)
  /\ \A place \in 1..Len(c.back) : c.back[place] = text[(Len(text) - place) + 1]
  /\ c.pc = "close" => Len(c.back) = Len(text)

(* A call uses a kept object or its own, the message of the object is what *)
(* it was when the call was made, and the loops have read a part of it.    *)
CallInv ==
  \A t \in Threads : call[t] # Idle =>
    /\ call[t].object \in Objects \cup {t}
    /\ call[t].asked = message[call[t].object]
    /\ HasRead(call[t], message[call[t].object])

Inv == TypeInv /\ CallInv

-----------------------------------------------------------------------------
LEMMA CallIsNotIdle ==
  ASSUME NEW c \in Calls
  PROVE  c # Idle
  <1>1. c.pc # "idle"
    BY DEF Calls
  <1>. QED BY <1>1 DEF Idle

LEMMA ElementIn ==
  ASSUME NEW S, NEW s \in Seq(S), NEW place \in 1..Len(s)
  PROVE  s[place] \in S
  OBVIOUS

LEMMA FunctionIsSequence ==
  ASSUME NEW S, NEW n \in Nat, NEW f \in [1..n -> S]
  PROVE  f \in Seq(S) /\ Len(f) = n
  OBVIOUS

LEMMA EqualSequences ==
  ASSUME NEW S, NEW s \in Seq(S), NEW r \in Seq(S), Len(s) = Len(r),
         \A place \in 1..Len(s) : s[place] = r[place]
  PROVE  s = r
  OBVIOUS

LEMMA ReverseType ==
  ASSUME NEW s \in Seq(0..255)
  PROVE  /\ Reverse(s) \in Seq(0..255)
         /\ Len(Reverse(s)) = Len(s)
         /\ \A place \in 1..Len(s) : Reverse(s)[place] = s[(Len(s) - place) + 1]
  <1>1. \A place \in 1..Len(s) : (Len(s) - place) + 1 \in 1..Len(s)
    OBVIOUS
  <1>2. \A place \in 1..Len(s) : s[(Len(s) - place) + 1] \in 0..255
    BY <1>1, ElementIn
  <1>3. Reverse(s) \in [1..Len(s) -> 0..255]
    BY <1>2 DEF Reverse
  <1>4. Len(s) \in Nat
    OBVIOUS
  <1>5. Reverse(s) \in Seq(0..255) /\ Len(Reverse(s)) = Len(s)
    BY <1>3, <1>4, FunctionIsSequence, ZenonT(30)
  <1>. QED BY <1>5 DEF Reverse

(* A call that has read everything has the message and its reverse.        *)
LEMMA AllRead ==
  ASSUME NEW c \in Calls, NEW text \in Seq(0..255), HasRead(c, text), c.pc = "close"
  PROVE  c.forward = text /\ c.back = Reverse(text)
  <1>1. c.forward \in Seq(0..255) /\ c.back \in Seq(0..255)
    BY DEF Calls
  <1>2. /\ Len(c.forward) = Len(text)
        /\ \A place \in 1..Len(c.forward) : c.forward[place] = text[place]
    BY DEF HasRead
  <1>3. c.forward = text
    BY <1>1, <1>2, EqualSequences
  <1>4. /\ Len(c.back) = Len(text)
        /\ \A place \in 1..Len(c.back) : c.back[place] = text[(Len(text) - place) + 1]
    BY DEF HasRead
  <1>5. Len(c.back) = Len(Reverse(text)) /\ Reverse(text) \in Seq(0..255)
    BY <1>4, ReverseType
  <1>6. \A place \in 1..Len(c.back) : c.back[place] = Reverse(text)[place]
    BY <1>4, ReverseType
  <1>7. c.back = Reverse(text)
    BY <1>1, <1>5, <1>6, EqualSequences
  <1>. QED BY <1>3, <1>7

(* One more byte read forward, and one more read back.                     *)
LEMMA OneMoreForward ==
  ASSUME NEW c \in Calls, NEW text \in Seq(0..255), HasRead(c, text),
         c.pc = "forward", Len(c.forward) < Len(text)
  PROVE  LET d == [c EXCEPT !.forward = Append(@, text[Len(c.forward) + 1])]
         IN  d \in Calls /\ HasRead(d, text) /\ d.object = c.object /\ d.asked = c.asked
  <1>. DEFINE b == text[Len(c.forward) + 1]
              d == [c EXCEPT !.forward = Append(@, b)]
  <1>1. c.forward \in Seq(0..255) /\ Len(c.forward) \in Nat /\ Len(text) \in Nat
    BY DEF Calls
  <1>2. Len(c.forward) + 1 \in 1..Len(text)
    BY <1>1
  <1>3. b \in 0..255
    BY <1>2, ElementIn
  <1>4. /\ Append(c.forward, b) \in Seq(0..255)
        /\ Len(Append(c.forward, b)) = Len(c.forward) + 1
        /\ \A place \in 1..Len(c.forward) : Append(c.forward, b)[place] = c.forward[place]
        /\ Append(c.forward, b)[Len(c.forward) + 1] = b
    BY <1>1, <1>3
  <1>5. /\ d \in Calls /\ d.forward = Append(c.forward, b)
        /\ d.pc = c.pc /\ d.back = c.back /\ d.object = c.object /\ d.asked = c.asked
    BY <1>4 DEF Calls
  <1>6. \A place \in 1..Len(d.forward) : d.forward[place] = text[place]
    <2>. TAKE place \in 1..Len(d.forward)
    <2>1. place \in 1..Len(c.forward) \/ place = Len(c.forward) + 1
      BY <1>1, <1>4, <1>5
    <2>2. \A k \in 1..Len(c.forward) : c.forward[k] = text[k]
      BY DEF HasRead
    <2>. QED BY <2>1, <2>2, <1>4, <1>5
  <1>7. /\ c.pc = "forward" => Len(c.back) = 0
        /\ Len(c.back) <= Len(text)
        /\ \A place \in 1..Len(c.back) : c.back[place] = text[(Len(text) - place) + 1]
    BY DEF HasRead
  <1>8. Len(d.forward) <= Len(text)
    BY <1>1, <1>4, <1>5
  <1>9. HasRead(d, text)
    BY <1>5, <1>6, <1>7, <1>8 DEF HasRead
  <1>. QED BY <1>5, <1>9

LEMMA OneMoreBack ==
  ASSUME NEW c \in Calls, NEW text \in Seq(0..255), HasRead(c, text),
         c.pc = "foldback", Len(c.back) < Len(text)
  PROVE  LET d == [c EXCEPT !.back = Append(@, text[Len(text) - Len(c.back)])]
         IN  d \in Calls /\ HasRead(d, text) /\ d.object = c.object /\ d.asked = c.asked
  <1>. DEFINE b == text[Len(text) - Len(c.back)]
              d == [c EXCEPT !.back = Append(@, b)]
  <1>1. c.back \in Seq(0..255) /\ Len(c.back) \in Nat /\ Len(text) \in Nat
    BY DEF Calls
  <1>2. Len(text) - Len(c.back) \in 1..Len(text)
    BY <1>1
  <1>3. b \in 0..255
    BY <1>2, ElementIn
  <1>4. /\ Append(c.back, b) \in Seq(0..255)
        /\ Len(Append(c.back, b)) = Len(c.back) + 1
        /\ \A place \in 1..Len(c.back) : Append(c.back, b)[place] = c.back[place]
        /\ Append(c.back, b)[Len(c.back) + 1] = b
    BY <1>1, <1>3
  <1>5. /\ d \in Calls /\ d.back = Append(c.back, b)
        /\ d.pc = c.pc /\ d.forward = c.forward /\ d.object = c.object /\ d.asked = c.asked
    BY <1>4 DEF Calls
  <1>6. \A place \in 1..Len(d.back) : d.back[place] = text[(Len(text) - place) + 1]
    <2>. TAKE place \in 1..Len(d.back)
    <2>1. place \in 1..Len(c.back) \/ place = Len(c.back) + 1
      BY <1>1, <1>4, <1>5
    <2>2. \A k \in 1..Len(c.back) : c.back[k] = text[(Len(text) - k) + 1]
      BY DEF HasRead
    <2>3. (Len(text) - (Len(c.back) + 1)) + 1 = Len(text) - Len(c.back)
      BY <1>1
    <2>. QED BY <2>1, <2>2, <2>3, <1>4, <1>5
  <1>7. /\ Len(c.forward) <= Len(text)
        /\ \A place \in 1..Len(c.forward) : c.forward[place] = text[place]
        /\ Len(c.forward) = Len(text)
    BY DEF HasRead
  <1>8. Len(d.back) <= Len(text)
    BY <1>1, <1>4, <1>5
  <1>9. HasRead(d, text)
    BY <1>5, <1>6, <1>7, <1>8 DEF HasRead
  <1>. QED BY <1>5, <1>9

(* The end of a loop.                                                      *)
LEMMA LoopEnds ==
  ASSUME NEW c \in Calls, NEW text \in Seq(0..255), HasRead(c, text),
         NEW p, \/ c.pc = "forward" /\ p = "foldback" /\ ~(Len(c.forward) < Len(text))
                \/ c.pc = "foldback" /\ p = "close" /\ ~(Len(text) - Len(c.back) > 0)
  PROVE  LET d == [c EXCEPT !.pc = p]
         IN  d \in Calls /\ HasRead(d, text) /\ d.object = c.object /\ d.asked = c.asked
  <1>. DEFINE d == [c EXCEPT !.pc = p]
  <1>1. Len(c.back) \in Nat /\ Len(c.forward) \in Nat /\ Len(text) \in Nat
    BY DEF Calls
  <1>2. /\ d \in Calls /\ d.pc = p /\ d.forward = c.forward /\ d.back = c.back
        /\ d.object = c.object /\ d.asked = c.asked
    BY DEF Calls
  <1>3. HasRead(d, text)
    BY <1>1, <1>2 DEF HasRead
  <1>. QED BY <1>2, <1>3

(* A call begins with a part of the message that is empty.                 *)
LEMMA CallBegins ==
  ASSUME NEW o \in Owners, NEW text \in Seq(0..255), NEW a \in Algorithms,
         NEW k \in BOOLEAN
  PROVE  LET d == Finalizing(o, text, a, k)
         IN  d \in Calls /\ HasRead(d, text) /\ d.object = o /\ d.asked = text
  <1>. DEFINE d == Finalizing(o, text, a, k)
  <1>1. /\ d \in Calls /\ d.pc = "forward" /\ d.forward = <<>> /\ d.back = <<>>
        /\ d.object = o /\ d.asked = text
    BY DEF Finalizing, Calls
  <1>2. Len(text) \in Nat /\ Len(<<>>) = 0
    OBVIOUS
  <1>3. HasRead(d, text)
    BY <1>1, <1>2 DEF HasRead
  <1>. QED BY <1>1, <1>3

-----------------------------------------------------------------------------
LEMMA InvInitially == HasherInit => Inv
  <1>. SUFFICES ASSUME HasherInit
                PROVE  Inv
    OBVIOUS
  <1>1. <<>> \in Texts
    BY SizeAssumption DEF Texts
  <1>2. message \in [Owners -> Texts]
    BY <1>1 DEF HasherInit, Owners
  <1>3. \A t \in Threads : call[t] = Idle
    BY DEF HasherInit
  <1>4. call \in [Threads -> Calls \cup {Idle}]
    BY DEF HasherInit
  <1>. QED BY <1>2, <1>3, <1>4 DEF Inv, TypeInv, CallInv

(* A thread that is in a call keeps to an object and its message.          *)
LEMMA InCall ==
  ASSUME Inv, NEW t \in Threads, call[t] # Idle
  PROVE  /\ call[t] \in Calls
         /\ call[t].object \in Owners
         /\ call[t].object \in Objects \cup {t}
         /\ message[call[t].object] \in Seq(0..255)
         /\ call[t].asked = message[call[t].object]
         /\ HasRead(call[t], message[call[t].object])
  <1>1. call[t] \in Calls
    BY DEF Inv, TypeInv
  <1>2. call[t].object \in Owners
    BY <1>1 DEF Calls
  <1>3. message[call[t].object] \in Texts
    BY <1>2 DEF Inv, TypeInv
  <1>. QED BY <1>1, <1>2, <1>3 DEF Inv, CallInv, Texts

(* A call of one thread moves, and the messages that other calls are       *)
(* reading stay.                                                           *)
LEMMA OneCallMoves ==
  ASSUME Inv, NEW t \in Threads, NEW d, call' = [call EXCEPT ![t] = d],
         message' \in [Owners -> Texts],
         \A u \in Threads \ {t} : call[u] # Idle =>
           message'[call[u].object] = message[call[u].object],
         \/ d = Idle
         \/ /\ d \in Calls /\ d.object \in Objects \cup {t}
            /\ d.asked = message'[d.object] /\ HasRead(d, message'[d.object])
  PROVE  Inv'
  <1>1. call \in [Threads -> Calls \cup {Idle}]
    BY DEF Inv, TypeInv
  <1>2. /\ call'[t] = d
        /\ \A u \in Threads \ {t} : call'[u] = call[u]
    BY <1>1
  <1>3. call' \in [Threads -> Calls \cup {Idle}]
    BY <1>1
  <1>4. ASSUME NEW u \in Threads, call'[u] # Idle
        PROVE  /\ call'[u].object \in Objects \cup {u}
               /\ call'[u].asked = message'[call'[u].object]
               /\ HasRead(call'[u], message'[call'[u].object])
    <2>1. CASE u = t
      BY <2>1, <1>2, <1>4
    <2>2. CASE u # t
      <3>1. call'[u] = call[u] /\ call[u] # Idle
        BY <2>2, <1>2, <1>4
      <3>2. message'[call[u].object] = message[call[u].object]
        BY <2>2, <3>1
      <3>. QED BY <3>1, <3>2, InCall
    <2>. QED BY <2>1, <2>2
  <1>5. CallInv'
    BY <1>4 DEF CallInv
  <1>. QED BY <1>3, <1>5 DEF Inv, TypeInv

(* The object of a call of another thread is not this thread's own.        *)
LEMMA OwnObject ==
  ASSUME Inv, NEW t \in Threads, NEW u \in Threads \ {t}, call[u] # Idle
  PROVE  call[u].object \in Owners /\ call[u].object # t
  BY InCall, ObjectsAssumption

LEMMA UpdateKeeps ==
  ASSUME Inv, NEW t \in Threads, NEW o \in Objects, NEW chunk \in Chunks,
         Update(t, o, chunk)
  PROVE  Inv'
  <1>1. message \in [Owners -> Texts] /\ o \in Owners
    BY DEF Inv, TypeInv, Owners
  <1>2. message[o] \in Seq(0..255) /\ chunk \in Seq(0..255)
    BY <1>1, SizeAssumption DEF Texts
  <1>3. message' \in [Owners -> Texts] /\ \A p \in Owners \ {o} : message'[p] = message[p]
    <2>1. CASE Len(chunk) > MaxSize - Len(message[o])
      BY <2>1, <1>1 DEF Update
    <2>2. CASE ~(Len(chunk) > MaxSize - Len(message[o]))
      <3>1. /\ message[o] \o chunk \in Seq(0..255)
            /\ Len(message[o] \o chunk) = Len(message[o]) + Len(chunk)
        BY <1>2
      <3>2. Len(message[o] \o chunk) <= MaxSize
        BY <3>1, <2>2, <1>2, SizeAssumption
      <3>3. message' = [message EXCEPT ![o] = message[o] \o chunk]
        BY <2>2 DEF Update
      <3>4. message[o] \o chunk \in Texts
        BY <3>1, <3>2 DEF Texts
      <3>. QED BY <3>3, <3>4, <1>1
    <2>. QED BY <2>1, <2>2
  <1>4. \A u \in Threads \ {t} : call[u] # Idle =>
          message'[call[u].object] = message[call[u].object]
    <2>. SUFFICES ASSUME NEW u \in Threads \ {t}, call[u] # Idle
                  PROVE  message'[call[u].object] = message[call[u].object]
      OBVIOUS
    <2>1. call[u].object # o
      BY DEF Update, Unshared
    <2>2. call[u].object \in Owners
      BY InCall
    <2>. QED BY <2>1, <2>2, <1>3
  <1>5. call[t] = Idle /\ call' = [call EXCEPT ![t] = Idle]
    BY DEF Update, Inv, TypeInv
  <1>. QED BY <1>3, <1>4, <1>5, OneCallMoves

LEMMA FinalizeKeeps ==
  ASSUME Inv, NEW t \in Threads, NEW o \in Objects, NEW k \in BOOLEAN,
         Finalize(t, o, k)
  PROVE  Inv'
  <1>. DEFINE d == Finalizing(o, message[o], AlgorithmOf[o], k)
  <1>1. message \in [Owners -> Texts] /\ o \in Owners /\ message' = message
    BY DEF Inv, TypeInv, Owners, Finalize
  <1>2. message[o] \in Seq(0..255) /\ AlgorithmOf[o] \in Algorithms
    BY <1>1, ObjectsAssumption DEF Texts, Algorithms
  <1>3. /\ d \in Calls /\ HasRead(d, message[o]) /\ d.object = o
        /\ d.asked = message[o]
    BY <1>1, <1>2, CallBegins
  <1>4. call' = [call EXCEPT ![t] = d]
    BY DEF Finalize
  <1>. HIDE DEF d
  <1>. QED BY <1>1, <1>3, <1>4, OneCallMoves

LEMMA InspectKeeps ==
  ASSUME Inv, NEW t \in Threads, NEW chunk \in Chunks, NEW a \in Algorithms,
         NEW k \in BOOLEAN, Inspect(t, chunk, a, k)
  PROVE  Inv'
  <1>. DEFINE d == Finalizing(t, chunk, a, k)
  <1>1. message \in [Owners -> Texts] /\ t \in Owners /\ chunk \in Texts
    BY SizeAssumption DEF Inv, TypeInv, Owners, Texts
  <1>2. message' = [message EXCEPT ![t] = chunk] /\ call' = [call EXCEPT ![t] = d]
    BY DEF Inspect
  <1>3. /\ message' \in [Owners -> Texts] /\ message'[t] = chunk
        /\ \A p \in Owners \ {t} : message'[p] = message[p]
    BY <1>1, <1>2
  <1>4. d \in Calls /\ HasRead(d, chunk) /\ d.object = t /\ d.asked = chunk
    BY <1>1, CallBegins DEF Texts
  <1>5. \A u \in Threads \ {t} : call[u] # Idle =>
          message'[call[u].object] = message[call[u].object]
    BY <1>3, OwnObject
  <1>. HIDE DEF d
  <1>. QED BY <1>2, <1>3, <1>4, <1>5, OneCallMoves

LEMMA ReadForwardKeeps ==
  ASSUME Inv, NEW t \in Threads, ReadForward(t)
  PROVE  Inv'
  <1>. DEFINE c == call[t]
              text == message[c.object]
              next == IF Len(c.forward) < Len(text)
                      THEN [c EXCEPT !.forward = Append(@, text[Len(c.forward) + 1])]
                      ELSE [c EXCEPT !.pc = "foldback"]
  <1>1. c.pc = "forward" /\ c # Idle
    BY DEF ReadForward, Idle
  <1>2. /\ c \in Calls /\ c.object \in Objects \cup {t} /\ text \in Seq(0..255)
        /\ c.asked = text /\ HasRead(c, text)
    BY <1>1, InCall
  <1>3. message' = message /\ call' = [call EXCEPT ![t] = next]
    BY DEF ReadForward
  <1>4. next \in Calls /\ HasRead(next, text) /\ next.object = c.object /\ next.asked = c.asked
    <2>1. CASE Len(c.forward) < Len(text)
      BY <2>1, <1>1, <1>2, OneMoreForward
    <2>2. CASE ~(Len(c.forward) < Len(text))
      BY <2>2, <1>1, <1>2, LoopEnds, ZenonT(30)
    <2>. QED BY <2>1, <2>2
  <1>5. message \in [Owners -> Texts]
    BY DEF Inv, TypeInv
  <1>. HIDE DEF next
  <1>. QED BY <1>2, <1>3, <1>4, <1>5, OneCallMoves

LEMMA ReadBackKeeps ==
  ASSUME Inv, NEW t \in Threads, ReadBack(t)
  PROVE  Inv'
  <1>. DEFINE c == call[t]
              text == message[c.object]
              next == IF Len(text) - Len(c.back) > 0
                      THEN [c EXCEPT !.back = Append(@, text[Len(text) - Len(c.back)])]
                      ELSE [c EXCEPT !.pc = "close"]
  <1>1. c.pc = "foldback" /\ c # Idle
    BY DEF ReadBack, Idle
  <1>2. /\ c \in Calls /\ c.object \in Objects \cup {t} /\ text \in Seq(0..255)
        /\ c.asked = text /\ HasRead(c, text)
    BY <1>1, InCall
  <1>3. message' = message /\ call' = [call EXCEPT ![t] = next]
    BY DEF ReadBack
  <1>4. next \in Calls /\ HasRead(next, text) /\ next.object = c.object /\ next.asked = c.asked
    <2>1. CASE Len(text) - Len(c.back) > 0
      <3>1. Len(text) \in Nat /\ Len(c.back) \in Nat
        BY <1>2 DEF Calls
      <3>. HIDE DEF c, text
      <3>2. Len(c.back) < Len(text)
        BY <2>1, <3>1
      <3>. USE DEF c, text
      <3>. QED BY <2>1, <3>2, <1>1, <1>2, OneMoreBack
    <2>2. CASE ~(Len(text) - Len(c.back) > 0)
      BY <2>2, <1>1, <1>2, LoopEnds, ZenonT(30)
    <2>. QED BY <2>1, <2>2
  <1>5. message \in [Owners -> Texts]
    BY DEF Inv, TypeInv
  <1>. HIDE DEF next
  <1>. QED BY <1>2, <1>3, <1>4, <1>5, OneCallMoves

LEMMA ReturnKeeps ==
  ASSUME Inv, NEW t \in Threads, Return(t)
  PROVE  Inv'
  <1>1. message \in [Owners -> Texts] /\ t \in Owners /\ <<>> \in Texts
    BY SizeAssumption DEF Inv, TypeInv, Owners, Texts
  <1>2. message' = [message EXCEPT ![t] = <<>>] /\ call' = [call EXCEPT ![t] = Idle]
    BY DEF Return
  <1>3. message' \in [Owners -> Texts] /\ \A p \in Owners \ {t} : message'[p] = message[p]
    BY <1>1, <1>2
  <1>4. \A u \in Threads \ {t} : call[u] # Idle =>
          message'[call[u].object] = message[call[u].object]
    BY <1>3, OwnObject
  <1>. QED BY <1>2, <1>3, <1>4, OneCallMoves

LEMMA InvKept == Inv /\ [HasherNext]_hasherVars => Inv'
  <1>. SUFFICES ASSUME Inv, [HasherNext]_hasherVars
                PROVE  Inv'
    OBVIOUS
  <1>1. CASE UNCHANGED hasherVars
    BY <1>1 DEF hasherVars, Inv, TypeInv, CallInv
  <1>2. ASSUME NEW t \in Threads, NEW o \in Objects, NEW chunk \in Chunks,
               Update(t, o, chunk)
        PROVE  Inv'
    BY <1>2, UpdateKeeps
  <1>3. ASSUME NEW t \in Threads, NEW o \in Objects, NEW k \in BOOLEAN, Finalize(t, o, k)
        PROVE  Inv'
    BY <1>3, FinalizeKeeps
  <1>4. ASSUME NEW t \in Threads, NEW chunk \in Chunks, NEW a \in Algorithms,
               NEW k \in BOOLEAN, Inspect(t, chunk, a, k)
        PROVE  Inv'
    BY <1>4, InspectKeeps
  <1>5. ASSUME NEW t \in Threads, Running(t)
        PROVE  Inv'
    BY <1>5, ReadForwardKeeps, ReadBackKeeps, ReturnKeeps DEF Running
  <1>. QED BY <1>1, <1>2, <1>3, <1>4, <1>5 DEF HasherNext

(* The message a call has been made with is the message it is reading, and *)
(* the two loops have read a part of it: forward as many text as they     *)
(* stand, back as many from the end.                                       *)
THEOREM CallsReadTheirMessage == HasherSpec => []Inv
  BY InvInitially, InvKept, PTL DEF HasherSpec

-----------------------------------------------------------------------------
(* What a thread waits for, seen from the interface.                       *)
LEMMA WaitsFor ==
  ASSUME Inv, NEW t \in Threads
  PROVE  /\ Asked(t) = Promise!Nothing <=> call[t] = Idle
         /\ call[t] # Idle =>
              Asked(t) = Promise!Question(message[call[t].object], call[t].algorithm,
                                          call[t].keep_trace)
  <1>1. CASE call[t] = Idle
    BY <1>1 DEF Asked, Promise!Nothing
  <1>2. CASE call[t] # Idle
    <2>1. call[t] \in Calls /\ call[t].asked = message[call[t].object]
      BY <1>2, InCall
    <2>2. call[t].algorithm \in Algorithms
      BY <2>1 DEF Calls
    <2>3. Asked(t).algorithm = call[t].algorithm
      BY <1>2 DEF Asked
    <2>4. Asked(t) # Promise!Nothing
      BY <2>2, <2>3 DEF Algorithms, Promise!Nothing
    <2>. QED BY <1>2, <2>1, <2>4 DEF Asked, Promise!Question
  <1>. QED BY <1>1, <1>2

LEMMA InitialPromise == HasherInit => Promise!OracleInit
  <1>. SUFFICES ASSUME HasherInit
                PROVE  Promise!OracleInit
    OBVIOUS
  <1>1. [o \in Objects |-> message[o]] = [o \in Objects |-> <<>>]
    BY DEF HasherInit
  <1>2. [t \in Threads |-> Asked(t)] = [t \in Threads |-> Promise!Nothing]
    BY DEF HasherInit, Asked, Promise!Nothing
  <1>3. outcome = [t \in Threads |-> Promise!Status("none")]
    BY DEF HasherInit, Status, Promise!Status
  <1>. QED BY <1>1, <1>2, <1>3 DEF Promise!OracleInit

(* The questions of the other threads stay when one thread's call moves.   *)
LEMMA QuestionsMove ==
  ASSUME Inv, NEW t \in Threads, NEW d, call' = [call EXCEPT ![t] = d]
  PROVE  /\ call'[t] = d
         /\ [u \in Threads |-> Asked(u)]' = [[u \in Threads |-> Asked(u)] EXCEPT ![t] = Asked(t)']
  <1>1. call \in [Threads -> Calls \cup {Idle}]
    BY DEF Inv, TypeInv
  <1>2. call'[t] = d /\ \A u \in Threads \ {t} : call'[u] = call[u]
    BY <1>1
  <1>3. \A u \in Threads \ {t} : Asked(u)' = Asked(u)
    BY <1>2 DEF Asked
  <1>. QED BY <1>2, <1>3

LEMMA UpdateFeeds ==
  ASSUME Inv, NEW t \in Threads, NEW o \in Objects, NEW chunk \in Chunks,
         Update(t, o, chunk)
  PROVE  Promise!Feed(t, o, chunk)
  <1>. DEFINE fed == [p \in Objects |-> message[p]]
  <1>1. message \in [Owners -> Texts] /\ o \in Owners /\ Objects \subseteq Owners
    BY DEF Inv, TypeInv, Owners
  <1>2. Len(message[o]) \in Nat /\ Len(chunk) \in Nat /\ MaxSize \in Nat
    BY <1>1, SizeAssumption DEF Texts
  <1>3. Len(chunk) > MaxSize - Len(message[o]) <=> ~(Len(fed[o]) + Len(chunk) <= MaxSize)
    <2>1. \A a, b, m \in Nat : b > m - a <=> ~(a + b <= m)
      OBVIOUS
    <2>2. fed[o] = message[o]
      OBVIOUS
    <2>. HIDE DEF fed
    <2>3. Len(chunk) > MaxSize - Len(message[o]) <=> ~(Len(message[o]) + Len(chunk) <= MaxSize)
      BY <1>2, <2>1
    <2>. QED BY <2>2, <2>3
  <1>4. call[t] = Idle /\ call' = call
    BY DEF Update
  <1>5. Asked(t) = Promise!Nothing
    BY <1>4, WaitsFor
  <1>6. [u \in Threads |-> Asked(u)]' = [u \in Threads |-> Asked(u)]
    BY <1>4 DEF Asked
  <1>7. CASE Len(chunk) > MaxSize - Len(message[o])
    <2>1. message' = message /\ outcome' = [outcome EXCEPT ![t] = Promise!Status("length_error")]
      BY <1>7 DEF Update, Status, Promise!Status
    <2>. QED BY <1>3, <1>5, <1>6, <1>7, <2>1 DEF Promise!Feed
  <1>8. CASE ~(Len(chunk) > MaxSize - Len(message[o]))
    <2>1. /\ message' = [message EXCEPT ![o] = message[o] \o chunk]
          /\ outcome' = [outcome EXCEPT ![t] = Promise!Status("taken")]
      BY <1>8 DEF Update, Status, Promise!Status
    <2>2. fed' = [fed EXCEPT ![o] = fed[o] \o chunk]
      BY <1>1, <2>1
    <2>. QED BY <1>3, <1>5, <1>6, <1>8, <2>1, <2>2 DEF Promise!Feed
  <1>. QED BY <1>7, <1>8

LEMMA FinalizeAsks ==
  ASSUME Inv, NEW t \in Threads, NEW o \in Objects, NEW k \in BOOLEAN,
         Finalize(t, o, k)
  PROVE  Promise!AskObject(t, o)
  <1>. DEFINE d == Finalizing(o, message[o], AlgorithmOf[o], k)
              question == Promise!Question(message[o], AlgorithmOf[o], k)
  <1>1. call[t] = Idle /\ call' = [call EXCEPT ![t] = d] /\ message' = message
    BY DEF Finalize
  <1>2. Asked(t) = Promise!Nothing
    BY <1>1, WaitsFor
  <1>3. d.pc = "forward" /\ d # Idle
    BY DEF Finalizing, Idle
  <1>4. call'[t] = d
    BY <1>1, QuestionsMove
  <1>5. Asked(t)' = question
    BY <1>3, <1>4 DEF Asked, Finalizing, Promise!Question
  <1>6. [u \in Threads |-> Asked(u)]' = [[u \in Threads |-> Asked(u)] EXCEPT ![t] = question]
    BY <1>1, <1>5, QuestionsMove
  <1>7. outcome' = [outcome EXCEPT ![t] = Promise!Status("pending")]
    BY DEF Finalize, Status, Promise!Status
  <1>8. Promise!Ask(t, question)
    BY <1>1, <1>2, <1>6, <1>7 DEF Promise!Ask
  <1>. QED BY <1>8 DEF Promise!AskObject

LEMMA InspectAsks ==
  ASSUME Inv, NEW t \in Threads, NEW chunk \in Chunks, NEW a \in Algorithms,
         NEW k \in BOOLEAN, Inspect(t, chunk, a, k)
  PROVE  Promise!AskBytes(t, chunk)
  <1>. DEFINE d == Finalizing(t, chunk, a, k)
              question == Promise!Question(chunk, a, k)
  <1>1. /\ call[t] = Idle /\ call' = [call EXCEPT ![t] = d]
        /\ message' = [message EXCEPT ![t] = chunk]
    BY DEF Inspect
  <1>2. Asked(t) = Promise!Nothing
    BY <1>1, WaitsFor
  <1>3. d.pc = "forward" /\ d # Idle
    BY DEF Finalizing, Idle
  <1>4. call'[t] = d
    BY <1>1, QuestionsMove
  <1>5. Asked(t)' = question
    BY <1>3, <1>4 DEF Asked, Finalizing, Promise!Question
  <1>6. [u \in Threads |-> Asked(u)]' = [[u \in Threads |-> Asked(u)] EXCEPT ![t] = question]
    BY <1>1, <1>5, QuestionsMove
  <1>7. outcome' = [outcome EXCEPT ![t] = Promise!Status("pending")]
    BY DEF Inspect, Status, Promise!Status
  <1>8. [o \in Objects |-> message[o]]' = [o \in Objects |-> message[o]]
    BY <1>1, ObjectsAssumption DEF Inv, TypeInv, Owners
  <1>9. Promise!Ask(t, question)
    BY <1>2, <1>6, <1>7, <1>8 DEF Promise!Ask
  <1>. QED BY <1>9 DEF Promise!AskBytes, Promise!Algorithms, Algorithms

(* The digest of what the two loops have read is that of the message.      *)
LEMMA ReturnTells ==
  ASSUME Inv, NEW t \in Threads, Return(t)
  PROVE  Promise!Tell(t)
  <1>. DEFINE c == call[t]
              text == message[c.object]
  <1>1. c.pc = "close" /\ c # Idle
    BY DEF Return, Idle
  <1>2. c \in Calls /\ text \in Seq(0..255) /\ HasRead(c, text)
    BY <1>1, InCall
  <1>3. c.forward = text /\ c.back = Reverse(text)
    BY <1>1, <1>2, AllRead
  <1>4. /\ Asked(t) # Promise!Nothing
        /\ Asked(t) = Promise!Question(text, c.algorithm, c.keep_trace)
    BY <1>1, WaitsFor
  <1>5. /\ Asked(t).bytes = text /\ Asked(t).algorithm = c.algorithm
        /\ Asked(t).keep_trace = c.keep_trace
    BY <1>4 DEF Promise!Question
  <1>6. Promise!AnswerTo(Asked(t)) =
          [digest |-> Compute(c.algorithm, c.forward, c.back, Len(text)),
           input_size |-> Len(text), traced |-> c.keep_trace]
    BY <1>3, <1>5 DEF Promise!AnswerTo, DigestOf
  <1>7. outcome' = [outcome EXCEPT ![t] = Promise!AnswerTo(Asked(t))]
    BY <1>6 DEF Return
  <1>8. call' = [call EXCEPT ![t] = Idle] /\ message' = [message EXCEPT ![t] = <<>>]
    BY DEF Return
  <1>9. Asked(t)' = Promise!Nothing
    BY <1>8, QuestionsMove DEF Asked, Promise!Nothing
  <1>10. [u \in Threads |-> Asked(u)]' =
           [[u \in Threads |-> Asked(u)] EXCEPT ![t] = Promise!Nothing]
    BY <1>8, <1>9, QuestionsMove
  <1>11. [o \in Objects |-> message[o]]' = [o \in Objects |-> message[o]]
    BY <1>8, ObjectsAssumption DEF Inv, TypeInv, Owners
  <1>. QED BY <1>4, <1>7, <1>10, <1>11 DEF Promise!Tell

(* Reading a byte is not seen from the interface.                          *)
LEMMA ReadingIsHidden ==
  ASSUME Inv, NEW t \in Threads, ReadForward(t) \/ ReadBack(t)
  PROVE  UNCHANGED Promise!oracleVars
  <1>. DEFINE c == call[t]
  <1>1. /\ c.pc = "forward" \/ c.pc = "foldback"
        /\ c # Idle
    <2>1. c.pc = "forward" \/ c.pc = "foldback"
      BY DEF ReadForward, ReadBack
    <2>. QED BY <2>1 DEF Idle
  <1>2. c \in Calls
    BY <1>1, InCall
  <1>3. PICK d : /\ call' = [call EXCEPT ![t] = d] /\ d.pc \in {"forward", "foldback", "close"}
                 /\ d.asked = c.asked /\ d.algorithm = c.algorithm
                 /\ d.keep_trace = c.keep_trace
    <2>1. CASE ReadForward(t)
      <3>. DEFINE text == message[c.object]
                  more == [c EXCEPT !.forward = Append(@, text[Len(c.forward) + 1])]
                  end == [c EXCEPT !.pc = "foldback"]
      <3>1. call' = [call EXCEPT ![t] = more] \/ call' = [call EXCEPT ![t] = end]
        BY <2>1 DEF ReadForward
      <3>2. /\ more.pc = c.pc /\ end.pc = "foldback"
            /\ more.asked = c.asked /\ end.asked = c.asked
            /\ more.algorithm = c.algorithm /\ end.algorithm = c.algorithm
            /\ more.keep_trace = c.keep_trace /\ end.keep_trace = c.keep_trace
        BY <1>2 DEF Calls
      <3>. HIDE DEF more, end
      <3>. QED BY <1>1, <3>1, <3>2
    <2>2. CASE ReadBack(t)
      <3>. DEFINE text == message[c.object]
                  more == [c EXCEPT !.back = Append(@, text[Len(text) - Len(c.back)])]
                  end == [c EXCEPT !.pc = "close"]
      <3>1. call' = [call EXCEPT ![t] = more] \/ call' = [call EXCEPT ![t] = end]
        BY <2>2 DEF ReadBack
      <3>2. /\ more.pc = c.pc /\ end.pc = "close"
            /\ more.asked = c.asked /\ end.asked = c.asked
            /\ more.algorithm = c.algorithm /\ end.algorithm = c.algorithm
            /\ more.keep_trace = c.keep_trace /\ end.keep_trace = c.keep_trace
        BY <1>2 DEF Calls
      <3>. HIDE DEF more, end
      <3>. QED BY <1>1, <3>1, <3>2
    <2>. QED BY <2>1, <2>2
  <1>4. call'[t] = d /\ d # Idle
    <2>1. call'[t] = d
      BY <1>3, QuestionsMove
    <2>2. d # Idle
      BY <1>3 DEF Idle
    <2>. QED BY <2>1, <2>2
  <1>5. Asked(t)' = Asked(t)
    BY <1>1, <1>3, <1>4 DEF Asked
  <1>6. [u \in Threads |-> Asked(u)]' = [u \in Threads |-> Asked(u)]
    BY <1>3, <1>5, QuestionsMove
  <1>7. message' = message /\ outcome' = outcome
    BY DEF ReadForward, ReadBack
  <1>. QED BY <1>6, <1>7 DEF Promise!oracleVars

LEMMA StepPromised == Inv /\ [HasherNext]_hasherVars => [Promise!OracleNext]_(Promise!oracleVars)
  <1>. SUFFICES ASSUME Inv, [HasherNext]_hasherVars
                PROVE  Promise!OracleNext \/ UNCHANGED Promise!oracleVars
    OBVIOUS
  <1>1. CASE UNCHANGED hasherVars
    BY <1>1 DEF hasherVars, Promise!oracleVars, Asked
  <1>2. ASSUME NEW t \in Threads, NEW o \in Objects, NEW chunk \in Chunks,
               Update(t, o, chunk)
        PROVE  Promise!OracleNext
    BY <1>2, UpdateFeeds DEF Promise!OracleNext
  <1>3. ASSUME NEW t \in Threads, NEW o \in Objects, NEW k \in BOOLEAN, Finalize(t, o, k)
        PROVE  Promise!OracleNext
    BY <1>3, FinalizeAsks DEF Promise!OracleNext
  <1>4. ASSUME NEW t \in Threads, NEW chunk \in Chunks, NEW a \in Algorithms,
               NEW k \in BOOLEAN, Inspect(t, chunk, a, k)
        PROVE  Promise!OracleNext
    BY <1>4, InspectAsks DEF Promise!OracleNext
  <1>5. ASSUME NEW t \in Threads, Running(t)
        PROVE  Promise!OracleNext \/ UNCHANGED Promise!oracleVars
    <2>1. CASE ReadForward(t) \/ ReadBack(t)
      BY <2>1, ReadingIsHidden
    <2>2. CASE Return(t)
      BY <2>2, ReturnTells DEF Promise!OracleNext
    <2>. QED BY <1>5, <2>1, <2>2 DEF Running
  <1>. QED BY <1>1, <1>2, <1>3, <1>4, <1>5 DEF HasherNext

(* RotHash1 and RotHash2 keep the promise of their interface: a digest is  *)
(* that of the text the object had taken when it was asked for, however   *)
(* they were cut, whatever other calls overlap, and asking leaves no mark. *)
THEOREM HasherKeepsItsPromise == HasherSpec => ImplementsOracle
  BY CallsReadTheirMessage, InitialPromise, StepPromised,
     PTL DEF HasherSpec, ImplementsOracle, Promise!OracleSpec

=============================================================================
