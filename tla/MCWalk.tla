------------------------------- MODULE MCWalk -------------------------------
(* The walk on a small cube, every choice of axis and amount, a bounded    *)
(* number of moves.                                                        *)
EXTENDS Walk

CONSTANT MaxMoves   (* the bound on the number of moves                    *)

VARIABLE moves

mcVars == <<walkVars, moves>>

(* Every cell holds its own storage index: no two cells look alike.        *)
MCPerfectCube == [c \in Coord |-> Index(c)]

MCInit == WalkInit /\ moves = 0

MCTurn(axis, amount) ==
  /\ moves < MaxMoves
  /\ moves' = moves + 1
  /\ Turn(axis, amount)

MCNext == \E axis \in Axes, amount \in 1..(Side - 1) : MCTurn(axis, amount)

MCSpec == MCInit /\ [][MCNext]_mcVars

=============================================================================
