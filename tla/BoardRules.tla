----------------------------- MODULE BoardRules -----------------------------
(***************************************************************************)
(* The board and the rules of the game as pure operators: the cells of the *)
(* grid, the moves that are legal from a cell given the barriers this peer *)
(* knows of, and the three end conditions a peer evaluates on its own      *)
(* state.  A cell is <<row, column>>, row growing downwards.               *)
(***************************************************************************)
EXTENDS Integers, FiniteSets

CONSTANT Size   \* side of the square board (board_and_agents.grid_size)

ASSUME SizeAssumption == Size \in Nat \ {0}

Cells == (0 .. Size - 1) \X (0 .. Size - 1)

Directions == {"N", "S", "E", "W"}
Moves == Directions \cup {"STAY"}

\* Offset of every move; STAY is the move with no direction.
DELTAS == [m \in Moves |->
             CASE m = "N" -> <<-1, 0>>
               [] m = "S" -> <<1, 0>>
               [] m = "E" -> <<0, 1>>
               [] m = "W" -> <<0, -1>>
               [] OTHER   -> <<0, 0>>]

Target(cell, m) == <<cell[1] + DELTAS[m][1], cell[2] + DELTAS[m][2]>>

LegalMovesPastTheEdge(cell, barriers) ==
  {m \in Directions : Target(cell, m) \notin barriers} \cup {"STAY"}

\* STAY is legal even from a cell that is itself a barrier.
LegalMoves(cell, barriers) ==
  {m \in Directions : Target(cell, m) \in Cells \ barriers} \cup {"STAY"}

Stuck(cell, barriers) == LegalMoves(cell, barriers) = {"STAY"}

SurvivedEarly(stepCount, threshold) == stepCount + 1 >= threshold
Survived(stepCount, threshold) == stepCount >= threshold

=============================================================================
