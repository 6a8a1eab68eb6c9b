------------------------------- MODULE Puzzle -------------------------------
(***************************************************************************)
(* The board of the fifteen puzzle solver (main.c) and the pure functions  *)
(* the search is built from: the four moves of the blank, the heuristic    *)
(* and the parity test.  A board is a bijection from cells to tiles, tile  *)
(* 0 being the blank; the program reads such a board from its arguments    *)
(* and every later board is made from one by a swap.                       *)
(***************************************************************************)
EXTENDS Integers, FiniteSets, Functions

CONSTANT N       \* the side of the board (main.c fixes it to 4)

ASSUME NAssumption == N \in Nat /\ N >= 2

Row   == 0 .. (N - 1)
Cell  == Row \X Row
Tile  == 0 .. (N * N - 1)
Board == Bijection(Cell, Tile)

\* The goal: 1, 2, 3, ... row by row, and the blank in the last cell.
GoalBoard == [c \in Cell |-> IF c = <<N - 1, N - 1>> THEN 0 ELSE N * c[1] + c[2] + 1]

\* The cell of the blank, found by a scan of the rows.
Blank(b) == CHOOSE c \in Cell : b[c] = 0

-----------------------------------------------------------------------------
(* Moves: a direction is where the blank goes.                             *)

Dir == {"DN", "RT", "UP", "LT"}

Target(c, d) == CASE d = "DN" -> <<c[1] + 1, c[2]>>
                  [] d = "RT" -> <<c[1], c[2] + 1>>
                  [] d = "UP" -> <<c[1] - 1, c[2]>>
                  [] d = "LT" -> <<c[1], c[2] - 1>>

toggle_dir(d) == CASE d = "DN" -> "UP"
                   [] d = "RT" -> "LT"
                   [] d = "UP" -> "DN"
                   [] d = "LT" -> "RT"

\* The test expand makes before it calls move: the new row, or the new
\* column, is below N.  It never excludes UP or LT.
ExpandTest(t, d) == IF d \in {"DN", "UP"} THEN t[1] < N ELSE t[2] < N

\* The test move makes before it allocates the new node.
move_valid(t, d) == CASE d = "DN" -> t[1] < N
                      [] d = "RT" -> t[2] < N
                      [] d = "UP" -> t[1] >= 0
                      [] d = "LT" -> t[2] >= 0

CanMove(b, d) == LET t == Target(Blank(b), d)
                 IN  ExpandTest(t, d) /\ move_valid(t, d)

swap(b, c, t) == [b EXCEPT ![c] = b[t], ![t] = b[c]]

MoveBlank(b, d) == swap(b, Blank(b), Target(Blank(b), d))

\* find_parent takes a move back by swapping the blank with the tile on the
\* other side; the swap is inside the array only if that cell exists.
Origin_Forward(b, d) == Target(Blank(b), d)   \* mutant: the move is made again
Origin(b, d)  == Target(Blank(b), toggle_dir(d))
CanUndo(b, d) == Origin(b, d) \in Cell
Undo(b, d)    == swap(b, Blank(b), Origin(b, d))

\* The boards one move away.
Neighbours(b) == {MoveBlank(b, d) : d \in {e \in Dir : CanMove(b, e)}}

-----------------------------------------------------------------------------
(* The heuristic and the parity test.                                      *)

Abs(x) == IF x < 0 THEN -x ELSE x

Distance(c, e) == Abs(e[1] - c[1]) + Abs(e[2] - c[2])

GoalCell(v) == CHOOSE c \in Cell : GoalBoard[c] = v

\* Manhattan distance of every tile, the blank included: the sum over the
\* cells, counted as the number of unit steps.
find_h(b) ==
  Cardinality({s \in Cell \X (1 .. 2 * N) : s[2] <= Distance(s[1], GoalCell(b[s[1]]))})

\* Reading order of the cells.
Before(c, e) == N * c[1] + c[2] < N * e[1] + e[2]

\* Mutant: the blank is counted, as in the earlier main.txt.
Inversions_Blank(b) ==
  Cardinality({p \in Cell \X Cell : Before(p[1], p[2]) /\ b[p[1]] > b[p[2]]})

\* Pairs of tiles in the wrong order, the blank left out.
Inversions(b) ==
  Cardinality({p \in Cell \X Cell : /\ Before(p[1], p[2])
                                    /\ b[p[1]] > b[p[2]]
                                    /\ b[p[2]] # 0})

\* Mutant: the rule for a board of odd side.
solvable_EvenOnly(b) == Inversions(b) % 2 = 0

\* Odd inversions with the blank on an even row, or even ones with it on an
\* odd row (rows are counted from 0).
solvable(b) == Inversions(b) % 2 # Blank(b)[1] % 2
=============================================================================
