--------------------------- MODULE MCFifteenLists ---------------------------
(* A small instance of FifteenLists.                                        *)
EXTENDS FifteenLists

\* The boards at most three moves from the goal, by an odd number, and one that
\* no moves lead to.
NearBoards == LET next(B) == UNION {Neighbours(b) : b \in B}
                  twin == swap(GoalBoard, CHOOSE c \in Cell : GoalBoard[c] = 1,
                                          CHOOSE c \in Cell : GoalBoard[c] = 2)
              IN  next(next(next({GoalBoard}))) \cup {twin}
=============================================================================
