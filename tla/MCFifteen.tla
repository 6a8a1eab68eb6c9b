------------------------------ MODULE MCFifteen ------------------------------
(* Small instances of Fifteen, and the properties stated with a replay of   *)
(* the printed path or with distances, which only TLC evaluates.            *)
EXTENDS Fifteen

CONSTANT Radius     \* starts and distances: at most this many moves

ASSUME RadiusAssumption == Radius \in Nat

\* The boards at most k moves from b.
Ball(b, k) ==
  LET B[i \in 0 .. k] == IF i = 0 THEN {b}
                         ELSE B[i - 1] \cup UNION {Neighbours(x) : x \in B[i - 1]}
  IN  B[k]

\* All boards: for the board of side 2.
AllBoards == Board

\* Boards near the goal and, for each, the same board with two tiles exchanged.
NearBoards == LET near == Ball(GoalBoard, Radius)
                  odd(b) == swap(b, CHOOSE c \in Cell : b[c] = 1, CHOOSE c \in Cell : b[c] = 2)
              IN  near \cup {odd(b) : b \in near}

-----------------------------------------------------------------------------
\* The boards met when the last k moves of the printed path are made from b.
Replay(b, p) ==
  LET B[i \in 0 .. Len(p)] == IF i = 0 THEN b ELSE MoveBlank(B[i - 1], p[i]) IN B

\* The moves collected so far by find_path are legal ones and lead from the
\* board in hand to the board it started from, the goal if it was found; when
\* the array is not full the printed path begins at the start board.
PrintedPathLeadsToLeaf ==
  pc \in {"path", "done"} /\ outcome \in {"found", "exhausted"} =>
    LET B == Replay(cp.board, Printed)
    IN  /\ \A i \in 1 .. Len(path) : CanMove(B[i - 1], Printed[i])
        /\ B[Len(path)] = leaf
        /\ pc = "done" /\ Len(path) < MaxPath => cp.board = start
        /\ outcome = "found" => leaf = GoalBoard

\* Breadth first: no shorter path leads to the board the printed one leads to.
BfsPathIsShortest ==
  pc = "done" /\ strategy = "bfs" /\ path # <<>> => leaf \notin Ball(cp.board, Len(path) - 1)

\* A start that is refused cannot reach the goal.
RefusedIsUnreachable == outcome = "rejected" => start \notin Ball(GoalBoard, Radius)

\* A search that is accepted finds the goal: the parity test lets through
\* only starts that lead to it, and goal_found does not miss it.
SearchFindsGoal == outcome # "exhausted"

-----------------------------------------------------------------------------
(* What a comment of main.c says and the code does not do.                 *)

\* main.c:429 "A* search: sort on f=g+h value": the open list is sorted, so
\* the node expanded is one of least f.
AStarExpandsLeastF ==
  [][pc = "loop" /\ pc' # pc /\ strategy = "astar" =>
       \A i \in DOMAIN open : open[1].f <= open[i].f]_vars
=============================================================================
