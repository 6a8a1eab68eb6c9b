------------------------------- MODULE Fifteen -------------------------------
(***************************************************************************)
(* The fifteen puzzle solver of main.c: the parity test, the search loop   *)
(* with its open and closed lists under every strategy, and the walk back  *)
(* from the node it stops at (find_path).  A linked list is the sequence   *)
(* of its nodes.  "pc" names the statement of main that comes next.        *)
(***************************************************************************)
EXTENDS Puzzle, Sequences

CONSTANTS Starts,      \* the boards given on the command line
          Strategies,  \* the strategy words given there
          MaxPath,     \* MAX_PATH, the size of the array path
          MaxClosed,   \* bound of the model: no board is expanded once closed
                       \* holds that many
          NULL

\* "unknown" stands for every word that is not one of the other five.
Strategy == {"dfs", "bfs", "best", "bb", "astar", "unknown"}

\* A node: its board and the four values of its extra row.
Node == [board : Board, f : Nat, g : Nat, h : Nat, dir : Dir]

ASSUME StartsAssumption     == Starts \subseteq Board
ASSUME StrategiesAssumption == Strategies \subseteq Strategy
ASSUME MaxPathAssumption    == MaxPath \in Nat /\ MaxPath >= 1
ASSUME MaxClosedAssumption  == MaxClosed \in Nat
ASSUME NullAssumption       == NULL \notin Node

VARIABLES
  strategy, start,   \* the arguments; start is the board of the start node
  open, closed,      \* the two lists
  cp, succ,          \* the node in hand and the list of its new successors
  todo,              \* positions of succ that merge has not yet linked in
  leaf,              \* the board find_path was called with
  path,              \* the array path, up to path_cnt
  outcome,           \* how the search ended
  pc

args   == <<strategy, start>>
search == <<open, succ, todo>>
vars   == <<strategy, start, open, closed, cp, succ, todo, leaf, path, outcome, pc>>

Boards(s) == {s[i].board : i \in DOMAIN s}

-----------------------------------------------------------------------------
(* Lists of nodes.                                                         *)

StartNode(b) == [board |-> b, f |-> 0, g |-> 0, h |-> 0, dir |-> "DN"]

\* Mutant: the extra row of the parent is copied with its board.
move_ParentRow(n, d) == [n EXCEPT !.board = MoveBlank(n.board, d)]

\* Only the two informed strategies fill in f, g and h.
move(n, d) ==
  LET b == MoveBlank(n.board, d)
      h == find_h(b)
      g == n.g + 1
  IN  IF strategy \in {"astar", "best"}
        THEN [board |-> b, f |-> g + h, g |-> g, h |-> h, dir |-> d]
        ELSE [board |-> b, f |-> 0, g |-> 0, h |-> 0, dir |-> d]

Moved(n, d) == IF CanMove(n.board, d) THEN <<move(n, d)>> ELSE <<>>

\* Mutant: the moves tried in the other order.
expand_LeftFirst(n) == Moved(n, "LT") \o Moved(n, "UP") \o Moved(n, "RT") \o Moved(n, "DN")

expand(n) == Moved(n, "DN") \o Moved(n, "RT") \o Moved(n, "UP") \o Moved(n, "LT")

\* filter drops the successors whose board is in the list hp and keeps the
\* order of the others; a list of successors has at most BF = 4 nodes.
\* Mutant: a successor is compared with the first node of the list only.
Kept_Head(s, i, hp) ==
  IF i \in DOMAIN s /\ (hp = <<>> \/ s[i].board # hp[1].board) THEN <<s[i]>> ELSE <<>>

Kept(s, i, hp) == IF i \in DOMAIN s /\ s[i].board \notin Boards(hp) THEN <<s[i]>> ELSE <<>>

filter(s, hp) == Kept(s, 1, hp) \o Kept(s, 2, hp) \o Kept(s, 3, hp) \o Kept(s, 4, hp)

\* tp in front of sp, and tp behind sp.
prepend(tp, sp) == tp \o sp
append(tp, sp)  == sp \o tp

goal_found(n) == n.board = GoalBoard

\* The value merge_smart sorts on: f for every strategy but best first.
Key(n) == IF strategy = "best" THEN n.h ELSE n.f

\* Mutant: a strict comparison with max_f.
LastOfGreatest_First(i) ==
  \A j \in todo : Key(succ[j]) < Key(succ[i]) \/ (Key(succ[j]) = Key(succ[i]) /\ i <= j)

\* The last of the nodes with the greatest key among those still in succ.
LastOfGreatest(i) ==
  \A j \in todo : Key(succ[j]) < Key(succ[i]) \/ (Key(succ[j]) = Key(succ[i]) /\ j <= i)

-----------------------------------------------------------------------------
(* The program.                                                            *)

Init == /\ strategy \in Strategies
        /\ start \in Starts
        /\ open = <<>> /\ closed = <<>> /\ succ = <<>> /\ todo = {}
        /\ cp = NULL
        /\ leaf = start
        /\ path = <<>>
        /\ outcome = "searching"
        /\ pc = "solvable"

Accept == /\ pc = "solvable"
          /\ solvable(start)
          /\ open' = <<StartNode(start)>>
          /\ pc' = "goal"
          /\ UNCHANGED <<args, closed, cp, succ, todo, leaf, path, outcome>>

\* main returns 1.
Reject == /\ pc = "solvable"
          /\ ~solvable(start)
          /\ outcome' = "rejected"
          /\ pc' = "done"
          /\ UNCHANGED <<args, search, closed, cp, leaf, path>>

StartIsGoal == /\ pc = "goal"
               /\ goal_found(StartNode(start))
               /\ cp' = StartNode(start)
               /\ outcome' = "found"
               /\ pc' = "done"
               /\ UNCHANGED <<args, search, closed, leaf, path>>

StartSearch == /\ pc = "goal"
               /\ ~goal_found(StartNode(start))
               /\ cp' = NULL
               /\ pc' = "loop"
               /\ UNCHANGED <<args, search, closed, leaf, path, outcome>>

\* Mutant: the successors are compared with open only.
Expand_NoClosed ==
  /\ pc = "loop"
  /\ Len(closed) < MaxClosed
  /\ cp' = Head(open)
  /\ open' = Tail(open)
  /\ succ' = filter(expand(Head(open)), Tail(open))
  /\ todo' = DOMAIN succ'
  /\ pc' = IF succ' = <<>> THEN "close" ELSE "merge"
  /\ UNCHANGED <<args, closed, leaf, path, outcome>>

\* One turn of the loop up to the filtered list of successors.
Expand ==
  /\ pc = "loop"
  /\ Len(closed) < MaxClosed
  /\ cp' = Head(open)
  /\ open' = Tail(open)
  /\ succ' = filter(filter(expand(Head(open)), Tail(open)), closed)
  /\ todo' = DOMAIN succ'
  /\ pc' = IF succ' = <<>> THEN "close" ELSE "merge"
  /\ UNCHANGED <<args, closed, leaf, path, outcome>>

\* Mutant: prepend links open behind the first successor.
MergeFront_FirstOnly == /\ pc = "merge"
                        /\ strategy = "dfs"
                        /\ open' = <<succ[1]>> \o open
                        /\ todo' = {}
                        /\ pc' = "close"
                        /\ UNCHANGED <<args, closed, cp, succ, leaf, path, outcome>>

MergeFront == /\ pc = "merge"
              /\ strategy = "dfs"
              /\ open' = prepend(succ, open)
              /\ todo' = {}
              /\ pc' = "close"
              /\ UNCHANGED <<args, closed, cp, succ, leaf, path, outcome>>

\* Mutants: breadth first prepends; append forgets the list it appends to.
MergeBack_AtFront == /\ pc = "merge"
                     /\ strategy = "bfs"
                     /\ open' = succ \o open
                     /\ todo' = {}
                     /\ pc' = "close"
                     /\ UNCHANGED <<args, closed, cp, succ, leaf, path, outcome>>

MergeBack_Forgets == /\ pc = "merge"
                     /\ strategy = "bfs"
                     /\ open' = succ
                     /\ todo' = {}
                     /\ pc' = "close"
                     /\ UNCHANGED <<args, closed, cp, succ, leaf, path, outcome>>

MergeBack == /\ pc = "merge"
             /\ strategy = "bfs"
             /\ open' = append(succ, open)
             /\ todo' = {}
             /\ pc' = "close"
             /\ UNCHANGED <<args, closed, cp, succ, leaf, path, outcome>>

\* One turn of merge_smart: the last of the greatest goes to the head of open.
MergeSmart == /\ pc = "merge"
              /\ strategy \notin {"dfs", "bfs"}
              /\ \E i \in todo : /\ LastOfGreatest(i)
                                 /\ open' = prepend(<<succ[i]>>, open)
                                 /\ todo' = todo \ {i}
              /\ pc' = IF todo' = {} THEN "close" ELSE "merge"
              /\ UNCHANGED <<args, closed, cp, succ, leaf, path, outcome>>

\* The end of a turn and the test of the next one.  goal_found looks at the
\* first node of succ alone, and its answer, NULL included, overwrites cp;
\* when open is empty find_path is called with whatever cp holds.
Close ==
  /\ pc = "close"
  /\ closed' = Append(closed, cp)
  /\ IF succ # <<>> /\ goal_found(succ[1])
       THEN /\ cp' = succ[1]
            /\ leaf' = GoalBoard
            /\ outcome' = "found"
            /\ pc' = "path"
       ELSE /\ cp' = IF succ = <<>> THEN cp ELSE NULL
            /\ leaf' = IF open = <<>> THEN cp'.board ELSE leaf
            /\ outcome' = IF open = <<>> THEN "exhausted" ELSE outcome
            /\ pc' = IF open = <<>> THEN "path" ELSE "loop"
  /\ UNCHANGED <<args, search, path>>

\* find_parent changes the node in hand in place: its board goes back one
\* move and the extra row is copied from the first node of closed with that
\* board.  (A goal that was found is also a node of open, which nothing reads
\* any more: the model leaves open as the loop left it.)  After a search that found nothing the node in hand is itself the
\* last node of closed, and the list is read with its board already changed.
Undone(b) == IF outcome = "exhausted" THEN [closed EXCEPT ![Len(closed)].board = b]
                                      ELSE closed

IsFirstMatch(cl, b, j) ==
  /\ j \in DOMAIN cl
  /\ cl[j].board = b
  /\ \A i \in DOMAIN cl : cl[i].board = b => j <= i

\* Mutant: the bound tested one entry too late.
PathFull_OneMore(p) == Len(p) > MaxPath

PathFull(p) == Len(p) >= MaxPath

FindParent ==
  /\ pc = "path"
  /\ cp.board # start
  /\ LET b  == Undo(cp.board, cp.dir)
         cl == Undone(b)
     IN  /\ cp' = cl[CHOOSE j \in DOMAIN cl : IsFirstMatch(cl, b, j)]
         /\ closed' = IF outcome = "exhausted" THEN [cl EXCEPT ![Len(cl)] = cp'] ELSE cl
  /\ path' = Append(path, cp.dir)
  /\ pc' = IF PathFull(path') THEN "done" ELSE "path"
  /\ UNCHANGED <<args, search, leaf, outcome>>

\* find_path is back at the start and prints the path.
PathEnds == /\ pc = "path"
            /\ cp.board = start
            /\ pc' = "done"
            /\ UNCHANGED <<args, search, closed, cp, leaf, path, outcome>>

\* Mutant: the array is written from its first entry.
Printed_Forward == path

\* print_path writes the array from its last entry to its first.
Printed == [k \in 1 .. Len(path) |-> path[Len(path) + 1 - k]]

Stopped == /\ \/ pc = "done"
              \/ pc = "loop" /\ Len(closed) >= MaxClosed
           /\ UNCHANGED vars

Next == \/ Accept \/ Reject \/ StartIsGoal \/ StartSearch
        \/ Expand \/ MergeFront \/ MergeBack \/ MergeSmart \/ Close
        \/ FindParent \/ PathEnds
        \/ Stopped

Spec == Init /\ [][Next]_vars

\* One thread that only ever computes: it keeps going.
FairSpec == Spec /\ WF_vars(Next)

-----------------------------------------------------------------------------
(* Properties.                                                             *)

\* cp has left open and is not in closed yet.
Holding == pc \in {"merge", "close"}

Looping == pc \in {"loop", "merge", "close"}

\* The successors that merge has not linked into open yet.
Pending == {succ[i].board : i \in todo}

\* Every variable has its type, and the array path never overflows.
TypeOK == /\ strategy \in Strategies
          /\ start \in Starts
          /\ open \in Seq(Node) /\ closed \in Seq(Node) /\ succ \in Seq(Node)
          /\ todo \subseteq DOMAIN succ
          /\ cp \in Node \cup {NULL}
          /\ leaf \in Board
          /\ path \in Seq(Dir) /\ Len(path) <= MaxPath
          /\ outcome \in {"searching", "rejected", "found", "exhausted"}
          /\ pc \in {"solvable", "goal", "loop", "merge", "close", "path", "done"}

Distinct(s) == \A i, j \in DOMAIN s : s[i].board = s[j].board => i = j

\* No board is held twice by the search: the two calls of filter (main.c:112
\* and 113) compare the new boards with open and closed, never with cp or
\* with each other.
NoBoardTwice ==
  Looping =>
    /\ Distinct(open) /\ Distinct(closed)
    /\ \A i, j \in todo : succ[i].board = succ[j].board => i = j
    /\ Boards(open) \cap Boards(closed) = {}
    /\ Pending \cap (Boards(open) \cup Boards(closed)) = {}
    /\ Holding => cp.board \notin Boards(open) \cup Boards(closed) \cup Pending

\* p is the node find_parent must find for n: the board one move back, and
\* under an informed strategy st the g value one less.
IsParent(st, n, p) ==
  /\ CanUndo(n.board, n.dir)
  /\ p.board = Undo(n.board, n.dir)
  /\ st \in {"astar", "best"} => n.g = p.g + 1 /\ n.f = n.g + n.h

\* The part of closed that find_path has not written to.
Intact == IF outcome = "exhausted" THEN 1 .. (Len(closed) - 1) ELSE DOMAIN closed

\* Every node but the start was made from a node that was closed before it:
\* the walk of find_path (main.c:272) goes strictly towards the start.
ParentClosedBefore ==
  /\ \A i \in Intact : \/ closed[i].board = start
                       \/ \E j \in 1 .. (i - 1) : IsParent(strategy, closed[i], closed[j])
  /\ Looping =>
       \A i \in DOMAIN open :
         \/ open[i].board = start
         \/ \E j \in DOMAIN closed : IsParent(strategy, open[i], closed[j])
         \/ Holding /\ IsParent(strategy, open[i], cp)

\* main, find_path and find_parent dereference a node that is there: goal_found
\* has not made cp NULL when open runs empty (main.c:122), open has a head, the
\* undoing swap stays inside the array, and the search in closed does not run
\* off its end (main.c:258 reads closed_p unchecked).
WalkIsSafe ==
  /\ pc = "close" /\ open = <<>> => succ = <<>>
  /\ pc = "loop" => open # <<>>
  /\ pc = "path" =>
       /\ cp # NULL
       /\ cp.board # start => /\ CanUndo(cp.board, cp.dir)
                              /\ \E j \in Intact : closed[j].board = Undo(cp.board, cp.dir)

\* goal_found is called with the list of successors and compares its first
\* node only (main.c:578 says "check if succ list has goal"): no goal is
\* missed, because expand makes the down and the right move first and the
\* goal, with its blank in the last cell, is reached by no other.
GoalInSuccIsFound ==
  [][pc = "close" /\ GoalBoard \in Boards(succ) => outcome' = "found"]_vars

\* What merge leaves in front of open, except under bfs: the successors, by
\* non-decreasing key, those of equal key in the order expand made them.  So
\* bb and any unknown word search as dfs does.
MergedInOrder ==
  pc = "close" /\ strategy # "bfs" =>
    /\ Len(succ) <= Len(open)
    /\ \E pos \in [DOMAIN succ -> DOMAIN succ] :
         /\ \A i \in DOMAIN succ : open[pos[i]] = succ[i]
         /\ \A i, j \in DOMAIN succ :
              \/ Key(succ[i]) < Key(succ[j])
              \/ Key(succ[i]) = Key(succ[j]) /\ i < j
              => pos[i] < pos[j]

\* Every board the search holds has the parity of the goal: the test of
\* solvable is kept by every move.
ParityKept == Looping => \A b \in Boards(open) \cup Boards(closed) : solvable(b)

\* The search as main.c promises it (GraphSearch).  The frontier is open with
\* what merge has still to link in; the visited boards are those of closed
\* and the one in hand, the board find_path started from included.
Frontier == IF pc = "solvable" \/ outcome = "rejected" THEN {start}
                                                        ELSE Boards(open) \cup Pending

Visited == IF outcome = "exhausted"
             THEN {closed[i].board : i \in Intact} \cup {leaf}
             ELSE Boards(closed) \cup (IF Holding THEN {cp.board} ELSE {})

GS == INSTANCE GraphSearch WITH Vertex <- Board, Sources <- Starts, Nbr <- Neighbours,
                                Goal <- GoalBoard, frontier <- Frontier, visited <- Visited

\* The loop implements GraphSearch under every strategy.
ImplementsGraphSearch == GS!Spec

\* The search loses no branch: every neighbour of a board expanded has been
\* expanded or waits in open, and a search that ends without an answer has
\* nothing left to expand.
NothingLost == /\ \A b \in Visited : Neighbours(b) \subseteq Visited \cup Frontier
               /\ outcome = "exhausted" => Frontier = {}

\* The program stops.
Termination == <>(pc = "done")
=============================================================================
