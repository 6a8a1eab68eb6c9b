---------------------------- MODULE EarlierSolver ----------------------------
(***************************************************************************)
(* main.txt, the version of the solver before main.c: its parity test counts *)
(* the blank among the tiles, and the start is not compared with the goal.   *)
(* Everything else is that of Fifteen.  As this test lets boards through     *)
(* that cannot reach the goal, searches end with nothing left, and find_path *)
(* walks back from the last node of closed.                                 *)
(***************************************************************************)
EXTENDS MCFifteen

solvable_txt(b) == Inversions_Blank(b) % 2 # Blank(b)[1] % 2

AcceptStart == /\ pc = "solvable"
               /\ solvable_txt(start)
               /\ open' = <<StartNode(start)>>
               /\ pc' = "loop"
               /\ UNCHANGED <<args, closed, cp, succ, todo, leaf, path, outcome>>

RefuseStart == /\ pc = "solvable"
               /\ ~solvable_txt(start)
               /\ outcome' = "rejected"
               /\ pc' = "done"
               /\ UNCHANGED <<args, search, closed, cp, leaf, path>>

NextEarlier == \/ AcceptStart \/ RefuseStart
               \/ Expand \/ MergeFront \/ MergeBack \/ MergeSmart \/ Close
               \/ FindParent \/ PathEnds
               \/ Stopped

SpecEarlier == Init /\ [][NextEarlier]_vars
=============================================================================
