----------------------------- MODULE GraphSearch -----------------------------
(***************************************************************************)
(* What the search loop of main.c promises, whatever the strategy: every   *)
(* vertex is visited at most once, the frontier is exactly the set of      *)
(* neighbours of visited vertices still to visit, and the search stops     *)
(* when the frontier is empty or when the goal has come up.                *)
(***************************************************************************)
CONSTANTS Vertex,      \* the boards
          Sources,     \* those a search may start from
          Nbr(_),      \* the vertices one move away
          Goal         \* the vertex looked for

VARIABLES frontier, visited, outcome

vars == <<frontier, visited, outcome>>

Init == /\ \E v \in Sources : frontier = {v}
        /\ visited = {}
        /\ outcome = "searching"

\* A vertex moves from the frontier to the visited ones and its new
\* neighbours join the frontier.
Visit(v) ==
  /\ outcome = "searching"
  /\ v \in frontier
  /\ visited'  = visited \cup {v}
  /\ frontier' = (frontier \ {v}) \cup (Nbr(v) \ (visited \cup frontier))
  /\ UNCHANGED outcome

\* The start cannot lead to the goal: refused before anything is visited.
Reject == /\ outcome = "searching"
          /\ visited = {}
          /\ outcome' = "rejected"
          /\ UNCHANGED <<frontier, visited>>

Found == /\ outcome = "searching"
         /\ Goal \in frontier
         /\ outcome' = "found"
         /\ UNCHANGED <<frontier, visited>>

Exhausted == /\ outcome = "searching"
             /\ frontier = {}
             /\ outcome' = "exhausted"
             /\ UNCHANGED <<frontier, visited>>

Next == \/ \E v \in frontier : Visit(v)
        \/ Reject
        \/ Found
        \/ Exhausted

Spec == Init /\ [][Next]_vars

-----------------------------------------------------------------------------
TypeOK == /\ frontier \subseteq Vertex
          /\ visited \subseteq Vertex
          /\ outcome \in {"searching", "rejected", "found", "exhausted"}

\* No vertex is visited and still waiting: nothing is expanded twice.
Separate == frontier \cap visited = {}

\* Every neighbour of a visited vertex is visited or waiting: the search
\* loses no branch.
NothingLost == \A v \in visited : Nbr(v) \subseteq visited \cup frontier

\* A search that ends without an answer has visited a set closed under moves.
ExhaustedIsComplete ==
  outcome = "exhausted" => \A v \in visited : Nbr(v) \subseteq visited
=============================================================================
