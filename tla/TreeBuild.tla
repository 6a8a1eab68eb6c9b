------------------------------ MODULE TreeBuild ------------------------------
(***************************************************************************)
(* What hw2/create.sh promises under either order: below the top directory *)
(* every directory down to depth d gets b directories named 1 to b; each   *)
(* is made after the one it lies in, and nothing else is made.  A          *)
(* directory is its path, a sequence of names: the top is named 0 and lies *)
(* in the home directory the script is called from.                        *)
(***************************************************************************)
EXTENDS Naturals, Sequences

VARIABLES d, b,      \* depth and breadth
          dirs       \* the directories that exist

vars == <<d, b, dirs>>

Root == <<>>
Home == <<0, 0>>
Top  == Append(Home, 0)

Above(p) == SubSeq(p, 1, Len(p) - 1)

\* Everything the script makes.
Tree == {Top \o p : p \in UNION {[1 .. k -> 1 .. b] : k \in 0 .. d}}

\* Parts of the tree that an earlier call may have left.
Parts == {P \in SUBSET Tree : \A p \in P \ {Top} : Above(p) \in P}

Init == \E P \in Parts : dirs = {Root, Above(Home), Home} \cup P

Make(p) == /\ p \notin dirs
           /\ Above(p) \in dirs
           /\ dirs' = dirs \cup {p}
           /\ UNCHANGED <<d, b>>

Next == \E p \in Tree : Make(p)

Spec == Init /\ [][Next]_vars
=============================================================================
