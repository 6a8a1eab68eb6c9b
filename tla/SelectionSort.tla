---------------------------- MODULE SelectionSort ----------------------------
(***************************************************************************)
(* selection_sort of hw6/hw6.c: the least of the rest is exchanged with its *)
(* first element, n - 1 times.                                             *)
(***************************************************************************)
EXTENDS Integers, FiniteSets

CONSTANTS MaxLen, Values   \* as in MergeSort

VARIABLES list, i, j, min, pc

vars == <<list, i, j, min, pc>>

n == Cardinality(DOMAIN list)

\* The loops as they start.
Init == /\ \E len \in 0 .. MaxLen : list \in [0 .. (len - 1) -> Values]
        /\ i = 0 /\ j = 1 /\ min = 0
        /\ pc = "scan"

Least(k) == IF list[k] < list[min] THEN k ELSE min

Scan == /\ pc = "scan" /\ i < n - 1 /\ j < n
        /\ min' = Least(j)
        /\ j' = j + 1
        /\ UNCHANGED <<list, i, pc>>

Exchanged(a, b) == [list EXCEPT ![a] = list[b], ![b] = list[a]]

\* min is compared with j, which is n by now, so that the exchange is always
\* made, also of an element with itself.
Swap == /\ pc = "scan" /\ i < n - 1 /\ j = n
        /\ list' = IF min # j THEN Exchanged(i, min) ELSE list
        /\ i' = i + 1 /\ j' = i + 2 /\ min' = i + 1
        /\ UNCHANGED pc

Finish == /\ pc = "scan" /\ i >= n - 1
          /\ pc' = "done"
          /\ UNCHANGED <<list, i, j, min>>

Again == /\ pc = "done"
         /\ i' = 0 /\ j' = 1 /\ min' = 0
         /\ pc' = "scan"
         /\ UNCHANGED list

Next == Scan \/ Swap \/ Finish

-----------------------------------------------------------------------------
(* Properties.                                                             *)

\* The elements before i are the least of the array, in order, and min is a
\* place of the least of those scanned (hw6.c:87-98).
LeastFirst ==
  /\ \A k \in 0 .. (i - 1), l \in DOMAIN list : k < l => list[k] <= list[l]
  /\ i < n - 1 => min \in i .. (j - 1) /\ \A k \in i .. (j - 1) : list[min] <= list[k]
=============================================================================
