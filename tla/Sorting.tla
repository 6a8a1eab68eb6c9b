------------------------------- MODULE Sorting -------------------------------
(***************************************************************************)
(* What the sorts of hw6 promise: the array is rearranged, never losing or *)
(* doubling a value, and is in order when the sort ends.                   *)
(***************************************************************************)
EXTENDS Integers, FiniteSets

VARIABLES list, done

vars == <<list, done>>

Occurrences(v, l) == Cardinality({k \in DOMAIN l : l[k] = v})

SameValues(l, m) == /\ DOMAIN l = DOMAIN m
                    /\ \A k \in DOMAIN l : Occurrences(l[k], l) = Occurrences(l[k], m)

\* What self_check looks for.
InOrder(l) == \A j, k \in DOMAIN l : j < k => l[j] <= l[k]

Init == done = FALSE

Rearrange == /\ ~done
             /\ SameValues(list, list')
             /\ UNCHANGED done

Finish == /\ InOrder(list)
          /\ done' = TRUE
          /\ UNCHANGED list

Next == Rearrange \/ Finish

Spec == Init /\ [][Next]_vars
=============================================================================
