----------------------------- MODULE PartialSums -----------------------------
(***************************************************************************)
(* What both MPI programs of hw10 promise: the vectors are cut in as many  *)
(* slices as there are processes, each slice is summed once, in whatever   *)
(* order, and the answer is given once all of them are in.  The sum is     *)
(* kept as the set of products it adds up; a product is the pair of the    *)
(* elements multiplied.                                                    *)
(***************************************************************************)
EXTENDS Integers

CONSTANT NProcs      \* the number of processes

VARIABLES size,      \* the length of a slice
          added,     \* the slices summed so far
          total,     \* the products in the sum
          answer     \* what is printed

vars == <<size, added, total, answer>>

Rank == 0 .. (NProcs - 1)

\* The product of the two elements of index j.
Product(j) == <<<<"x", j>>, <<"y", j>>>>

Slice(r, s) == {Product(j) : j \in (r * s) .. (r * s + s - 1)}

Init == /\ size \in Nat
        /\ added = {} /\ total = {} /\ answer = {}

Add(r) == /\ r \notin added
          /\ added' = added \cup {r}
          /\ total' = total \cup Slice(r, size)
          /\ UNCHANGED <<size, answer>>

Answer == /\ added = Rank
          /\ answer' = total
          /\ UNCHANGED <<size, added, total>>

Next == (\E r \in Rank : Add(r)) \/ Answer

Spec == Init /\ [][Next]_vars
=============================================================================
