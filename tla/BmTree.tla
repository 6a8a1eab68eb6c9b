------------------------------- MODULE BmTree -------------------------------
(***************************************************************************)
(* The in-order binomial tree on which Open MPI's scatter and gather of     *)
(* more than ten processes run (ompi/mca/coll/base/coll_base_topo.c).  A    *)
(* process is known by its rank and, counted from the root, by its vrank.   *)
(***************************************************************************)
EXTENDS Integers, Sequences, FiniteSetsExt, SequencesExt

CONSTANT Sizes   \* the sizes of the communicator

ASSUME SizesAssumption == Sizes \subseteq Nat \ {0}

VARIABLES size, root   \* of the communicator and of the call

Rank == 0 .. (size - 1)

vrank(r) == (r - root + size) % size
rank(v) == (v + root) % size

\* 1, shifted by mask <<= 1.
two[k \in Nat] == IF k = 0 THEN 1 ELSE 2 * two[k - 1]

Masks == {two[k] : k \in 0 .. size} \cap (1 .. (size - 1))

\* vrank ^ mask, for a mask of one bit.
remote(v, mask) == IF (v \div mask) % 2 = 0 THEN v + mask ELSE v - mask

\* The bits of v below this one are clear: the loop that looks for children
\* leaves when it meets the parent.
UpMasks(v) == {mask \in Masks : remote(v, mask) < v}
Reached(v) == LET up == UpMasks(v) IN {mask \in Masks : \A m \in up : mask < m}

Kids(v) == {remote(v, mask) : mask \in Reached(v)} \cap (0 .. (size - 1))

\* The children, nearest first.
tree_next(r) ==
  LET kids == Kids(vrank(r))
      Kid(k) == CHOOSE c \in kids : Cardinality({b \in kids : b <= c}) = k
  IN  [k \in 1 .. Cardinality(kids) |-> rank(Kid(k))]

\* Mutant: the highest bit is cleared.
tree_prev_Highest(r) == IF r = root THEN root ELSE rank(remote(vrank(r), Max(UpMasks(vrank(r)))))

tree_prev(r) == IF r = root THEN root ELSE rank(remote(vrank(r), Min(UpMasks(vrank(r)))))

\* Mutant: the last child is taken to have a full subtree.
Count_Unclipped(r, kid) == vrank(kid) - vrank(r)

\* The slices that go to the child kid of r or come from it, as scatter and
\* gather compute them.
Count(r, kid) == Min({vrank(kid) - vrank(r), size - vrank(kid)})

-----------------------------------------------------------------------------
(* What the tree is for.                                                   *)

\* The ranks from which the parents lead to r.
Subtree(r) ==
  LET leads[v \in Rank] == v = vrank(r) \/ (v > vrank(r) /\ leads[vrank(tree_prev(rank(v)))])
  IN  {q \in Rank : leads[vrank(q)]}
=============================================================================
