--------------------------- MODULE GatherPromise ---------------------------
(***************************************************************************)
(* What a program may rely on when every process calls MPI_Gather: the root *)
(* returns after all have called, with what each of them gave in the place  *)
(* of its rank.  When the others return is left open.                       *)
(***************************************************************************)
EXTENDS Integers

CONSTANT Sizes
VARIABLES size, root,
          called, returned,   \* the processes that have called, and returned
          rbuf                \* what the root has returned with

vars == <<size, root, called, returned, rbuf>>

Nothing == -1
Rank == 0 .. (size - 1)

Init == /\ size \in Sizes
        /\ root \in Rank
        /\ called = {}
        /\ returned = {}
        /\ rbuf = [k \in Rank |-> Nothing]

Call(r) == /\ r \notin called
           /\ called' = called \cup {r}
           /\ UNCHANGED <<size, root, returned, rbuf>>

ReturnRoot == /\ root \notin returned
              /\ called = Rank
              /\ returned' = returned \cup {root}
              /\ rbuf' = [k \in Rank |-> k]
              /\ UNCHANGED <<size, root, called>>

Return(r) == /\ r \in called \ returned
             /\ r # root
             /\ returned' = returned \cup {r}
             /\ UNCHANGED <<size, root, called, rbuf>>

Next == ReturnRoot \/ \E r \in Rank : Call(r) \/ Return(r)

Spec == Init /\ [][Next]_vars
=============================================================================
