--------------------------- MODULE ScatterPromise ---------------------------
(***************************************************************************)
(* What a program may rely on when every process calls MPI_Scatter: nobody  *)
(* returns before the root has called, and everybody returns with its own   *)
(* slice.  Whether the root waits for the others is left open.              *)
(***************************************************************************)
EXTENDS Integers

CONSTANT Sizes
VARIABLES size, root,
          called, returned,   \* the processes that have called, and returned
          rbuf                \* what each process has returned with

vars == <<size, root, called, returned, rbuf>>

Nothing == -1
Rank == 0 .. (size - 1)

Init == /\ size \in Sizes
        /\ root \in Rank
        /\ called = {}
        /\ returned = {}
        /\ rbuf = [r \in Rank |-> Nothing]

Call(r) == /\ r \notin called
           /\ called' = called \cup {r}
           /\ UNCHANGED <<size, root, returned, rbuf>>

Return(r) == /\ r \in called \ returned
             /\ root \in called
             /\ returned' = returned \cup {r}
             /\ rbuf' = [rbuf EXCEPT ![r] = r]
             /\ UNCHANGED <<size, root, called>>

Next == \E r \in Rank : Call(r) \/ Return(r)

Spec == Init /\ [][Next]_vars
=============================================================================
