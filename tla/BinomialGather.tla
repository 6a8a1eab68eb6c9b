--------------------------- MODULE BinomialGather ---------------------------
(***************************************************************************)
(* MPI_Gather over the binomial tree of BmTree, as Open MPI runs it for     *)
(* hw10_scatter.c when there are more than ten processes                    *)
(* (ompi/mca/coll/base/coll_base_gather.c).  What a process gives is one    *)
(* element, named by its rank; scount and rcount are one element.  A        *)
(* process puts what its children send behind its own element and sends     *)
(* all of it to its parent.                                                 *)
(***************************************************************************)
EXTENDS BmTree

VARIABLES eager,        \* whether a send returns before the message is received
          pc,
          ptmp,         \* what each process has collected, from place 0
          total_recv,   \* the places of it that are taken
          i,            \* the child to receive from, counted from 1
          rbuf,         \* the receive buffer of the root
          wire          \* the message of each process to its parent

vars == <<size, root, eager, pc, ptmp, total_recv, i, rbuf, wire>>

Nothing == -1
NoMessage == <<>>

Init == /\ size \in Sizes
        /\ root \in Rank
        /\ eager \in BOOLEAN
        /\ pc = [r \in Rank |-> "out"]
        /\ ptmp = [r \in Rank |-> [k \in Rank |-> Nothing]]
        /\ total_recv = [r \in Rank |-> 0]
        /\ i = [r \in Rank |-> 1]
        /\ rbuf = [k \in Rank |-> Nothing]
        /\ wire = [r \in Rank |-> NoMessage]

Goto(r, l) == pc' = [pc EXCEPT ![r] = l]

Leaf(r) == vrank(r) % 2 = 1

\* The own element comes first; a leaf has nothing to receive.
Call(r) == /\ pc[r] = "out"
           /\ ptmp' = [ptmp EXCEPT ![r][0] = r]
           /\ total_recv' = [total_recv EXCEPT ![r] = 1]
           /\ Goto(r, IF Leaf(r) THEN "send" ELSE "recv")
           /\ UNCHANGED <<size, root, eager, i, rbuf, wire>>

\* The message of the next child.  Where it goes is computed from what the
\* children before it should have sent, not from what came; what does not fit
\* into the rest of the buffer is an error, which the call returns.
Recv(r) ==
  /\ pc[r] = "recv"
  /\ i[r] <= Len(tree_next(r))
  /\ LET kid == tree_next(r)[i[r]]
         data == wire[kid]
         at == total_recv[r]
     IN  /\ data # NoMessage
         /\ wire' = [wire EXCEPT ![kid] = NoMessage]
         /\ IF at + Len(data) <= size
            THEN /\ ptmp' = [ptmp EXCEPT ![r] =
                               [k \in Rank |-> IF k - at + 1 \in DOMAIN data
                                                 THEN data[k - at + 1] ELSE @[k]]]
                 /\ total_recv' = [total_recv EXCEPT ![r] = @ + Count(r, kid)]
                 /\ i' = [i EXCEPT ![r] = @ + 1]
                 /\ pc' = pc
            ELSE /\ Goto(r, "failed")
                 /\ UNCHANGED <<ptmp, total_recv, i>>
  /\ UNCHANGED <<size, root, eager, rbuf>>

\* Mutant: an inner process sends when the first child has been heard.
HeardAll_First(r) == i[r] > Min({1, Len(tree_next(r))})

HeardAll(r) == i[r] > Len(tree_next(r))

\* tree_prev receives the message: its children are those whose parent it is.
Send(r) == /\ pc[r] = "send" \/ (pc[r] = "recv" /\ r # root /\ HeardAll(r))
           /\ wire' = [wire EXCEPT ![r] = [k \in 1 .. total_recv[r] |-> ptmp[r][k - 1]]]
           /\ Goto(r, IF eager THEN "done" ELSE "wait")
           /\ UNCHANGED <<size, root, eager, ptmp, total_recv, i, rbuf>>

\* A send that is not buffered returns when the message is received.
SendReturns(r) == /\ pc[r] = "wait"
                  /\ wire[r] = NoMessage
                  /\ Goto(r, "done")
                  /\ UNCHANGED <<size, root, eager, ptmp, total_recv, i, rbuf, wire>>

\* Mutant: a root that is not rank 0 leaves the elements where they came.
Unrotated_Not == ptmp[root]

\* From the order of the vranks to that of the ranks.
Unrotated == [k \in Rank |-> IF k >= root THEN ptmp[root][k - root]
                                         ELSE ptmp[root][(size - root) + k]]

ReturnRoot == /\ pc[root] = "recv"
              /\ HeardAll(root)
              /\ rbuf' = Unrotated
              /\ Goto(root, "done")
              /\ UNCHANGED <<size, root, eager, ptmp, total_recv, i, wire>>

Running(r) == Call(r) \/ Recv(r) \/ Send(r) \/ SendReturns(r)

-----------------------------------------------------------------------------
(* Properties.                                                             *)

\* A message is as long as the receiver reckons from the two vranks
\* (coll_base_gather.c:138-142), and holds what the processes below its sender
\* gave: nothing is written over and no gap is left.
MessageIsSubtree ==
  \A r \in Rank : wire[r] # NoMessage => /\ Len(wire[r]) = Count(tree_prev(r), r)
                                         /\ ToSet(wire[r]) = Subtree(r)

P == INSTANCE GatherPromise WITH
       called <- {r \in Rank : pc[r] # "out"},
       returned <- {r \in Rank : pc[r] = "done"}

\* The root returns when all have called, with their elements in the order of
\* the ranks, whatever its own place (coll_base_gather.c:170-181).
ImplementsGatherPromise == P!Spec

AllReturned == \A r \in Rank : pc[r] = "done"
=============================================================================
