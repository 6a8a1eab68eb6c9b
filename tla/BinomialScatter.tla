-------------------------- MODULE BinomialScatter --------------------------
(***************************************************************************)
(* MPI_Scatter over a binomial tree, as Open MPI runs it for hw10_scatter.c *)
(* when there are more than ten processes and the slices are short          *)
(* (ompi/mca/coll/base/coll_base_scatter.c).  A slice is one element, named *)
(* by the rank it is for; scount and rcount are one slice.  A process gets  *)
(* all the slices of its subtree from its parent, keeps the first and sends *)
(* the rest on.                                                             *)
(***************************************************************************)
EXTENDS BmTree

VARIABLES eager,        \* whether a send returns before the message is received
          pc,
          ptmp,         \* the buffer of each process that has children
          total_send,   \* the slices of it that are kept or sent
          i,            \* the child to send to, counted from 1
          rbuf,
          wire          \* the message on its way to each process: its sender and its slices

vars == <<size, root, eager, pc, ptmp, total_send, i, rbuf, wire>>

Nothing == -1   \* where no slice was ever stored
NoMessage == <<>>

Init == /\ size \in Sizes
        /\ root \in Rank
        /\ eager \in BOOLEAN
        /\ pc = [r \in Rank |-> "out"]
        /\ ptmp = [r \in Rank |-> <<>>]
        /\ total_send = [r \in Rank |-> 0]
        /\ i = [r \in Rank |-> 1]
        /\ rbuf = [r \in Rank |-> Nothing]
        /\ wire = [r \in Rank |-> NoMessage]

Goto(r, l) == pc' = [pc EXCEPT ![r] = l]

Leaf(r) == vrank(r) % 2 = 1

sbuf == [k \in 1 .. size |-> k - 1]

\* Mutant: a root that is not rank 0 sends from its buffer as it is.
Rotated_Not == sbuf

\* The slices in the order of the vranks.
Rotated == SubSeq(sbuf, root + 1, size) \o SubSeq(sbuf, 1, root)

\* The root keeps its slice at once.
CallRoot == /\ pc[root] = "out"
            /\ ptmp' = [ptmp EXCEPT ![root] = Rotated]
            /\ rbuf' = [rbuf EXCEPT ![root] = Rotated[1]]
            /\ total_send' = [total_send EXCEPT ![root] = 1]
            /\ Goto(root, "send")
            /\ UNCHANGED <<size, root, eager, i, wire>>

Call(r) == /\ pc[r] = "out"
           /\ r # root
           /\ total_send' = [total_send EXCEPT ![r] = IF Leaf(r) THEN @ ELSE 1]
           /\ Goto(r, "recv")
           /\ UNCHANGED <<size, root, eager, ptmp, i, rbuf, wire>>

\* A receive takes a message of the parent and of nobody else.
Arrived(r) == wire[r] # NoMessage /\ wire[r][1] = tree_prev(r)
Slices(r) == wire[r][2]

\* A leaf receives into rbuf, where one slice fits: a longer message is an
\* error, which the call returns.
RecvLeaf(r) == /\ pc[r] = "recv"
               /\ Leaf(r)
               /\ Arrived(r)
               /\ IF Len(Slices(r)) = 1
                  THEN /\ rbuf' = [rbuf EXCEPT ![r] = Slices(r)[1]]
                       /\ Goto(r, "done")
                  ELSE /\ rbuf' = rbuf
                       /\ Goto(r, "failed")
               /\ wire' = [wire EXCEPT ![r] = NoMessage]
               /\ UNCHANGED <<size, root, eager, ptmp, total_send, i>>

RecvInner(r) == /\ pc[r] = "recv"
                /\ ~Leaf(r)
                /\ Arrived(r)
                /\ ptmp' = [ptmp EXCEPT ![r] = Slices(r)]
                /\ rbuf' = [rbuf EXCEPT ![r] = Slices(r)[1]]
                /\ wire' = [wire EXCEPT ![r] = NoMessage]
                /\ Goto(r, "send")
                /\ UNCHANGED <<size, root, eager, total_send, i>>

\* What lies at this place of the buffer of r.
At(r, k) == IF k <= Len(ptmp[r]) THEN ptmp[r][k] ELSE Nothing

\* The next child is sent the slices that follow those sent already.
Send(r) == /\ pc[r] = "send"
           /\ i[r] <= Len(tree_next(r))
           /\ LET kid == tree_next(r)[i[r]]
                  mycount == Count(r, kid)
              IN  /\ wire' = [wire EXCEPT ![kid] = <<r, [k \in 1 .. mycount |-> At(r, total_send[r] + k)]>>]
                  /\ total_send' = [total_send EXCEPT ![r] = @ + mycount]
           /\ Goto(r, IF eager THEN "send" ELSE "wait")
           /\ i' = [i EXCEPT ![r] = @ + 1]
           /\ UNCHANGED <<size, root, eager, ptmp, rbuf>>

\* A send that is not buffered returns when the message is received.
SendReturns(r) == /\ pc[r] = "wait"
                  /\ wire[tree_next(r)[i[r] - 1]] = NoMessage
                  /\ Goto(r, "send")
                  /\ UNCHANGED <<size, root, eager, ptmp, total_send, i, rbuf, wire>>

Return(r) == /\ pc[r] = "send"
             /\ i[r] > Len(tree_next(r))
             /\ Goto(r, "done")
             /\ UNCHANGED <<size, root, eager, ptmp, total_send, i, rbuf, wire>>

Running(r) == Call(r) \/ RecvLeaf(r) \/ RecvInner(r) \/ Send(r) \/ SendReturns(r) \/ Return(r)

-----------------------------------------------------------------------------
(* Properties.                                                             *)

\* A message holds the slices of the processes below the receiver, all of them
\* and nothing else: the sender computes their number from the two vranks
\* (coll_base_scatter.c:141-145), the tree comes from the bits of the vrank
\* (coll_base_topo.c:436-453).
MessageIsSubtree ==
  \A r \in Rank : wire[r] # NoMessage => /\ ToSet(Slices(r)) = Subtree(r)
                                         /\ Len(Slices(r)) = Cardinality(Subtree(r))

P == INSTANCE ScatterPromise WITH
       called <- {r \in Rank : pc[r] # "out"},
       returned <- {r \in Rank : pc[r] = "done"},
       rbuf <- [r \in Rank |-> IF pc[r] = "done" THEN rbuf[r] ELSE Nothing]

\* Nobody returns before the root has called, and everybody with its own slice,
\* whatever the place of the root (coll_base_scatter.c:71-109).
ImplementsScatterPromise == P!Spec

AllReturned == \A r \in Rank : pc[r] = "done"
=============================================================================
