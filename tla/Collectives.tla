---------------------------- MODULE Collectives ----------------------------
(***************************************************************************)
(* The two collective calls of hw10_scatter.c one after the other over the  *)
(* trees of Open MPI: each process calls MPI_Gather when its MPI_Scatter    *)
(* has returned, while other processes may still be in MPI_Scatter, or not  *)
(* have called it.  The messages of the two calls have different tags, so   *)
(* that a receive of one never takes a message of the other.                *)
(***************************************************************************)
EXTENDS BmTree

VARIABLES eager,                                       \* as in both modules
          spc, sptmp, total_send, si, srbuf, swire,    \* of BinomialScatter
          gpc, gptmp, total_recv, gi, grbuf, gwire     \* of BinomialGather

svars == <<spc, sptmp, total_send, si, srbuf, swire>>
gvars == <<gpc, gptmp, total_recv, gi, grbuf, gwire>>
vars  == <<size, root, eager, svars, gvars>>

S == INSTANCE BinomialScatter WITH
       pc <- spc, ptmp <- sptmp, i <- si, rbuf <- srbuf, wire <- swire
G == INSTANCE BinomialGather WITH
       pc <- gpc, ptmp <- gptmp, i <- gi, rbuf <- grbuf, wire <- gwire

Init == S!Init /\ G!Init

\* A step in MPI_Scatter.
Scatter == (S!CallRoot \/ \E r \in Rank : S!Running(r)) /\ UNCHANGED gvars

\* A step in MPI_Gather, which a process calls after MPI_Scatter.
Gather == /\ \/ G!ReturnRoot
             \/ \E r \in Rank : spc[r] = "done" /\ G!Running(r)
          /\ UNCHANGED svars

Stopped == /\ \A r \in Rank : gpc[r] \in {"done", "failed"}
           /\ UNCHANGED vars

Next == Scatter \/ Gather \/ Stopped

Spec == Init /\ [][Next]_vars

\* Every process keeps running while one can.
FairSpec == Spec /\ WF_vars(Scatter \/ Gather)

-----------------------------------------------------------------------------
(* Properties.                                                             *)

\* Every message holds the slices or elements of one subtree, all of them and
\* nothing else, as sender and receiver reckon from the two vranks
\* (coll_base_scatter.c:141-145, coll_base_gather.c:138-142) and the tree from
\* the bits of the vrank (coll_base_topo.c:436-453).
MessageIsSubtree == S!MessageIsSubtree /\ G!MessageIsSubtree

\* The calls do what ScatterPromise and GatherPromise say, wherever the root is,
\* although a process may be in one call while its parent is in the other.
KeepsPromises == S!ImplementsScatterPromise /\ G!ImplementsGatherPromise

\* Both calls return with success everywhere, whether sends are buffered or wait.
Termination == <>(S!AllReturned /\ G!AllReturned)
=============================================================================
