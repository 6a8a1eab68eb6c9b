------------------------------ MODULE DotProduct ------------------------------
(***************************************************************************)
(* The dot product of hw10/hw10.c over point-to-point messages.  The       *)
(* master fills both vectors and sends every other process its slice of x  *)
(* and then its slice of y under one tag; each process sums its slice and  *)
(* the master collects the sums in rank order.                             *)
(*                                                                         *)
(* A slice is the pair of the vector it was cut from and the rank it was   *)
(* cut for.  MPI delivers the messages between two processes in order; a   *)
(* standard send may be buffered (eager) or may wait for the receive, and  *)
(* the library decides by the size of the message.                         *)
(***************************************************************************)
EXTENDS Integers, Sequences

CONSTANTS NProcs,    \* the number of processes
          NELMS,     \* the length of the arrays
          Ns         \* the lengths asked for on the command line

ASSUME NProcsAssumption == NProcs \in Nat /\ NProcs >= 1
ASSUME LengthAssumption == NELMS \in Nat /\ Ns \subseteq Nat

Rank    == 0 .. (NProcs - 1)
MASTER  == 0
Workers == 1 .. (NProcs - 1)

VARIABLES
  n,         \* the length of the vectors
  eager,     \* the kinds of messages that the library buffers
  pc,        \* where each process is
  i,         \* the loop variable of the master
  down, up,  \* messages to and from each worker
  x, y,      \* what each process holds where its slice of a vector goes
  prod,      \* the sum of each process, as the set of products added
  printed    \* the sum printed by the master

vars == <<n, eager, pc, i, down, up, x, y, prod, printed>>

size == n \div NProcs

\* Mutant: the loop ends one element early.
Products_Short(sx, sy) ==
  {<<<<sx[1], sx[2] * size + k>>, <<sy[1], sy[2] * size + k>>>> : k \in 0 .. (size - 2)}

\* The products of the elements of slice sx and those of slice sy.
Products(sx, sy) ==
  {<<<<sx[1], sx[2] * size + k>>, <<sy[1], sy[2] * size + k>>>> : k \in 0 .. (size - 1)}

Init == /\ n \in Ns
        /\ eager \in SUBSET {"slice", "prod"}
        /\ pc = [p \in Rank |-> "start"]
        /\ i = 1
        /\ down = [p \in Workers |-> <<>>] /\ up = [p \in Workers |-> <<>>]
        /\ x = [p \in Rank |-> <<"garbage", p>>]
        /\ y = [p \in Rank |-> <<"garbage", p>>]
        /\ prod = [p \in Rank |-> {}]
        /\ printed = {}

Goto(p, l) == pc' = [pc EXCEPT ![p] = l]

\* A vector longer than the arrays is refused by every process.
Refuse(p) == /\ pc[p] = "start"
             /\ n > NELMS
             /\ Goto(p, "exit")
             /\ UNCHANGED <<n, eager, i, down, up, x, y, prod, printed>>

\* Mutant: the master collects before it has sent anything.
BeginMaster_Collects == /\ pc[MASTER] = "start"
                        /\ n <= NELMS
                        /\ x' = [x EXCEPT ![MASTER] = <<"x", MASTER>>]
                        /\ y' = [y EXCEPT ![MASTER] = <<"y", MASTER>>]
                        /\ Goto(MASTER, IF i < NProcs THEN "collect" ELSE "dot")
                        /\ UNCHANGED <<n, eager, i, down, up, prod, printed>>

\* init_lst fills the vectors of the master, its own slice with them.
BeginMaster == /\ pc[MASTER] = "start"
               /\ n <= NELMS
               /\ x' = [x EXCEPT ![MASTER] = <<"x", MASTER>>]
               /\ y' = [y EXCEPT ![MASTER] = <<"y", MASTER>>]
               /\ Goto(MASTER, IF i < NProcs THEN "sendX" ELSE "dot")
               /\ UNCHANGED <<n, eager, i, down, up, prod, printed>>

BeginWorker(p) == /\ pc[p] = "start"
                  /\ n <= NELMS
                  /\ Goto(p, "recvX")
                  /\ UNCHANGED <<n, eager, i, down, up, x, y, prod, printed>>

\* A message below the limit of the transport is copied and leaves; a longer one
\* waits for the receive it matches.  Which it is depends on n and the transport.
SliceMayGo(p) ==
  "slice" \in eager \/ (pc[p] \in {"recvX", "recvY"} /\ down[p] = <<>>)

\* Mutant: the vector not changed in the copy of the send.
SendX_Y == /\ pc[MASTER] = "sendX"
           /\ SliceMayGo(i)
           /\ down' = [down EXCEPT ![i] = Append(@, <<"y", i>>)]
           /\ Goto(MASTER, "sendY")
           /\ UNCHANGED <<n, eager, i, up, x, y, prod, printed>>

SendX == /\ pc[MASTER] = "sendX"
         /\ SliceMayGo(i)
         /\ down' = [down EXCEPT ![i] = Append(@, <<"x", i>>)]
         /\ Goto(MASTER, "sendY")
         /\ UNCHANGED <<n, eager, i, up, x, y, prod, printed>>

SendY == /\ pc[MASTER] = "sendY"
         /\ SliceMayGo(i)
         /\ down' = [down EXCEPT ![i] = Append(@, <<"y", i>>)]
         /\ i' = i + 1
         /\ Goto(MASTER, IF i + 1 < NProcs THEN "sendX" ELSE "dot")
         /\ UNCHANGED <<n, eager, up, x, y, prod, printed>>

RecvX(p) == /\ pc[p] = "recvX"
            /\ down[p] # <<>>
            /\ x' = [x EXCEPT ![p] = Head(down[p])]
            /\ down' = [down EXCEPT ![p] = Tail(@)]
            /\ Goto(p, "recvY")
            /\ UNCHANGED <<n, eager, i, up, y, prod, printed>>

RecvY(p) == /\ pc[p] = "recvY"
            /\ down[p] # <<>>
            /\ y' = [y EXCEPT ![p] = Head(down[p])]
            /\ down' = [down EXCEPT ![p] = Tail(@)]
            /\ Goto(p, "dot")
            /\ UNCHANGED <<n, eager, i, up, x, prod, printed>>

\* The local sum; the master then starts its second loop at 1 again.
dot_product(p) == /\ pc[p] = "dot"
                  /\ prod' = [prod EXCEPT ![p] = Products(x[p], y[p])]
                  /\ Goto(p, IF p # MASTER THEN "send"
                             ELSE IF 1 < NProcs THEN "collect" ELSE "print")
                  /\ i' = IF p = MASTER THEN 1 ELSE i
                  /\ UNCHANGED <<n, eager, down, up, x, y, printed>>

SendProd(p) == /\ pc[p] = "send"
               /\ "prod" \in eager \/ (pc[MASTER] = "collect" /\ i = p)
               /\ up' = [up EXCEPT ![p] = Append(@, prod[p])]
               /\ Goto(p, "done")
               /\ UNCHANGED <<n, eager, i, down, x, y, prod, printed>>

\* Mutants: the last rank is left out; the sum is assigned, not added.
Collect_Early == /\ pc[MASTER] = "collect"
                 /\ up[i] # <<>>
                 /\ prod' = [prod EXCEPT ![MASTER] = @ \cup Head(up[i])]
                 /\ up' = [up EXCEPT ![i] = Tail(@)]
                 /\ i' = i + 1
                 /\ Goto(MASTER, IF i + 2 < NProcs THEN "collect" ELSE "print")
                 /\ UNCHANGED <<n, eager, down, x, y, printed>>

Collect_Assigns == /\ pc[MASTER] = "collect"
                   /\ up[i] # <<>>
                   /\ prod' = [prod EXCEPT ![MASTER] = Head(up[i])]
                   /\ up' = [up EXCEPT ![i] = Tail(@)]
                   /\ i' = i + 1
                   /\ Goto(MASTER, IF i + 1 < NProcs THEN "collect" ELSE "print")
                   /\ UNCHANGED <<n, eager, down, x, y, printed>>

\* The master receives from rank i and from no other.
Collect == /\ pc[MASTER] = "collect"
           /\ up[i] # <<>>
           /\ prod' = [prod EXCEPT ![MASTER] = @ \cup Head(up[i])]
           /\ up' = [up EXCEPT ![i] = Tail(@)]
           /\ i' = i + 1
           /\ Goto(MASTER, IF i + 1 < NProcs THEN "collect" ELSE "print")
           /\ UNCHANGED <<n, eager, down, x, y, printed>>

PrintSum == /\ pc[MASTER] = "print"
            /\ printed' = prod[MASTER]
            /\ Goto(MASTER, "done")
            /\ UNCHANGED <<n, eager, i, down, up, x, y, prod>>

Stopped == /\ \A p \in Rank : pc[p] \in {"exit", "done"}
           /\ UNCHANGED vars

MasterStep  == Refuse(MASTER) \/ BeginMaster \/ SendX \/ SendY \/ dot_product(MASTER)
               \/ Collect \/ PrintSum

WorkerStep(p) == Refuse(p) \/ BeginWorker(p) \/ RecvX(p) \/ RecvY(p) \/ dot_product(p)
                 \/ SendProd(p)

Next == MasterStep \/ (\E p \in Workers : WorkerStep(p)) \/ Stopped

Spec == Init /\ [][Next]_vars

\* Every process keeps running as long as MPI lets it.
FairSpec == Spec /\ WF_vars(MasterStep) /\ \A p \in Workers : WF_vars(WorkerStep(p))

-----------------------------------------------------------------------------
(* Properties.                                                             *)

Location == {"start", "sendX", "sendY", "recvX", "recvY", "dot", "send", "collect", "print",
             "done", "exit"}

SliceOf == {"x", "y", "garbage"} \X Rank

Element == {"x", "y", "garbage"} \X Nat

\* Every variable has its type; no message is sent to a rank beyond the last
\* (hw10.c:43, 57).
TypeOK == /\ n \in Ns
          /\ eager \subseteq {"slice", "prod"}
          /\ pc \in [Rank -> Location]
          /\ i \in 1 .. NProcs
          /\ pc[MASTER] \in {"sendX", "sendY", "collect"} => i \in Workers
          /\ down \in [Workers -> Seq(SliceOf)]
          /\ up \in [Workers -> Seq(SUBSET (Element \X Element))]
          /\ x \in [Rank -> SliceOf] /\ y \in [Rank -> SliceOf]
          /\ prod \in [Rank -> SUBSET (Element \X Element)]
          /\ printed \subseteq Element \X Element

\* The ranks whose sums the master has added.
Added == CASE pc[MASTER] = "collect" -> 0 .. (i - 1)
           [] pc[MASTER] \in {"print", "done"} -> Rank
           [] OTHER -> {}

PS == INSTANCE PartialSums WITH added <- Added, total <- prod[MASTER], answer <- printed

\* The slices of x and of y, sent under the same tag 123 (hw10.c:44, 45),
\* end up each in its vector and at the rank they were cut for.
OwnSlices ==
  \A p \in Rank : pc[p] \in {"dot", "send", "collect", "print", "done"} =>
    x[p] = <<"x", p>> /\ y[p] = <<"y", p>>

\* The sum printed is that of the products of equal index below nprocs * size,
\* whatever the order in which the processes ran: the last n % nprocs
\* elements (hw10.c:34) are left out.
SumIsExact ==
  pc[MASTER] = "done" =>
    printed = {PS!Product(j) : j \in 0 .. (NProcs * size - 1)}

\* No product is added twice.
AddedOnce ==
  pc[MASTER] = "collect" /\ up[i] # <<>> => Head(up[i]) \cap prod[MASTER] = {}

\* Every message sent is received before the processes end.
NoMessageLeft ==
  (\A p \in Rank : pc[p] \in {"done", "exit"}) =>
    \A p \in Workers : down[p] = <<>> /\ up[p] = <<>>

\* The program adds each slice once and answers when all are in.
ImplementsPartialSums == PS!Spec

\* Every process ends, whatever the library buffers.
Termination == <>(\A p \in Rank : pc[p] \in {"done", "exit"})
=============================================================================
