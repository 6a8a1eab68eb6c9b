-------------------------- MODULE DotProductScatter --------------------------
(***************************************************************************)
(* The dot product of hw10/hw10_scatter.c over collective operations: the  *)
(* vectors are scattered one after the other, every process sums its       *)
(* slice, and the sums are gathered in the array lst_prod of the master.   *)
(*                                                                         *)
(* A process is at "scatterX", "scatterY" or "gather" from the moment it   *)
(* calls the operation until the call returns.  A call returns when its    *)
(* process has what it waits for: a process that only sends may return     *)
(* before anyone has received, if the library buffers the message, or wait *)
(* for all the others to call.                                             *)
(***************************************************************************)
EXTENDS Integers, FiniteSets

CONSTANTS NProcs,    \* the number of processes
          NELMS,     \* the length of the vectors' arrays
          NLst,      \* the length of the array lst_prod
          Ns         \* the lengths asked for on the command line

ASSUME NProcsAssumption == NProcs \in Nat /\ NProcs >= 1
ASSUME LengthAssumption == NELMS \in Nat /\ Ns \subseteq Nat

\* The program does not check this: MPI_Gather writes one sum per process.
ASSUME LstAssumption == NLst \in Nat /\ NProcs <= NLst

Rank    == 0 .. (NProcs - 1)
MASTER  == 0
Workers == 1 .. (NProcs - 1)

VARIABLES
  n,         \* the length of the vectors
  eager,     \* the kinds of messages that the library buffers
  pc,        \* where each process is
  i,         \* the loop variable of the master
  x, y,      \* what each process holds where its slice of a vector goes
  prod,      \* the sum of each process, as the set of products added
  lst_prod,  \* the sums gathered by the master, Garbage where none came
  printed    \* the sum printed by the master

vars == <<n, eager, pc, i, x, y, prod, lst_prod, printed>>

portion == n \div NProcs

\* Mutant: the slice of a process ends one element too far.
Products_Long(sx, sy) ==
  {<<<<sx[1], sx[2] * portion + k>>, <<sy[1], sy[2] * portion + k>>>> : k \in 0 .. portion}

\* The products of the elements of slice sx and those of slice sy.
Products(sx, sy) ==
  {<<<<sx[1], sx[2] * portion + k>>, <<sy[1], sy[2] * portion + k>>>> : k \in 0 .. (portion - 1)}

\* What is in an element of lst_prod before MPI_Gather.
Garbage == {<<<<"garbage", 0>>, <<"garbage", 0>>>>}

Init == /\ n \in Ns
        /\ eager \in SUBSET {"slice", "prod"}
        /\ pc = [p \in Rank |-> "start"]
        /\ i = 1
        /\ x = [p \in Rank |-> <<"garbage", p>>]
        /\ y = [p \in Rank |-> <<"garbage", p>>]
        /\ prod = [p \in Rank |-> {}]
        /\ lst_prod = [k \in 0 .. (NLst - 1) |-> Garbage]
        /\ printed = {}

Goto(p, l) == pc' = [pc EXCEPT ![p] = l]

\* The statements in their order.
Stage(l) == CASE l \in {"start", "exit"} -> 0
              [] l = "scatterX" -> 1
              [] l = "scatterY" -> 2
              [] l = "dot" -> 3
              [] l = "gather" -> 4
              [] OTHER -> 5

\* p has called the operation l, and has perhaps returned from it.
Called(p, l) == Stage(pc[p]) >= Stage(l)

\* A vector longer than the arrays is refused by every process.
Refuse(p) == /\ pc[p] = "start"
             /\ n > NELMS
             /\ Goto(p, "exit")
             /\ UNCHANGED <<n, eager, i, x, y, prod, lst_prod, printed>>

\* init_lst fills the vectors of the master; then everyone calls MPI_Scatter.
BeginMaster == /\ pc[MASTER] = "start"
               /\ n <= NELMS
               /\ x' = [x EXCEPT ![MASTER] = <<"x", MASTER>>]
               /\ y' = [y EXCEPT ![MASTER] = <<"y", MASTER>>]
               /\ Goto(MASTER, "scatterX")
               /\ UNCHANGED <<n, eager, i, prod, lst_prod, printed>>

\* Mutant: only the master tests the length.
BeginWorker_NoTest(p) == /\ pc[p] = "start"
                         /\ Goto(p, "scatterX")
                         /\ UNCHANGED <<n, eager, i, x, y, prod, lst_prod, printed>>

BeginWorker(p) == /\ pc[p] = "start"
                  /\ n <= NELMS
                  /\ Goto(p, "scatterX")
                  /\ UNCHANGED <<n, eager, i, x, y, prod, lst_prod, printed>>

\* The root has the slices of the others to send, the others wait for theirs.
\* That is Open MPI's linear scatter, but for the order in which the slices
\* arrive; its tree of BinomialScatter lets nobody return who may not return
\* here when sends are buffered.  Slice p of the vector of the root goes to
\* process p, the root included.
ScatterReturns(p, l) == IF p = MASTER THEN "slice" \in eager \/ \A q \in Rank : Called(q, l)
                                      ELSE Called(MASTER, l)

ScatterX(p) == /\ pc[p] = "scatterX"
               /\ ScatterReturns(p, "scatterX")
               /\ x' = [x EXCEPT ![p] = <<x[MASTER][1], p>>]
               /\ Goto(p, "scatterY")
               /\ UNCHANGED <<n, eager, i, y, prod, lst_prod, printed>>

ScatterY(p) == /\ pc[p] = "scatterY"
               /\ ScatterReturns(p, "scatterY")
               /\ y' = [y EXCEPT ![p] = <<y[MASTER][1], p>>]
               /\ Goto(p, "dot")
               /\ UNCHANGED <<n, eager, i, x, prod, lst_prod, printed>>

dot_product(p) == /\ pc[p] = "dot"
                  /\ prod' = [prod EXCEPT ![p] = Products(x[p], y[p])]
                  /\ Goto(p, "gather")
                  /\ UNCHANGED <<n, eager, i, x, y, lst_prod, printed>>

\* A worker has its sum to send; the master waits for all of them.
GatherWorker(p) == /\ pc[p] = "gather"
                   /\ "prod" \in eager \/ Called(MASTER, "gather")
                   /\ Goto(p, "done")
                   /\ UNCHANGED <<n, eager, i, x, y, prod, lst_prod, printed>>

\* Mutant: the master reads what has come so far.
GatherMaster_NoWait ==
  /\ pc[MASTER] = "gather"
  /\ lst_prod' = [k \in DOMAIN lst_prod |->
                    IF k \in Rank /\ Called(k, "gather") THEN prod[k] ELSE lst_prod[k]]
  /\ Goto(MASTER, IF i < NProcs THEN "sum" ELSE "print")
  /\ UNCHANGED <<n, eager, i, x, y, prod, printed>>

GatherMaster ==
  /\ pc[MASTER] = "gather"
  /\ \A q \in Rank : Called(q, "gather")
  /\ lst_prod' = [k \in DOMAIN lst_prod |-> IF k \in Rank THEN prod[k] ELSE lst_prod[k]]
  /\ Goto(MASTER, IF i < NProcs THEN "sum" ELSE "print")
  /\ UNCHANGED <<n, eager, i, x, y, prod, printed>>

\* Mutant: the loop starts from the sum of the master again.
SumUp_OwnToo == /\ pc[MASTER] = "sum"
                /\ prod' = [prod EXCEPT ![MASTER] = @ \cup lst_prod[i - 1]]
                /\ i' = i + 1
                /\ Goto(MASTER, IF i + 1 < NProcs THEN "sum" ELSE "print")
                /\ UNCHANGED <<n, eager, x, y, lst_prod, printed>>

\* One turn of the loop that adds up lst_prod, from index 1.
SumUp == /\ pc[MASTER] = "sum"
         /\ prod' = [prod EXCEPT ![MASTER] = @ \cup lst_prod[i]]
         /\ i' = i + 1
         /\ Goto(MASTER, IF i + 1 < NProcs THEN "sum" ELSE "print")
         /\ UNCHANGED <<n, eager, x, y, lst_prod, printed>>

PrintSum == /\ pc[MASTER] = "print"
            /\ printed' = prod[MASTER]
            /\ Goto(MASTER, "done")
            /\ UNCHANGED <<n, eager, i, x, y, prod, lst_prod>>

Stopped == /\ \A p \in Rank : pc[p] \in {"exit", "done"}
           /\ UNCHANGED vars

MasterStep == Refuse(MASTER) \/ BeginMaster \/ ScatterX(MASTER) \/ ScatterY(MASTER)
              \/ dot_product(MASTER) \/ GatherMaster \/ SumUp \/ PrintSum

WorkerStep(p) == Refuse(p) \/ BeginWorker(p) \/ ScatterX(p) \/ ScatterY(p) \/ dot_product(p)
                 \/ GatherWorker(p)

Next == MasterStep \/ (\E p \in Workers : WorkerStep(p)) \/ Stopped

Spec == Init /\ [][Next]_vars

\* Every process keeps running as long as MPI lets it.
FairSpec == Spec /\ WF_vars(MasterStep) /\ \A p \in Workers : WF_vars(WorkerStep(p))

-----------------------------------------------------------------------------
(* Properties.                                                             *)

\* The ranks whose sums the master has added.
Added == CASE pc[MASTER] = "gather" -> {MASTER}
           [] pc[MASTER] = "sum" -> 0 .. (i - 1)
           [] pc[MASTER] \in {"print", "done"} -> Rank
           [] OTHER -> {}

PS == INSTANCE PartialSums WITH size <- portion, added <- Added, total <- prod[MASTER],
                                answer <- printed

\* The master adds up sums that have come (hw10_scatter.c:53), never what was
\* in lst_prod before, and none that it has added already.
GatheredBeforeSummed ==
  pc[MASTER] = "sum" => /\ \A k \in i .. (NProcs - 1) : lst_prod[k] = PS!Slice(k, portion)
                        /\ lst_prod[i] \cap prod[MASTER] = {}

\* The sum printed is that of the products of equal index below nprocs * portion.
SumIsExact ==
  pc[MASTER] = "done" => printed = {PS!Product(j) : j \in 0 .. (NProcs * portion - 1)}

\* The program adds each slice once and answers when all are in: the same
\* promise as that of hw10.c.
ImplementsPartialSums == PS!Spec

\* Every process ends, whatever the library buffers.
Termination == <>(\A p \in Rank : pc[p] \in {"done", "exit"})
=============================================================================
