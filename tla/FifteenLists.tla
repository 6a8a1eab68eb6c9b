---------------------------- MODULE FifteenLists ----------------------------
(***************************************************************************)
(* The solver of main.c with its linked lists as the code holds them: nodes *)
(* in a heap that point to the next one, filter that frees nodes in the     *)
(* middle of the list it walks, prepend, append and merge_smart that relink *)
(* nodes in place, and find_parent that writes to a node of the lists it    *)
(* reads.  It is shown to implement Fifteen, where a list is a sequence.    *)
(* One action is one turn of an outer loop of the code; a walk along a list *)
(* that changes nothing is part of the action that makes it.               *)
(***************************************************************************)
EXTENDS Puzzle, Sequences

CONSTANTS Starts, Strategies, MaxPath, MaxClosed, NULL   \* as in Fifteen

VARIABLES
  strategy, start,    \* the arguments
  heap,               \* the nodes allocated: address -> its node and next
  open, closed, cp, succ,    \* the pointers of main
  loc,                \* the locals of filter or merge_smart, or NULL
  leaf, path, outcome, pc,   \* as in Fifteen
  made, lastOpen      \* history: the successors left by filter, and open
                      \* before find_path wrote to a node of it

args == <<strategy, start>>
hist == <<made, lastOpen>>
vars == <<strategy, start, heap, open, closed, cp, succ, loc, leaf, path, outcome, pc,
          made, lastOpen>>

-----------------------------------------------------------------------------
(* The heap.                                                               *)

Addr == DOMAIN heap

\* The addresses met from p on; a list that runs into itself has more of them
\* than there are nodes, a dangling pointer ends it.
List(p) ==
  LET W[w \in Seq(Addr)] ==
        LET q == IF w = <<>> THEN p ELSE heap[w[Len(w)]].next
        IN  IF q \in Addr /\ Len(w) <= Cardinality(Addr) THEN W[Append(w, q)] ELSE w
  IN  W[<<>>]

On(p)        == LET L == List(p) IN {L[i] : i \in DOMAIN L}
Nodes(p)     == LET L == List(p) IN [i \in DOMAIN L |-> heap[L[i]].node]
Listed(b, p) == \E a \in On(p) : heap[a].node.board = b

\* The addresses of the next k calls of malloc, which reuses those freed: the
\* least that are free.
Fresh(k) ==
  LET at[i \in 1 .. k] ==
        LET after == IF i = 1 THEN 0 ELSE at[i - 1]
        IN  CHOOSE a \in (after + 1) .. (Cardinality(Addr) + k) :
              a \notin Addr /\ (after + 1) .. (a - 1) \subseteq Addr
  IN  at

SetNext(h, a, p) == [h EXCEPT ![a].next = p]
Free(h, a)       == [c \in DOMAIN h \ {a} |-> h[c]]

\* The heap once q is attached behind the list p, which is not NULL.
Attached(h, p, q) == LET L == List(p) IN SetNext(h, L[Len(L)], q)

-----------------------------------------------------------------------------
(* Fifteen, over the lists held here.                                      *)

Filtering == pc \in {"filterOpen", "filterClosed"}

\* The state of Fifteen that this one stands for.  While filter is at work its
\* list is taken to be what the rest of filter will leave of it.
AbsOpen == IF path # <<>> THEN lastOpen ELSE Nodes(open)
AbsCp   == IF cp = NULL THEN NULL ELSE heap[cp].node

F0 == INSTANCE Fifteen WITH open <- AbsOpen, closed <- Nodes(closed), cp <- AbsCp,
                            succ <- <<>>, todo <- {}, pc <- pc

ASSUME StartsAssumption     == Starts \subseteq Board
ASSUME StrategiesAssumption == Strategies \subseteq F0!Strategy
ASSUME MaxPathAssumption    == MaxPath \in Nat /\ MaxPath >= 1
ASSUME MaxClosedAssumption  == MaxClosed \in Nat
ASSUME NullAssumption       == NULL \notin F0!Node /\ NULL \notin Nat

AbsSucc == IF Filtering THEN F0!filter(F0!filter(Nodes(succ), Nodes(open)), Nodes(closed))
                        ELSE [i \in DOMAIN made |-> made[i].node]

AbsTodo == CASE Filtering     -> DOMAIN AbsSucc
             [] pc = "merge"  -> DOMAIN made
             [] pc = "smart"  -> {i \in DOMAIN made : made[i].addr \in On(loc.succ)}
             [] OTHER         -> {}

AbsPc == IF Filtering \/ pc = "smart" THEN IF AbsTodo = {} THEN "close" ELSE "merge" ELSE pc

F == INSTANCE Fifteen WITH open <- AbsOpen, closed <- Nodes(closed), cp <- AbsCp,
                           succ <- AbsSucc, todo <- AbsTodo, pc <- AbsPc

-----------------------------------------------------------------------------
(* The program.                                                            *)

Init == /\ strategy \in Strategies /\ start \in Starts
        /\ heap = [a \in {1} |-> [node |-> F0!StartNode(start), next |-> NULL]]
        /\ open = NULL /\ closed = NULL /\ cp = NULL /\ succ = NULL
        /\ loc = NULL
        /\ leaf = start /\ path = <<>> /\ outcome = "searching" /\ pc = "solvable"
        /\ made = <<>> /\ lastOpen = <<>>

\* The node of the global pointer start is the first one allocated.
StartBoard == heap[1].node.board

Accept == /\ pc = "solvable" /\ solvable(StartBoard)
          /\ open' = 1
          /\ pc' = "goal"
          /\ UNCHANGED <<args, heap, closed, cp, succ, loc, leaf, path, outcome, hist>>

Reject == /\ pc = "solvable" /\ ~solvable(StartBoard)
          /\ outcome' = "rejected"
          /\ pc' = "done"
          /\ UNCHANGED <<args, heap, open, closed, cp, succ, loc, leaf, path, hist>>

GoalTest == /\ pc = "goal"
            /\ IF StartBoard = GoalBoard
                 THEN cp' = 1 /\ outcome' = "found" /\ pc' = "done"
                 ELSE cp' = NULL /\ pc' = "loop" /\ UNCHANGED outcome
            /\ UNCHANGED <<args, heap, open, closed, succ, loc, leaf, path, hist>>

\* lsp, rsp and sp of filter when it is called with the list p.
FilterCall(p) == [lsp |-> p, rsp |-> p, sp |-> p]

\* The head of open is cut off, and expand links the nodes that move
\* allocates in the order of the moves.
Expand ==
  /\ pc = "loop"
  /\ Len(List(closed)) < MaxClosed
  /\ LET new  == F0!expand(heap[open].node)
         at   == Fresh(Len(new))
         cell(i) == [node |-> new[i], next |-> IF i = Len(new) THEN NULL ELSE at[i + 1]]
         used == {at[i] : i \in DOMAIN at}
     IN  /\ heap' = [a \in Addr \cup used |->
                       IF a \in used THEN cell(CHOOSE i \in DOMAIN at : at[i] = a)
                                     ELSE SetNext(heap, open, NULL)[a]]
         /\ succ' = at[1]
         /\ loc' = FilterCall(at[1])
  /\ cp' = open
  /\ open' = heap[open].next
  /\ pc' = "filterOpen"
  /\ UNCHANGED <<args, closed, leaf, path, outcome, hist>>

\* The list that filter compares with.
hp == IF pc = "filterOpen" THEN open ELSE closed

\* Mutant: the left pointer stays on the first node.
LeftOf_First(l) == l.lsp

LeftOf(l) == IF l.lsp = l.rsp THEN l.lsp ELSE l.rsp

\* A turn of filter that keeps the node.
FilterKeeps ==
  /\ Filtering /\ loc.sp # NULL /\ ~Listed(heap[loc.sp].node.board, hp)
  /\ loc' = [lsp |-> LeftOf(loc), rsp |-> heap[loc.sp].next, sp |-> heap[loc.sp].next]
  /\ UNCHANGED <<args, heap, open, closed, cp, succ, leaf, path, outcome, pc, hist>>

\* Mutant: the node before the one freed is not relinked.
Bypassed_Not(h, lsp, rsp) == h

\* The heap once lsp->next goes round the node rsp.
Bypassed(h, lsp, rsp) == SetNext(h, lsp, h[rsp].next)

\* A turn of filter that drops the node and frees it.
FilterDrops ==
  /\ Filtering /\ loc.sp # NULL /\ Listed(heap[loc.sp].node.board, hp)
  /\ LET next  == heap[loc.sp].next
         first == loc.lsp = loc.rsp
     IN  /\ loc' = [lsp |-> IF first THEN next ELSE loc.lsp, rsp |-> next, sp |-> next]
         /\ succ' = IF first THEN next ELSE succ
         /\ heap' = Free(IF first THEN heap ELSE Bypassed(heap, loc.lsp, loc.rsp), loc.rsp)
  /\ UNCHANGED <<args, open, closed, cp, leaf, path, outcome, pc, hist>>

FilterReturns ==
  /\ Filtering /\ loc.sp = NULL
  /\ IF pc = "filterOpen"
       THEN /\ loc' = FilterCall(succ)
            /\ pc' = "filterClosed"
            /\ UNCHANGED made
       ELSE /\ loc' = NULL
            /\ pc' = IF succ = NULL THEN "close" ELSE "merge"
            /\ made' = LET L == List(succ)
                        IN  [i \in DOMAIN L |-> [addr |-> L[i], node |-> heap[L[i]].node]]
  /\ UNCHANGED <<args, heap, open, closed, cp, succ, leaf, path, outcome, lastOpen>>

\* prepend(succ, open) under dfs.
MergeFront == /\ pc = "merge" /\ strategy = "dfs"
              /\ heap' = IF open = NULL THEN heap ELSE Attached(heap, succ, open)
              /\ open' = succ
              /\ pc' = "close"
              /\ UNCHANGED <<args, closed, cp, succ, loc, leaf, path, outcome, hist>>

\* append(succ, open) under bfs.
MergeBack == /\ pc = "merge" /\ strategy = "bfs"
             /\ heap' = IF open = NULL THEN heap ELSE Attached(heap, open, succ)
             /\ open' = IF open = NULL THEN succ ELSE open
             /\ pc' = "close"
             /\ UNCHANGED <<args, closed, cp, succ, loc, leaf, path, outcome, hist>>

\* The locals of merge_smart at the start of a turn of its outer loop: succ is
\* its own copy of the parameter.
SmartTurn(p) == [succ |-> p, csucc |-> p, prev |-> p, insert |-> NULL, insert_prev |-> NULL,
                 max_f |-> -1]

MergeSmart == /\ pc = "merge" /\ strategy \notin {"dfs", "bfs"}
              /\ loc' = SmartTurn(succ)
              /\ pc' = "smart"
              /\ UNCHANGED <<args, heap, open, closed, cp, succ, leaf, path, outcome, hist>>

\* Mutant: prev moves with csucc from the first node on.
PrevOf_Along(l) == heap[l.prev].next

PrevOf(l) == IF l.prev # l.csucc THEN heap[l.prev].next ELSE l.prev

\* A turn of the inner loop, which looks for the last of the greatest.
SmartScan ==
  /\ pc = "smart" /\ loc.csucc # NULL
  /\ LET key    == F0!Key(heap[loc.csucc].node)
         better == key >= loc.max_f
     IN  loc' = [loc EXCEPT !.max_f = IF better THEN key ELSE @,
                            !.insert = IF better THEN loc.csucc ELSE @,
                            !.insert_prev = IF better THEN loc.prev ELSE @,
                            !.prev = PrevOf(loc),
                            !.csucc = heap[loc.csucc].next]
  /\ UNCHANGED <<args, heap, open, closed, cp, succ, leaf, path, outcome, pc, hist>>

\* Mutant: the node found is not taken out of the list.
Unlinked_Stays(h, l) == h

Unlinked(h, l) == IF l.insert = l.insert_prev THEN h
                  ELSE SetNext(h, l.insert_prev, h[l.insert].next)

\* The node found is taken out of the list and put in front of open.
SmartLink ==
  /\ pc = "smart" /\ loc.csucc = NULL /\ loc.insert # NULL
  /\ heap' = SetNext(Unlinked(heap, loc), loc.insert, open)
  /\ open' = loc.insert
  /\ loc' = SmartTurn(IF loc.insert = loc.insert_prev THEN heap[loc.succ].next ELSE loc.succ)
  /\ UNCHANGED <<args, closed, cp, succ, leaf, path, outcome, pc, hist>>

SmartReturns == /\ pc = "smart" /\ loc.csucc = NULL /\ loc.insert = NULL
                /\ loc' = NULL
                /\ pc' = "close"
                /\ UNCHANGED <<args, heap, open, closed, cp, succ, leaf, path, outcome, hist>>

\* append(cp, closed), goal_found(succ, goal) and the test of the loop.
Close ==
  /\ pc = "close"
  /\ heap' = IF closed = NULL THEN heap ELSE Attached(heap, closed, cp)
  /\ closed' = IF closed = NULL THEN cp ELSE closed
  /\ IF succ # NULL /\ heap[succ].node.board = GoalBoard
       THEN /\ cp' = succ /\ leaf' = GoalBoard /\ outcome' = "found"
            /\ pc' = "path"
       ELSE /\ cp' = IF succ = NULL THEN cp ELSE NULL
            /\ IF open = NULL
                 THEN leaf' = heap[cp'].node.board /\ outcome' = "exhausted" /\ pc' = "path"
                 ELSE UNCHANGED <<leaf, outcome>> /\ pc' = "loop"
  /\ UNCHANGED <<args, open, succ, loc, path, hist>>

\* The first node of closed with the board of cp, read in the heap h where
\* that board has been changed already.
RowFrom(h) ==
  LET L == List(closed)
      j == CHOOSE j \in DOMAIN L : /\ h[L[j]].node.board = h[cp].node.board
                                   /\ \A i \in 1 .. (j - 1) : h[L[i]].node.board # h[cp].node.board
  IN  L[j]

FindParent ==
  /\ pc = "path" /\ heap[cp].node.board # StartBoard
  /\ LET dir == heap[cp].node.dir
         b == Undo(heap[cp].node.board, dir)
         h == [heap EXCEPT ![cp].node.board = b]
     IN  /\ heap' = [h EXCEPT ![cp].node = [h[RowFrom(h)].node EXCEPT !.board = b]]
         /\ path' = Append(path, dir)
         /\ pc' = IF Len(path') >= MaxPath THEN "done" ELSE "path"
  /\ lastOpen' = IF path = <<>> THEN Nodes(open) ELSE lastOpen
  /\ UNCHANGED <<args, open, closed, cp, succ, loc, leaf, outcome, made>>

PathEnds == /\ pc = "path" /\ heap[cp].node.board = StartBoard
            /\ pc' = "done"
            /\ UNCHANGED <<args, heap, open, closed, cp, succ, loc, leaf, path, outcome, hist>>

Stopped == /\ \/ pc = "done"
              \/ pc = "loop" /\ Len(List(closed)) >= MaxClosed
           /\ UNCHANGED vars

Next == \/ Accept \/ Reject \/ GoalTest
        \/ Expand \/ FilterKeeps \/ FilterDrops \/ FilterReturns
        \/ MergeFront \/ MergeBack \/ MergeSmart \/ SmartScan \/ SmartLink \/ SmartReturns
        \/ Close \/ FindParent \/ PathEnds
        \/ Stopped

Spec == Init /\ [][Next]_vars

\* The turns of the loops of filter and merge_smart; the thread that runs them
\* waits for nothing.
Walk == FilterKeeps \/ FilterDrops \/ FilterReturns \/ SmartScan \/ SmartLink \/ SmartReturns

FairSpec == Spec /\ WF_vars(Walk)

-----------------------------------------------------------------------------
(* Properties.                                                             *)

\* No pointer that the code could still follow, and no next field, leads to a
\* freed node: filter (main.c:463) frees a node that its trailing pointers
\* and the node before it pointed to.
NothingDangles ==
  LET live(p) == p = NULL \/ p \in Addr
  IN  /\ live(open) /\ live(closed) /\ live(cp) /\ live(succ)
      /\ Filtering => live(loc.lsp) /\ live(loc.rsp) /\ live(loc.sp)
      /\ \A a \in Addr : live(heap[a].next)

\* The list that is being filtered or merged.
InWork == CASE Filtering \/ pc = "merge" -> List(succ)
            [] pc = "smart"              -> List(loc.succ)
            [] OTHER                     -> <<>>

\* Every node allocated is in exactly one of the lists, or in hand, and no list
\* runs into itself or into another one: nothing leaks and nothing is linked
\* twice while filter, merge_smart, prepend and append relink nodes in place.
ListsAreWhole ==
  pc # "solvable" /\ outcome # "rejected" =>
    LET hand == IF Filtering \/ pc \in {"merge", "smart", "close"} THEN <<cp>> ELSE <<>>
        all  == List(open) \o List(closed) \o hand \o InWork
    IN  /\ {all[i] : i \in DOMAIN all} = Addr
        /\ Len(all) = Cardinality(Addr)

\* The program over its heap implements the program over sequences: every turn
\* of a loop over pointers is a step of Fifteen or changes nothing there.
ImplementsFifteen == F!Spec

\* filter and merge_smart return, however the lists they walk have been relinked.
WalksEnd == []<>(~Filtering /\ pc # "smart")
=============================================================================
