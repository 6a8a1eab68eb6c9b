# A verification development for CS288

The repository holds the homework programs of a systems course: a solver of the
fifteen puzzle (`main.c`), two MPI programs for a dot product (`hw10/`), a
script that makes trees of directories (`hw2/create.sh`), sorts (`hw6/`), and
shorter programs in C, Python, bash and PHP. The rest of the tree is a vendored
Open MPI 2.0.1, captured web pages and exam documents. This directory holds
TLA+ models of the programs, the TLC runs that check them on small instances,
and theorems about them with proofs checked by TLAPS.

## 1. Inventory

### The fifteen puzzle solver, `main.c`

*State.* A node is a board of 4x4 integers with a fifth row for the values f, g,
h and the direction of the move that made it. `main` keeps two linked lists of
nodes, `open` and `closed`, the node in hand `cp`, and the list `succ` of its
successors. `find_path` fills the global array `path[MAX_PATH]`.

*Operations.* `initialize` reads the board and a strategy word (`dfs`, `bfs`,
`best`, `bb`, `astar`; any other word is accepted too). `solvable` refuses the
boards of the wrong parity. Each turn of the loop takes the head of `open`,
makes its successors (`expand`, `move`), drops those whose board is in `open` or
`closed` (`filter`), links the others into `open` in an order that depends on
the strategy (`merge`, `merge_smart`), appends the node to `closed` and looks
for the goal (`goal_found`). `find_path` walks from the node found back to the
start, undoing one move at a time in the node itself and copying the rest of the
node from the parent it looks up in `closed` (`find_parent`). `print_path`
writes the moves backwards.

*What is hard.* Nothing runs concurrently; the hazards are in long sequences of
legal steps. `filter` frees nodes in the middle of the list it walks, and
`merge_smart` relinks the list it scans. Nodes are shared between lists and changed in place; `goal_found`
overwrites `cp` with NULL; `find_parent` dereferences the result of a search
that must not fail; `goal_found` reads only the first successor, which is enough
only because of the order in which `expand` makes the moves; the loop ends only
because no board comes twice; the path is cut off at `MAX_PATH`.

*What makes it correct.* No board is expanded twice and none is lost; a parent is
always in `closed` before its child; no pointer is dereferenced that is not there,
no list keeps a freed node or runs into itself;
a goal among the successors is never missed; the printed moves lead from the
start to the goal, by a shortest way under `bfs`; a refused start has no solution
and an accepted one has; the program ends.

### The dot product, `hw10/hw10.c` and `hw10/hw10_scatter.c`

*State.* Each process has two vectors, of which only its slice (and, at the
master, everything) is filled in, and its sum. The messages under way are the
rest of the state.

*Operations.* The master sends each worker its slice of x and then its slice of
y under one tag, sums its own slice, and receives the sums in rank order; a
worker receives, sums and sends. `hw10_scatter.c` does the same with
`MPI_Scatter` and `MPI_Gather`, which the vendored Open MPI runs over a binomial
tree when there are more than ten processes.

*What is hard.* The processes interleave; a send may return at once or wait for
its receive; only the order of the messages tells the slices apart; `n / nprocs`
leaves elements out.

*What makes it correct.* Every process sums its own slices; each sum is added
once; the number printed does not depend on the schedule; all processes end, and
no message is left.

### The directory tree, `hw2/create.sh`

*State.* The directories on the disk and the working directory. `breadth` keeps
`open`, the directories of a level, and `temp_open`, those of the next;
`depth` keeps its level and its loop variable in locals of each call.

*Operations.* `breadth` makes b directories in each one of a level, then goes on
with the next level, d times. `depth` makes a directory, changes into it, calls
itself b times and changes back.

*What is hard.* No status is tested: the script goes on after a `mkdir` or a `cd`
that failed, and under `depth` every later name depends on the working directory.

*What makes it correct.* The whole tree is made and nothing outside it, in the
order asked for, also where an earlier call left a part of it; the script ends
where it was called.

### The other programs

| program | state and operations | what is hard | what makes it correct |
|---|---|---|---|
| `main.txt` | the solver before `main.c`: another parity test, no test of the start | searches that end with nothing left, after which `find_path` walks back from a node of `closed` | no start is refused that leads to the goal: some are |
| `hw6/hw6.c` | selection, merge and radix sort of a global array | a merge that runs out of one part; an array sorted again and again; shifts beyond the width | the array is rearranged and ends in order |
| `insert-sort.sh` | sorts its arguments in place while it tests them | an argument that is no integer behind others, and is put into a test before it is checked; numerals that bash's arithmetic refuses | all is sorted and printed, or nothing: not with every last argument |
| `hw8/jacobi.c` | sweeps over a vector and its copy until they are close | a sweep that reads what it has just written; the last sweep, which no test follows | the vectors compared are consecutive iterates; the number returned says which test was the first to succeed |
| `hw5/cscraper.c` | a linked list of clips read from a file | the empty list; an array of four pointers for five fields and a NULL | each line adds a clip at the end: it does not |
| `openmpi-2.0.1/ompi/mca/coll/base` | scatter and gather over an in-order binomial tree | the counts come from the ranks, the tree from their bits; children are served in a fixed order | each process gets its slice, the root all elements in order, also while some are in one call and some in the other |
| `hw7/main.c` | a draft of the solver | see section 5 | |
| `hw9/` | a shell loop, a Python script that rebuilds a table, a PHP page that reads it | the script does not parse (`extract.py:6`), so nothing of it runs | |
| `hw4`, `map2.c`, `strtok.c`, `hw1`, `hw3`, shell exercises | short filters without lasting state | nothing a model would add | |

`PROJECT.json` lists every component with its status, and every hazard at its line.

## 2. The modules

| module | what it is | code |
|---|---|---|
| `Puzzle` | boards, the four moves and their undoing, `find_h`, `solvable` | `main.c` |
| `GraphSearch` | abstract: a search that visits each vertex once and loses none | what the loop of `main` promises |
| `Fifteen` | the program: one action per part of a turn, `merge_smart` and `find_path` step by step | `main.c` |
| `FifteenLists` | the program over a heap of nodes with `next` pointers; one action per turn of a loop over pointers | `main.c` |
| `EarlierSolver` | the program with the parity test and the beginning of its earlier version | `main.txt` |
| `PartialSums` | abstract: each slice is summed once, the answer comes last | what both programs of `hw10` promise |
| `DotProduct` | one action per send, receive and sum of each process | `hw10/hw10.c` |
| `DotProductScatter` | one action per collective call, sum and addition of each process | `hw10/hw10_scatter.c` |
| `ScatterPromise`, `GatherPromise` | abstract: who may return from a collective, and with what | what the two calls of `hw10_scatter.c` rely on |
| `BmTree` | the binomial tree and the counts computed on it | `coll_base_topo.c` |
| `BinomialScatter`, `BinomialGather` | one action per call, receive, send and return of each process | `coll_base_scatter.c`, `coll_base_gather.c` |
| `Collectives` | both composed: each process calls one after the other | `hw10/hw10_scatter.c` on these |
| `TreeBuild` | abstract: a tree of directories, each made after the one above it | what both orders of `create.sh` promise |
| `TreeCreate` | one action per turn of a loop, call and return | `hw2/create.sh` |
| `Sorting` | abstract: an array is rearranged until it is in order | what all the sorts promise |
| `MergeSort`, `RadixSort` | the recursion and the merge; the passes over digits | `hw6/hw6.c` |
| `SelectionSort` | one action per turn of each loop | `hw6/hw6.c` |
| `InsertionSort` | one action per turn of each loop | `insert-sort.sh` |
| `Sorts` | the four sorts composed with `main`, which calls one of them again and again | `hw6/hw6.c`, `insert-sort.sh` |
| `Jacobi` | one action per test, copy and element | `hw8/jacobi.c` |
| `ClipList` | one action per line read and clip appended | `hw5/cscraper.c` |
| `MCFifteen`, `MCFifteenLists`, `MCTreeCreate`, `MCSorts`, `MCClipList` | instances for TLC, and properties stated with distances | |
| `FifteenProofs`, `FifteenListsProofs`, `DotProductProofs`, `DotProductScatterProofs`, `CollectivesProofs`, `TreeCreateProofs`, `SortsProofs`, `JacobiProofs` | theorems and proofs | |

Operators whose comment begins with "Mutant" are wrong versions of the operator
that follows them, of the kind a slip in the code would give. No specification
uses them; each is put in the place of the right one to see that the properties
notice.

### How Fifteen corresponds to the code

`pc` names the next statement: `solvable` and `goal` are lines 82 and 93, `loop`
the test of line 100, `merge` the call of line 118, `close` lines 120 to 125,
`path` the loop of `find_path`. A linked list is the sequence of its nodes, so
`prepend` and `append` are concatenations, and two nodes are the same when their
boards are (`nodes_same`). `Expand` is lines 105 to 117 in one step. `merge_smart`
takes one turn per step: `todo` holds the positions of `succ` still to be linked.
`Close` is the end of a turn and the test of the next one: it appends the node,
calls `goal_found` with the first successor, and assigns the answer, NULL
included, to `cp`. `FindParent` is one turn of `find_path`. In it the node in hand
changes in place; when the search ended with nothing left that node is also the
last one of `closed`, and the model changes it there before the list is read
(`Undone`), as the code does. That case needs an accepted start from which the
goal cannot be reached. For boards of even side, among them the 4x4 of the
program, `SearchFindsGoal` says that it does not happen.

`bb` and every unknown word go through `merge_smart` with f = 0, so that they
search as `dfs` does: `MergedInOrder` includes this.

The arguments are taken to be a board, each number once. Output and counters
(`iter`, `total`, `count`) are left out, and `malloc` does not fail.

### How FifteenLists corresponds to the code

`heap` maps the addresses allocated to nodes and their `next`; `malloc` takes the
least addresses that are free, so that it gives those of freed nodes again. `loc`
holds the locals of the function at work: `lsp`, `rsp` and `sp` of `filter`, and the
copy of `succ`, `csucc`, `prev`, `insert` and `insert_prev` of `merge_smart`. One turn
of `filter`'s loop is `FilterKeeps` or `FilterDrops`, one of the inner loop of
`merge_smart` is `SmartScan`, the rest of the outer loop `SmartLink`. Walks that
change nothing (to the end of a list in `prepend` and `append`, along `open` in
`filter`, along `closed` in `find_parent`) belong to the action that makes them.
`FindParent` writes to the node in hand wherever it is linked, and only then reads
`closed`.

The module implements `Fifteen`: a list stands for the sequence of its nodes;
while `filter` runs, `succ` stands for what the rest of `filter` will leave of it,
so that the whole call is part of the `Expand` before it; while `merge_smart` runs,
`todo` is the set of successors still on its list. Two history variables make the
mapping possible: `made` holds the successors as `filter` left them, `lastOpen` the
list `open` before `find_path` wrote to a node of it (in `Fifteen` that list is not
looked at again). `Walk` is the turns of `filter` and of `merge_smart`: under the
fairness of these alone `WalksEnd` says that both return.

### How EarlierSolver corresponds to the code

`main.txt` differs from `main.c` in two places that change what it does: `solvable`
counts the blank among the tiles, and `main` does not compare the start with the
goal. The other actions are those of `Fifteen`; the colour of the output and the
other prints are left out. Its parity test is wrong for every board with the blank in an
odd column (counted from 0).

### How DotProduct corresponds to the code

Each process has a location; the actions of the master are lines 38 to 46, 52 to
60 and 68 to 71, those of a worker lines 47 to 54 and 61 to 63. `down[p]` and
`up[p]` are the messages between the master and p, in the order MPI guarantees
for one pair, tag and communicator. `eager` holds the kinds of messages that the
library buffers, chosen at the start: Open MPI copies a message up to the eager
limit of its transport and lets it go, and with a longer one waits for the receiver
(`mca_pml_ob1_send_request_start_btl`). In the model a message that is not buffered
goes only when its receiver waits for it, which is stricter than either. A slice is the
pair of the vector and the rank it was cut for, so that a slice that lands in the
wrong place shows. A sum is the set of the products added, each the pair of the
elements multiplied; that tells apart everything but an overflow.

### How DotProductScatter corresponds to the code

A process is at `scatterX`, `scatterY` or `gather` while it is inside lines 47, 48
or 50. MPI lets a process leave a collective as soon as its own part is done, so
a worker leaves a scatter once the master has called it, and the master leaves the
gather once every worker has. A process that only sends leaves at once if the
library buffers (`eager`), or else when its receivers have called. A slice lands in
the vector the call names; as in the other program a slice is the vector and the
rank it was cut for. `lst_prod` starts with `Garbage` in each element and `SumUp`
is one turn of line 52. Two facts about the program are assumed, since it does not
check them: there are at most as many processes as elements of `lst_prod`
(`LstAssumption`), and the overlap of the master's send and receive buffers, which
MPI forbids, leaves its first slice where it is.

### How BmTree, BinomialScatter, BinomialGather and Collectives correspond to the code

A mask of one bit is a power of two below the size (`two[k]` after k shifts); `remote`
is the exclusive or with it. The loop of `ompi_coll_base_topo_build_in_order_bmtree` ends
at the first mask that leads to a smaller vrank, the parent; `Reached` are the masks before
that, and `Kids` what they lead to in the communicator, which `tree_next` takes in the order
of the masks. A rank is an `int`, so that nobody ever has `MAXTREEFANOUT` children. `Count` is `mycount` of both collectives. A slice is one element, named by its
rank, and `scount` and `rcount` are one slice; datatypes, `MPI_IN_PLACE` and failing
`malloc`s are left out. `wire[r]` is the message to r (scatter) or from r (gather); in
the scatter it carries its sender, since a receive names its source. A send that is
not buffered holds its sender in `wait`. A read behind the end of a buffer gives
`Nothing`, and a message that does not fit into the buffer of the receive ends the call
with an error (`failed`). The two promises say what `hw10_scatter.c` may count on:
`ScatterReturns` and the actions of the gather in `DotProductScatter` let a process
return whenever they do, if the messages are buffered. `Collectives` runs the gather of a
process after its scatter, as lines 47 and 50 of `hw10_scatter.c` do (the second
scatter, line 48, is like the first); the two calls have different tags, so that their
messages are kept apart.

### How TreeCreate corresponds to the code

A directory is its path, a sequence of names; the script is called in `Home`, two
levels below the root. `Init` lets any part of the tree be there already that an
earlier call may have left. `mkdir` and the `cd` after it have no state of their
own: `mkdir` makes the directory, does nothing where it exists or the one above
does not, or fails for another reason (`failed`, at most `Failures` times), and
`cd` goes where there is a directory. Under breadth, `BreadthMkdir` is one turn of
the inner loop, `BreadthNext` the end of it, `BreadthLevel` line 37. Under depth,
`call` holds the arguments of a call until it begins, and `frames` the locals
`dp` and `i` of the calls that have not returned; the loop variable is raised
when the call is made instead of when it returns, which nobody can see as it is
local. `DepthReturn` is `cd ..` and the return. The argument `dir` is a plain
name: with a slash in it `cd ..` would not lead back, and with a blank `breadth`
would split it. What is echoed is left out.

### How Sorts and its four sorts correspond to the code

`calls` is the stack of `msort_recursive`; `next` says which of its three
statements a call makes next. `MergeHalves` enters `merge` with the variables `m`;
`TakeLeft` and `TakeRight` are one turn of the first loop or of the loop that takes
the rest; `CopyBack` is the last loop and both returns. `merge` reads `lst[left]`
where it means `list[left]` (line 128), which is the same array in the only call.
In `RadixSort` a pass is `Pass`, the counts and the places of the digits, `Move` for
each element, and `CopyBack`, the `memcpy`. `MAXBITS` is twice the width of an int, as
in the program; `shift` chooses what a shift by the width or more gives, the
value shifted by the rest or zero. `two` is `1 << k`. The values are those of `rand`,
never negative.

`Scan` is one turn of the inner loop of `selection_sort`, `Swap` the end of a turn of
the outer one. The test before the exchange (line 94) compares `min` with `j`, which is
n by then, so that the exchange is always made; the model makes it always. In
`InsertionSort`, `Take` begins the insertion of a word, `Shift` is one turn of `while`,
`Place` stores it, and `Refuse` empties the array and leaves the loop. A comparison with
a word of `Refused`, which bash's arithmetic takes for a bad octal numeral, is an error,
and so not true: `insert-sort.sh 08 3` prints `08 3`. `Decimal` is the number bash takes a
word for, 8 for `010`. The script is in the repository twice, in `src` and in `src/hw1`.

The test of `while` (line 15) is a text into which bash puts `${array[j]}` before it
evaluates it. When j is -1 that is the last element of the array, at first the last
argument, which line 8 has not tested yet. `While` is that evaluation: with an integer in
the place it is the comparison; with another word it is what `Pasted` says, whether
the test holds and what j is after it. A word that makes the test true, or assigns to j,
sends the loop on with another j, and from then on words that nobody tested may be
anywhere in the array; `At` and `Put` give a negative index the meaning bash gives it. Such a last
argument breaks what the script promises: `insert-sort.sh 9 5 '1||7'` prints `5 1||7 9`,
`insert-sort.sh 5 '0,j=2'` prints `5 5`, and some calls never end. `Harmless` says that
the last argument is an integer, or does nothing there, like a plain name or a word that
is an error. The properties promise order, and all or nothing, for such calls, whatever
the other arguments are; that a refused call prints nothing they promise for all. The actions were
also compared with the script itself, on all lists of up to four of the words of the
run: they print the same, and the lists with which they do not end are those with which it
does not. Left out are words that assign to anything but j.

In `Sorts` the variable `which` is the sort that `main` has not commented out, or the
script. `main` fills the array once and sorts it 50 times; `Again` is the next turn of
that loop (`Tests` turns), on the array as the turn before has left it.

### How Jacobi and ClipList correspond to the code

The value of an element is the number of the iterate it belongs to, and `Mixed` if it
was computed from elements of several. `Converge` and `GiveUp` are the test of line 52,
`Copy` the `memcpy`, `Element` one turn of the loop over i. Whether two iterates are
close is left open, but not for the first test, where the distance is 1000 n. In
`ClipList` a file is the numbers of fields of its lines (or of the pieces that `fgets`
cuts a long line into). `ReadLine` stores the fields and the NULL; `Crash` is an `append`
that reads a field that is not there, has been given more pointers than the array holds,
or stores into `hp->next` with `hp` NULL, which the compiled program does on `file.csv`.

## 3. The runs

| run | instance | what it shows |
|---|---|---|
| `fifteen_side2` | side 2, all 24 boards, all six strategies | the program implements `GraphSearch`, ends, and finds the goal from every start it accepts, by a shortest path under `bfs` |
| `fifteen_side4` | side 4, starts at most 5 moves from the goal and their odd twins, at most 10 boards closed, `MAX_PATH` 4 | the order of `merge`, the parity, the printed path and how it is cut off |
| `fifteen_lists` | side 4, starts near the goal, all six strategies, at most 12 boards closed, `MAX_PATH` 4 | the program over its heap implements `Fifteen`; nothing freed stays linked, no node is lost or linked twice, every walk over pointers ends |
| `dot_product` | 4 processes, lengths 0, 3, 8, 9 and 10 with arrays of 9 | every schedule and every buffering gives the exact sum and ends |
| `dot_product_scatter` | the same instance, `lst_prod` of 5 | the collectives give the same sum under every schedule and buffering; the master adds only what has come |
| `collectives` | 1, 3, 5 and 6 processes, every root, buffered or not | messages are whole subtrees; the promises of both calls are kept; all calls return |
| `tree_create` | depth and breadth (0,2), (1,3), (2,0), (2,2), (3,1), both orders, every part of the tree there before, at most 3 `mkdir`s that fail | both orders make the tree and nothing else; breadth finishes a level before the next, depth a subtree before its right neighbour; breadth loses what is below a failure and no more; depth ends one directory too high for each; the script ends |
| `sorts` | arrays of at most 5 elements of 3 values, each sorted twice; for radix sort at most 4 elements of 4 bits, digits of 2, passes up to 8 bits; for the script at most 5 words of `-1`, `2`, `010`, `08`, `w`, `1\|\|7` and `0,j=2` | each sort keeps its promise in the middle of its work and ends in order, losing nothing; the script prints all or nothing, unless its last word does something in the test of `while` |
| `jacobi` | at most 3 unknowns, `MAX_ITER` 6, errors around the first distances | consecutive iterates are compared; the number returned is that of the first test that succeeded, or `MAX_ITER` with none |
| `astar_order` | side 4, `astar` | fails: the node expanded is not one of least f |
| `earlier_parity` | side 2, `main.txt` | fails: boards are refused that lead to the goal |
| `clip_append` | files of one and two lines of five fields | fails: no clip is added |

*Bounds.* `MaxClosed` stops the model, not the program, once that many boards are
closed. On side 2 only 12 boards can be reached, and the bound of 24 is never
met, so that run covers every behaviour to its end. On side 4 it cuts long
searches short; the safety properties there speak of every state on the way.
`MAX_PATH` is 1000 in the program; the runs take 1000 on side 2 and 4 on side 4,
where paths longer than that occur and are cut off. `Radius` bounds the starts and
the distances in `BfsPathIsShortest` and `RefusedIsUnreachable`. Four processes
give a first, a middle and a last worker; the lengths are zero, shorter than the
number of processes, a multiple of it, not a multiple, and too long.

Side 4 gives `filter` lists of up to four successors, of which any part may be dropped.
Six processes give the binomial tree a last subtree that is not full below the
root and a chain of two receives, and every root a rotation of its own.

The shapes of the trees are no level, one, two and three, and a breadth of zero,
one, two and three; three failures suffice for `depth` to come back to the root.

Five elements give merges of parts of equal and unequal length, and calls with one
element; three values give equal ones. Four bits in digits of two give two passes
that count and two beyond the width, as 32 bits in digits of eight give four and
four. Two tests give an array in its first order and one sorted before.

*Fairness.* The solver is one thread that waits for nothing: weak fairness of its
next step says that it keeps computing, and so it is for the script. The processes of the dot products run
independently: weak fairness of each says that each goes on as long as MPI lets
it, and none is favoured. `fifteen_lists` needs fairness only of the turns of two functions.
The tree collectives take less than the dot products: that somebody goes on
while anybody can, as each process has only finitely many steps.

*Deadlock* is checked in every run.

### Where comments and code differ

- `main.c:429` calls the last branch of `merge` "A* search: sort on f=g+h value".
  `merge_smart` sorts the new successors only and puts them in front of an `open`
  that is not sorted. The next node need not be one of least f, and the path
  found need not be a shortest one. `AStarExpandsLeastF` fails.
- `main.txt:81` says "check if solvable permutation"; the count of inversions
  includes the blank (line 631), and half of the solvable boards are refused, the goal
  among them. `RefusedIsUnreachable` fails.
- `cscraper.c:43` says that `append` adds the struct at the end of the list. The first
  line of a file ends the program in `hp->next`. `AppendAddsAtEnd` fails.

Not runs of their own, as their counterexamples are single states: `main.c:615` calls an
odd number of inversions unsolvable, while the code, rightly for a board of even side,
takes the row of the blank into account; `cscraper.c:62` says that four values are stored in
`fields`, where a line of five fields stores six pointers; `insert-sort.sh:2` says that the
arguments are sorted, where a refused numeral stays in its place; `insert-sort.sh:9` says
"Please enter integers only", while a last argument like `1||7` is printed with the others, or
keeps the script from ending (see `While` in section 2).

## 4. The proofs

Assumed are the named assumptions of the modules: the side is at least 2, the
starts are boards, the strategies are among the six, `MAX_PATH` is at least 1,
there is at least one process, `lst_prod` has room for one sum per process
(`LstAssumption`), a radius is a number, and the values of an array and what
the words of the script stand for are integers (nothing is assumed of `Pasted`), a digit of radix sort has at least one bit,
the width of an int is a multiple of it, and `MAXBITS` is twice the width
(`RadixAssumption`: 8, 32 and 64 in `hw6.c`). Everything below holds for all such values.

*Boards* (`FifteenProofs`). A move that passes both tests of the code stays inside
the board (`CanMoveIsInside`), gives a board, moves the blank by one cell, and is
taken back by `find_parent`'s swap (`MoveFacts`); two moves give different boards
(`MovesDiffer`). On a board of even side no move changes what `solvable` answers
(`MoveKeepsParity`): exchanging the blank with a tile turns exactly the pairs that the
tile makes with the tiles between the two cells, none for a move to the side and N - 1,
an odd number, for one up or down, which also changes the parity of the row of the blank.
Exchanging the tiles 1 and 2 turns no pair but these two, and the answer with it (`OddBoard`).

*The solver* (`FifteenProofs`). `NoBoardTwice` and
`ParentClosedBefore` are not inductive by themselves. The inductive invariant
`IInv` adds what holds between the steps of a turn: which variables are set at
each `pc` (`Phases`); the node in hand has its parent in `closed`
(`HandHasParent`); every successor is a legal move from the node in hand, and the
goal can only be the first (`SuccSound`); the node the walk has come to has its
parent in `closed`, earlier than itself (`WalkHasParent`). From it follow
`TypeCorrect`, `NoDuplicates`, `ParentsClosed`, `WalkSafe` and `NoGoalMissed`. The
last says that looking at the first successor is enough: the goal has its blank
in the last cell, so only a move down, which `expand` makes first, or a
move right reaches it; and a board from which a move right reaches it has its
blank in the last row, where no move down comes before it. `ParityStays` follows from
`MoveKeepsParity`, since the search begins with a board the test has let through.
`MergeKeepsOrder` needs to know what `open` looks like between two turns of `merge_smart`:
`MInv` says that the successors already moved are the first of `open`, in their final
order (`LinkedInOrder`), that none of those still to be moved belongs behind one of them,
and that without a heuristic all keys are equal (`FlatKeys`).

*Paths and distances* (`FifteenProofs`). What is said about sequences of
moves is proved by induction on their length. The induction theorems of the library take
an operator as a parameter, so the step is made with sets: `LeastElement` comes from the
well-founded order of the naturals (`WFMin`), and `Induction` says that a set that holds 0
and the successor of each of its elements holds every natural. The set is each time that
of the lengths for which the fact is true.
`Ball` and the replay of a path are defined by functions over an interval; that these exist
and agree is shown first (`BallsExist`, `ReplaysExist`), then what one more move adds
(`BallFacts`, `ReplayShift`), that a set closed under moves that holds b holds all that b
leads to (`BallClosed`), that moves can be taken back (`WayBack`), and what the least
number of moves between two boards obeys (`DistIsLeast`, `DistAdds`, `DistBefore`).

- `RefusalsAreRight`: the boards that pass the parity test are closed under moves, on a
  board of even side, and the goal is one of them.
- `NoAnswerMissed`: while the search runs the start is among the boards held and the goal
  is not, except as a successor just made (`GoalAhead`); with `NothingLost`, the visited
  boards of a search that ends empty are closed under moves.
- `NearStartsFindGoal` combines both: what the parity test lets through, of the boards
  within any radius of the goal and of their twins with two tiles exchanged, leads to the
  goal. By the theory of permutations these are all boards, which is not proved here;
  the run `fifteen_side2` takes all those of side 2.
- `PathLeadsToLeaf`: the walk back puts one more legal move in front of a path that leads
  to the goal (`PInv`).
- `BfsIsShortest`: under bfs `open` is a queue of boards that are k or k + 1 moves from the
  start, in this order, and whatever is nearer has been visited (`QInv`, `NearerVisited`);
  so a board met for the first time is exactly one move farther than the one expanded
  (`NewIsFarther`), and each step of the walk back is one move nearer (`WInv`).

`LoopImplementsGraphSearch` maps each action to a step of `GraphSearch` or
to none: `Expand` is a visit, `Close` gives the answer, the merges and the walk
change nothing of it. `SearchIsComplete` carries all that `GraphSearch` promises (`SearchInv`:
no board visited twice, no neighbour forgotten, a search that ends empty closed under moves)
over to the program, and `LoopLosesNothing` says it of the run's property.

*The solver over its heap* (`FifteenListsProofs`). `List(p)`, the addresses met from p on, is
computed by a recursive function of those met so far. A `Chain` says what makes it a list: the
addresses are all different, each one's `next` is the one behind it, and the last one's is
NULL. A chain is what `List` finds (by induction on its length, with sets as above), and what
one assignment to a `next` field does to it is a lemma each: cutting the head off, taking a
node out of the middle, putting two chains together. The inductive invariant `HInv` has these parts:

- `HeapOK`, `ListsOK`: `open`, `closed` and the list at work are chains, no two of them share an
  address, the node in hand is in none, and together they are all that is allocated (`Shared`).
- `FilterOK`: `filter` stands before some node of `succ`, with `lsp` at the node it has kept
  last; what it has passed is not listed, and in its second pass nothing on `succ` is in `open`.
- `SmartOK`: the search of `merge_smart` stands before some node of what is left of its
  list; `insert` is the last of the greatest among those it has passed, with the node before it
  in `insert_prev`. `max_f` is its key, or -1 before the first.
- `MadeOK`: the successors that `filter` has left, as `made` remembers them, are still in the
  heap with their contents, and `succ` points to the first.
- `StartOK`, `PointersOK`: where the start node is, and the other pointers of `main`.

`HInv` is not inductive by itself: that `open` has a head to cut off where
the loop says so, that the parents in the lists are right, and that `find_parent` finds its row
come from the sequences. So it is proved together with the invariant of `FifteenProofs`
under the refinement mapping (`P!IInv`): each action that keeps both is shown to map to an action of
`Fifteen` or to change nothing there, and the latter keeps `P!IInv` by the theorem already
proved of it. The two passes of `filter` are the case that needs most: `succ` stands for what the
rest of `filter` will leave of it, so dropping a listed node changes nothing of that, and neither
does keeping one that is not listed. In `merge_smart` the node the search has chosen is the
element that `Fifteen` takes from `todo`, because both are the last one with the greatest key.
From `HInv` follow `PointersLive` and `ListsWhole`, and from the mapping
`PointersImplementFifteen`, for every side, strategy and start. Assumed besides the assumptions of
`Fifteen` is that NULL is neither a node nor an address.

*The dot product* (`DotProductProofs`). The invariant `DInv` says, for each worker,
how many slices have been sent and received and that the messages between are
exactly those (`Channels`); that what was received is where it belongs
(`Slices`); and that the sum of the master is that of the slices of the ranks
below i (`Sums`). `Agreed` adds that either all processes refuse the length or
none does. All safety properties of the run and `DotImplementsPartialSums` follow,
for every number of processes and every length, and with them that no product is added
twice (`NothingAddedTwice`).

*The dot product over collectives* (`DotProductScatterProofs`). The invariant `SInv`
has three parts: where each process is (`Positions`: the loop of the master begins at 1
and stays among the ranks); that the slices a process has are its own (`Slices`), also
those of the master, which uses the beginning of the whole vectors; and what the sums are
made of (`Sums`: before turn i that of the master holds the slices of the ranks below i,
and `lst_prod` holds those of all workers). `GatheredFirst` and `SumCorrect`
follow, and `ScatterImplementsPartialSums`: this version and the one with messages are
shown to implement the same `PartialSums`.

*The tree collectives* (`CollectivesProofs`). The tree is computed bit by bit and the
counts from differences of vranks; that they agree is arithmetic. `Low(v, a)` says that
2^a is the lowest bit of v, an odd multiple of it that is; every vrank but 0 has one, and
one only (`LowExists`, `LowOnce`). It is the first mask that leads to a smaller vrank
(`PrevIs`), so the parent is v without it, and the children are v + 1, v + 2, v + 4, ... below
it and inside the communicator (`KidsAre`, `NextIs`). `SubtreeIs` says that the processes
below v are the `Width(v)` vranks from v on, its lowest bit or what is left of the
communicator: a vrank w behind v is among them exactly when w without its lowest bit is
(`BelowIsBelow`, by comparing multiples of the smaller of the two bits), which is then carried
along the parents by the least vrank for which it could fail. The widths of the first k
children of v and v itself add up to `Off(v, k)` (`KidIs`), and `Count` is the width of the
child (`ChildIs`). So the buffer of r holds its `Piece`, and what is cut from it for a child
is the piece of the child (`PartIs`).

`ScatterInv` says how much of its piece a process has sent when it is at child i, and that
a message is the piece of its receiver. `GatherInv` says that the places a process has
filled are the beginning of its piece and that everybody named in it has called
(`Collected`), which is why the root cannot return early. From these follow `MessageIsSubtree`,
`KeepsPromises` (the steps of each call map to steps of its promise or to none, those of the
other call to none), and `NobodyFails`: no message is too long for the buffer of its receive. All
this holds for every size, every root, and sends that are buffered or not.

*The directory tree* (`TreeCreateProofs`). `CreateImplementsTreeBuild` needs to know
which directory every mkdir is asked for. The invariant `TInv` says that the lists of
breadth hold paths of one level each (`Levels`), that the calls of depth not yet returned
are at the depths 1, 2, ... (`Calls`), that, as long as no mkdir has failed, the working
directory is that of the innermost one (`Place`), and that no directory
is there without the one above it (`Whole`). `Place` is what a `cd ..` too many
or too few would break. So under either order a path made has at most d names below the
top, all of them between 1 and b (`BreadthPath`, `DepthPath`).
What has been made needs more, and each order something else. For breadth `BInv` has two
parts. `Sweep`: of the paths of the next level, those whose directory above is no longer in
`open`, or is its first with a name below k, are in `temp_open`, and no list names a path
twice. `Account`: of all paths asked for so far, those missing are the ones whose mkdir failed
and what lies in them. For depth `SInv` speaks of runs in which no mkdir failed: each part of
the working directory is the name the call above it is at, and everything under a name that
a call on the stack is done with is there (`Swept`); with no call left everything is
(`AllThere`). `MissingAreFailures` and `MadeAsAsked` follow, the two
orders each from their own half. `EndsInPlace` rests on `HInv`: the working directory of depth
is never shorter than the number of calls less that of failed mkdirs says, and never longer than
`Base` allows, which is where the two meet when no call is left; it is no equation, because a
`cd ..` at the root goes nowhere.

*The sorts* (`SortsProofs`). For merge sort the invariant `MerInv` describes the stack of
calls (`Stack`): the outermost call has the whole array, each one inside the half its
caller is at; the left half of a call that has come to its right one is in order and in
front of everything that calls inside it touch; and the halves that the innermost call is
done with are in order. So is the whole array when no call is left. During a merge
(`Merging`) what is in `tmp` is in order, not greater than what is left of the parts, and
a copy, one to one, of what has been taken from them (`Copies`), which makes the array
after the last loop a rearrangement of that before `merge`. `SelInv` and `InsInv` are the
properties of the run with the ranges of the variables; for the script also that the words
behind `idx` are still those it was called with, so that one that is refused is among
these, and that the words held, the one in hand in its place, are those of the call in
another order (`HeldInv`). These hold for calls whose last word is harmless (`Called`): what is
put into the test is then an integer or that word, so that the test is the comparison
(`WhileIs`), and `Shift` and `Place` do what they do on integers (`ShiftIs`, `PlaceIs`). That
a refused call has nothing left is an invariant of its own, of every call (`EmptyInv`). That a rearrangement holds every value as often is a bijection
between its places (`RearrangedSame`, with `FS_Bijection`). `SortsImplementSorting` and
`InOrderSoFar` hold for all four sorts, `PrintsAllOrNothing` for the script.

For radix sort `RadInv` says that between two passes the array is in order by what they
have sorted by (`KeyOf`), and in a pass that `map` holds for each digit the number of
elements that come before the next one with it (`PlaceOf`), and `temp` each element moved
so far in the place counted for it (`Moved`). The places are all different and inside the
array, so a whole pass is a rearrangement (`PlacesPermute`, with `FS_Injection`: an
injection of a finite set into itself leaves nothing out), and of two elements the one in
front has the smaller digit, or the same and stood in front before (`CountedInOrder`).
That the order of the passes adds up is arithmetic (`KeyGrows`): the rest by the power
of a digit more is the rest before and the digit times the power below it
(`RestAndDigit`). From the width on `KeyOf` is, where the shift is taken modulo the width,
the low digits a second time and then the number, so that after the last pass nothing but the
number is left (`LastKey`). The powers are the recursive function `two`; its equations, and
that sums of exponents are products, are proved by induction with sets, as above.

*Jacobi* (`JacobiProofs`). `JInv` adds to the two properties of the run what the tests
have said so far: before the end all have failed (`TestInv`). `ComparesConsecutive` and `StopsRight` then hold for every
number of unknowns, every `MAX_ITER` and every answer of the tests.

*Only model-checked.* The termination properties and `WalksEnd`: they are liveness under
fairness, which is out of the reach of the prover. `EarlierSolver` and `ClipList`, whose
runs show what goes wrong. That all boards which pass the parity test are within reach of the
goal, for which the run takes all boards of side 2.

## 5. Not modelled

- The values of floating point vectors (`hw8`), the parsing of HTML, the documents.
- The width of the sums of `hw10`: the program prints the sum modulo 2^32, which is the
  dot product as long as n is below 1862.
- The searches of `main.txt` that end with nothing left: only its refusals are checked.
- `hw7/main.c`, a draft of the solver with parts still to be written: its `append`
  returns NULL for a list that is empty (line 279), so that all successors are lost, its
  `move` writes before the board when the blank is in the first row, and
  `find_path` is called with NULL. It has no behaviour beyond its first steps that C defines.
- The stock pipeline of `hw9`: `extract.py` is refused by the Python parser at its line 6.
  `src/filter.sh` is refused by its shell in the same way.
- `float_radix_sort` (`hw6.c`) and `convergence2` (`jacobi.c`), which nothing calls.
- The vendored Open MPI, except for the two tree collectives: it is a library of some
  800000 lines, nearly all of the C code of the repository, that the course programs only
  link to. Measured against it, the part of the code that is modelled is small; measured
  against the programs of the course it is nearly all that has state.
