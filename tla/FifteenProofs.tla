---------------------------- MODULE FifteenProofs ----------------------------
(***************************************************************************)
(* Proofs about the solver, for every side of the board, every set of      *)
(* start boards, every strategy and every bound: its lists stay sound, the *)
(* walk back to the start never leaves them and gives a path that leads    *)
(* from the start to the goal, a shortest one under bfs; no goal is missed, *)
(* and the loop implements GraphSearch.  First come facts about the        *)
(* operators the solver is built from: the moves and the parity test, the  *)
(* lists of nodes and what expand and filter return, the boards within a   *)
(* number of moves and the distance between two boards.                    *)
(***************************************************************************)
EXTENDS MCFifteen, FiniteSetTheorems, WellFoundedInduction, TLAPS

-----------------------------------------------------------------------------
(* Induction over sets of naturals.                                        *)

\* A set of naturals that is not empty has a least element.
LEMMA LeastElement ==
  ASSUME NEW S \in SUBSET Nat, S # {}
  PROVE  \E m \in S : \A k \in S : m <= k
<1>1. IsWellFoundedOn(OpToRel(<, Nat), Nat)
  BY NatLessThanWellFounded
<1>2. PICK m \in S : \A k \in S : <<k, m>> \notin OpToRel(<, Nat)
  BY <1>1, WFMin
<1>3. \A k \in S : ~(k < m)
  BY <1>2 DEF OpToRel
<1> QED
  BY <1>3

\* A set of naturals with 0 and the successor of each of its elements is Nat.
LEMMA Induction ==
  ASSUME NEW S, 0 \in S, \A n \in Nat : n \in S => n + 1 \in S
  PROVE  Nat \subseteq S
<1> DEFINE T == Nat \ S
<1>1. SUFFICES ASSUME T # {} PROVE FALSE
  OBVIOUS
<1>2. PICK m \in T : \A k \in T : m <= k
  BY <1>1, LeastElement
<1>3. m \in Nat /\ m # 0 /\ m - 1 \in Nat /\ m - 1 < m /\ m - 1 + 1 = m
  BY <1>2
<1>4. m - 1 \in S
  BY <1>2, <1>3
<1> QED
  BY <1>2, <1>3, <1>4

-----------------------------------------------------------------------------
(* The board and its moves.                                                *)

\* A board is a function that holds every tile in exactly one cell.
LEMMA BoardFacts ==
  ASSUME NEW b
  PROVE  b \in Board <=> /\ b \in [Cell -> Tile]
                         /\ \A c, e \in Cell : b[c] = b[e] => c = e
                         /\ \A t \in Tile : \E c \in Cell : b[c] = t
BY Zenon DEF Board, Bijection, Injection, Surjection, IsInjective

LEMMA ZeroIsTile == 0 \in Tile
<1>1. N * N >= 1
  BY NAssumption, SMT
<1> QED
  BY <1>1, NAssumption DEF Tile

\* The scan for the blank finds the one cell that holds it.
LEMMA BlankFacts ==
  ASSUME NEW b \in Board
  PROVE  /\ Blank(b) \in Cell
         /\ b[Blank(b)] = 0
         /\ \A c \in Cell : b[c] = 0 => c = Blank(b)
BY BoardFacts, ZeroIsTile DEF Blank

\* Exchanging two cells of a board gives a board.
LEMMA SwapBoard ==
  ASSUME NEW b \in Board, NEW c \in Cell, NEW t \in Cell
  PROVE  /\ swap(b, c, t) \in Board
         /\ \A e \in Cell : swap(b, c, t)[e] = IF e = t THEN b[c] ELSE IF e = c THEN b[t] ELSE b[e]
<1> DEFINE s == swap(b, c, t)
<1>1. b \in [Cell -> Tile] /\ (\A e, k \in Cell : b[e] = b[k] => e = k)
                           /\ \A v \in Tile : \E e \in Cell : b[e] = v
  BY BoardFacts
<1>2. /\ s \in [Cell -> Tile]
      /\ \A e \in Cell : s[e] = IF e = t THEN b[c] ELSE IF e = c THEN b[t] ELSE b[e]
  BY <1>1 DEF swap
<1> HIDE DEF s
<1>3. \A e, k \in Cell : s[e] = s[k] => e = k
  BY <1>1, <1>2
<1>4. ASSUME NEW v \in Tile PROVE \E e \in Cell : s[e] = v
  <2>1. PICK e \in Cell : b[e] = v
    BY <1>1
  <2> QED
    BY <1>2, <2>1
<1>5. s \in Board
  BY <1>2, <1>3, <1>4, BoardFacts
<1> QED
  BY <1>2, <1>5 DEF s

\* The four targets, by coordinates.
LEMMA Targets ==
  ASSUME NEW i, NEW j
  PROVE  /\ Target(<<i, j>>, "DN") = <<i + 1, j>>
         /\ Target(<<i, j>>, "RT") = <<i, j + 1>>
         /\ Target(<<i, j>>, "UP") = <<i - 1, j>>
         /\ Target(<<i, j>>, "LT") = <<i, j - 1>>
BY DEF Target

\* The opposite direction leads back.
LEMMA TargetBack ==
  ASSUME NEW c \in Cell, NEW d \in Dir
  PROVE  Target(Target(c, d), toggle_dir(d)) = c
<1>1. PICK i \in Row, j \in Row : c = <<i, j>>
  BY DEF Cell
<1>2. i \in Int /\ j \in Int
  BY NAssumption DEF Row
<1>3. CASE d = "DN"
  BY <1>1, <1>2, <1>3, Targets DEF toggle_dir
<1>4. CASE d = "RT"
  BY <1>1, <1>2, <1>4, Targets DEF toggle_dir
<1>5. CASE d = "UP"
  BY <1>1, <1>2, <1>5, Targets DEF toggle_dir
<1>6. CASE d = "LT"
  BY <1>1, <1>2, <1>6, Targets DEF toggle_dir
<1> QED
  BY <1>3, <1>4, <1>5, <1>6 DEF Dir

\* The two tests before a move say that the target is a cell of the board.
LEMMA CanMoveIsInside ==
  ASSUME NEW b \in Board, NEW d \in Dir
  PROVE  CanMove(b, d) <=> Target(Blank(b), d) \in Cell
<1>1. PICK i \in Row, j \in Row : Blank(b) = <<i, j>>
  BY BlankFacts DEF Cell
<1>2. i \in Int /\ j \in Int /\ 0 <= i /\ i < N /\ 0 <= j /\ j < N
  BY NAssumption DEF Row
<1>3. CASE d = "DN"
  <2>1. Target(Blank(b), d) = <<i + 1, j>>
    BY <1>1, <1>3, Targets
  <2> QED
    BY <1>2, <1>3, <2>1, NAssumption DEF CanMove, ExpandTest, move_valid, Cell, Row
<1>4. CASE d = "RT"
  <2>1. Target(Blank(b), d) = <<i, j + 1>>
    BY <1>1, <1>4, Targets
  <2> QED
    BY <1>2, <1>4, <2>1, NAssumption DEF CanMove, ExpandTest, move_valid, Cell, Row
<1>5. CASE d = "UP"
  <2>1. Target(Blank(b), d) = <<i - 1, j>>
    BY <1>1, <1>5, Targets
  <2> QED
    BY <1>2, <1>5, <2>1, NAssumption DEF CanMove, ExpandTest, move_valid, Cell, Row
<1>6. CASE d = "LT"
  <2>1. Target(Blank(b), d) = <<i, j - 1>>
    BY <1>1, <1>6, Targets
  <2> QED
    BY <1>2, <1>6, <2>1, NAssumption DEF CanMove, ExpandTest, move_valid, Cell, Row
<1> QED
  BY <1>3, <1>4, <1>5, <1>6 DEF Dir

\* A move makes a board whose blank is at the target, and Undo takes it back.
LEMMA MoveFacts ==
  ASSUME NEW b \in Board, NEW d \in Dir, CanMove(b, d)
  PROVE  /\ MoveBlank(b, d) \in Board
         /\ Blank(MoveBlank(b, d)) = Target(Blank(b), d)
         /\ MoveBlank(b, d) # b
         /\ CanUndo(MoveBlank(b, d), d)
         /\ Undo(MoveBlank(b, d), d) = b
<1> DEFINE c == Blank(b)
           t == Target(c, d)
           m == MoveBlank(b, d)
<1>1. c \in Cell /\ t \in Cell /\ c # t
  <2>1. PICK i \in Row, j \in Row : c = <<i, j>>
    BY BlankFacts DEF Cell
  <2>2. t \in Cell
    BY CanMoveIsInside
  <2>3. c # t
    BY <2>1 DEF Target, Dir, Row
  <2> QED
    BY <2>2, <2>3, BlankFacts
<1>2. /\ m \in Board
      /\ \A e \in Cell : m[e] = IF e = t THEN b[c] ELSE IF e = c THEN b[t] ELSE b[e]
  BY <1>1, SwapBoard DEF MoveBlank
<1>3. Blank(m) = t
  BY <1>1, <1>2, BlankFacts
<1>4. Origin(m, d) = c
  BY <1>1, <1>3, TargetBack DEF Origin
<1>5. Undo(m, d) = b
  <2> DEFINE u == Undo(m, d)
  <2>1. u = swap(m, t, c)
    BY <1>3, <1>4 DEF Undo
  <2> HIDE DEF u, m, t, c
  <2>2. /\ swap(m, t, c) \in Board
        /\ \A e \in Cell :
             swap(m, t, c)[e] = IF e = c THEN m[t] ELSE IF e = t THEN m[c] ELSE m[e]
    BY <1>1, <1>2, SwapBoard, Zenon
  <2>3. \A e \in Cell : u[e] = b[e]
    BY <1>1, <1>2, <2>1, <2>2
  <2>4. u \in [Cell -> Tile] /\ b \in [Cell -> Tile]
    BY <2>1, <2>2, BoardFacts
  <2>5. u = b
    BY <2>3, <2>4
  <2> QED
    BY <2>5 DEF u
<1>6. m # b
  BY <1>1, <1>3
<1> QED
  BY <1>1, <1>2, <1>3, <1>4, <1>5, <1>6 DEF CanUndo

\* Two different moves of one board make two different boards.
LEMMA MovesDiffer ==
  ASSUME NEW b \in Board, NEW d \in Dir, NEW e \in Dir, d # e, CanMove(b, d), CanMove(b, e)
  PROVE  MoveBlank(b, d) # MoveBlank(b, e)
<1>1. PICK i \in Row, j \in Row : Blank(b) = <<i, j>>
  BY BlankFacts DEF Cell
<1>2. Target(Blank(b), d) # Target(Blank(b), e)
  BY <1>1 DEF Target, Dir, Row
<1> QED
  BY <1>2, MoveFacts

\* The heuristic is a natural number.
LEMMA HeuristicType ==
  ASSUME NEW b
  PROVE  find_h(b) \in Nat
<1> DEFINE S == Cell \X (1 .. 2 * N)
           D == {s \in S : s[2] <= Distance(s[1], GoalCell(b[s[1]]))}
<1>1. IsFiniteSet(Row) /\ IsFiniteSet(1 .. 2 * N)
  BY FS_Interval, NAssumption DEF Row
<1>2. IsFiniteSet(S)
  BY <1>1, FS_Product DEF Cell
<1>3. IsFiniteSet(D)
  BY <1>2, FS_Subset
<1> QED
  BY <1>3, FS_CardinalityType DEF find_h

-----------------------------------------------------------------------------
(* The parity test.                                                        *)

Rank(e) == N * e[1] + e[2]

\* The reading order: no two cells have the same place in it.
LEMMA RankFacts ==
  ASSUME NEW c \in Cell, NEW e \in Cell
  PROVE  Rank(c) \in Int /\ (Rank(c) = Rank(e) => c = e)
<1>1. PICK i \in Row, j \in Row : c = <<i, j>>
  BY DEF Cell
<1>2. PICK k \in Row, l \in Row : e = <<k, l>>
  BY DEF Cell
<1>3. /\ i \in Int /\ j \in Int /\ 0 <= j /\ j < N
      /\ k \in Int /\ l \in Int /\ 0 <= l /\ l < N /\ N \in Nat
  BY NAssumption DEF Row
<1>4. ASSUME NEW x \in Int, NEW y \in Int, x < y PROVE N * x + N <= N * y
  <2>1. N * (y - x - 1) >= 0
    BY <1>3, <1>4
  <2>2. N * (y - x - 1) = N * y - N * x - N
    BY <1>3
  <2>3. N * x \in Int /\ N * y \in Int
    BY <1>3
  <2> QED
    BY <1>3, <2>1, <2>2, <2>3
<1>5. Rank(c) = N * i + j /\ Rank(e) = N * k + l
  BY <1>1, <1>2 DEF Rank
<1>6. N * i \in Int /\ N * k \in Int
  BY <1>3
<1>7. ASSUME Rank(c) = Rank(e) PROVE i = k
  <2>1. ~(i < k)
    BY <1>3, <1>4, <1>5, <1>6, <1>7
  <2>2. ~(k < i)
    BY <1>3, <1>4, <1>5, <1>6, <1>7
  <2> QED
    BY <1>3, <2>1, <2>2
<1>8. ASSUME Rank(c) = Rank(e) PROVE c = e
  BY <1>1, <1>2, <1>3, <1>5, <1>6, <1>7, <1>8
<1> QED
  BY <1>3, <1>5, <1>6, <1>8

\* Before is a strict total order of the cells.
LEMMA BeforeFacts ==
  ASSUME NEW x \in Cell, NEW y \in Cell, NEW z \in Cell
  PROVE  /\ ~Before(x, x)
         /\ Before(x, y) => ~Before(y, x)
         /\ x # y => Before(x, y) \/ Before(y, x)
         /\ Before(x, y) /\ Before(y, z) => Before(x, z)
<1>1. \A c, e \in Cell : Before(c, e) <=> Rank(c) < Rank(e)
  BY DEF Before, Rank
<1>2. \A c \in Cell : Rank(c) \in Int
  BY RankFacts
<1>3. x # y => Rank(x) # Rank(y)
  BY RankFacts
<1> QED
  BY <1>1, <1>2, <1>3

\* Counting.
LEMMA CountTo ==
  ASSUME NEW n \in Nat
  PROVE  IsFiniteSet(1 .. n) /\ Cardinality(1 .. n) = n
BY FS_Interval

LEMMA CountDisjoint ==
  ASSUME NEW S, NEW T, IsFiniteSet(S), IsFiniteSet(T), S \cap T = {}
  PROVE  /\ IsFiniteSet(S \cup T) /\ Cardinality(S \cup T) = Cardinality(S) + Cardinality(T)
         /\ Cardinality(S) \in Nat /\ Cardinality(T) \in Nat
<1>1. Cardinality(S \cap T) = 0
  BY FS_EmptySet
<1>2. Cardinality(S) \in Nat /\ Cardinality(T) \in Nat
  BY FS_CardinalityType
<1>3. /\ IsFiniteSet(S \cup T)
      /\ Cardinality(S \cup T) = Cardinality(S) + Cardinality(T) - Cardinality(S \cap T)
  BY FS_Union
<1> QED
  BY <1>1, <1>2, <1>3

LEMMA SameSize ==
  ASSUME NEW S, NEW T, IsFiniteSet(S), NEW f \in [S -> T],
         \A x, y \in S : f[x] = f[y] => x = y,
         \A y \in T : \E x \in S : f[x] = y
  PROVE  IsFiniteSet(T) /\ Cardinality(T) = Cardinality(S)
<1>1. f \in Bijection(S, T)
  BY Zenon DEF Bijection, Injection, Surjection, IsInjective
<1> QED
  BY <1>1, FS_Bijection DEF ExistsBijection

\* The cells between two cells of one column, a row apart, are N - 1 in number.
LEMMA BetweenRows ==
  ASSUME NEW u \in Row, u + 1 \in Row, NEW j \in Row
  PROVE  LET S == {e \in Cell : Before(<<u, j>>, e) /\ Before(e, <<u + 1, j>>)}
         IN  IsFiniteSet(S) /\ Cardinality(S) = N - 1
<1> DEFINE S == {e \in Cell : Before(<<u, j>>, e) /\ Before(e, <<u + 1, j>>)}
           f == [m \in 1 .. (N - 1) |-> IF j + m < N THEN <<u, j + m>> ELSE <<u + 1, j + m - N>>]
           r == N * u
<1>1. /\ N \in Nat /\ N >= 2 /\ u \in Int /\ j \in Int /\ 0 <= j /\ j < N
      /\ 0 <= u /\ u + 1 < N /\ r \in Int
  BY NAssumption DEF Row
<1>2. N * (u + 1) = r + N
  BY <1>1
<1>3. Rank(<<u, j>>) = r + j /\ Rank(<<u + 1, j>>) = r + N + j
  BY <1>2 DEF Rank
<1>4. ASSUME NEW m \in 1 .. (N - 1) PROVE f[m] \in Cell /\ Rank(f[m]) = r + j + m
  <2>1. CASE j + m < N
    <3>1. f[m] = <<u, j + m>> /\ j + m \in Row
      BY <1>1, <2>1 DEF Row
    <3> HIDE DEF f
    <3> QED
      BY <1>1, <3>1 DEF Cell, Rank
  <2>2. CASE ~(j + m < N)
    <3>1. f[m] = <<u + 1, j + m - N>> /\ j + m - N \in Row
      BY <1>1, <2>2 DEF Row
    <3> HIDE DEF f
    <3>2. f[m] \in Cell
      BY <3>1 DEF Cell
    <3>3. Rank(f[m]) = N * (u + 1) + (j + m - N)
      BY <3>1 DEF Rank
    <3> HIDE DEF r
    <3> QED
      BY <1>1, <1>2, <3>2, <3>3
  <2> QED
    BY <2>1, <2>2
<1>5. \A e \in Cell : e \in S <=> r + j < Rank(e) /\ Rank(e) < r + N + j
  <2>1. \A c, e : Before(c, e) <=> Rank(c) < Rank(e)
    BY DEF Before, Rank
  <2> QED
    BY <1>3, <2>1
<1>6. f = [m \in 1 .. (N - 1) |-> f[m]]
  OBVIOUS
<1> HIDE DEF f, S, r
<1>7. \A m \in 1 .. (N - 1) : f[m] \in S
  BY <1>1, <1>4, <1>5
<1>8. f \in [1 .. (N - 1) -> S]
  BY <1>6, <1>7
<1>9. \A m, k \in 1 .. (N - 1) : f[m] = f[k] => m = k
  BY <1>1, <1>4
<1>10. ASSUME NEW e \in S PROVE \E m \in 1 .. (N - 1) : f[m] = e
  <2>1. e \in Cell
    BY DEF S
  <2>2. Rank(e) \in Int /\ r + j < Rank(e) /\ Rank(e) < r + N + j
    BY <1>5, <1>10, <2>1, RankFacts
  <2>3. Rank(e) - r - j \in 1 .. (N - 1)
    BY <1>1, <2>2
  <2>4. Rank(f[Rank(e) - r - j]) = Rank(e)
    BY <1>1, <1>4, <2>2, <2>3
  <2> QED
    BY <1>4, <2>1, <2>3, <2>4, RankFacts
<1>11. IsFiniteSet(1 .. (N - 1)) /\ Cardinality(1 .. (N - 1)) = N - 1
  <2>1. N - 1 \in Nat
    BY <1>1
  <2> QED
    BY <2>1, CountTo
<1>12. IsFiniteSet(S) /\ Cardinality(S) = Cardinality(1 .. (N - 1))
  BY <1>8, <1>9, <1>10, <1>11, SameSize
<1> QED
  BY <1>11, <1>12 DEF S
-----------------------------------------------------------------------------
\* The cells read after c and before t, or after t and before c.
Between(c, t) ==
  {e \in Cell : (Before(c, e) /\ Before(e, t)) \/ (Before(t, e) /\ Before(e, c))}

\* Two cells in reading order.
Pair(c, e) == IF Before(c, e) THEN <<c, e>> ELSE <<e, c>>

\* The pairs counted by Inversions.
Inverted(b) == {p \in Cell \X Cell : /\ Before(p[1], p[2])
                                     /\ b[p[1]] > b[p[2]]
                                     /\ b[p[2]] # 0}

\* A pair of c and a cell between c and t.
Crosses(p, c, t) == \/ p[1] = c /\ p[2] \in Between(c, t)
                    \/ p[2] = c /\ p[1] \in Between(c, t)

LEMMA InvertedFinite ==
  ASSUME NEW b, NEW S \in SUBSET Inverted(b)
  PROVE  IsFiniteSet(S) /\ Cardinality(S) \in Nat
<1>1. IsFiniteSet(Row)
  BY FS_Interval, NAssumption DEF Row
<1>2. IsFiniteSet(Cell \X Cell)
  BY <1>1, FS_Product DEF Cell
<1>3. S \in SUBSET (Cell \X Cell)
  BY DEF Inverted
<1> QED
  BY <1>2, <1>3, FS_Subset, FS_CardinalityType

\* The pair that p becomes when the tile in t goes to c.
Carried(p, c, t) == <<IF p[1] = t THEN c ELSE p[1], IF p[2] = t THEN c ELSE p[2]>>

\* b2 is b with the blank, in c, and the tile in t exchanged.
Exchanged(b, b2, c, t) ==
  /\ c \in Cell /\ t \in Cell /\ c # t
  /\ \A e \in Cell : b[e] \in Nat
  /\ b[c] = 0
  /\ \A e \in Cell : b2[e] = IF e = t THEN 0 ELSE IF e = c THEN b[t] ELSE b[e]

LEMMA BetweenBack == ASSUME NEW c, NEW t PROVE Between(c, t) = Between(t, c)
<1>1. \A e : e \in Between(c, t) <=> e \in Between(t, c)
  BY DEF Between
<1> QED
  BY <1>1

\* A pair that does not cross stays in the wrong order.
LEMMA PairKept ==
  ASSUME NEW b, NEW b2, NEW c, NEW t, Exchanged(b, b2, c, t),
         NEW x \in Cell, NEW y \in Cell,
         <<x, y>> \in Inverted(b), ~Crosses(<<x, y>>, t, c)
  PROVE  LET p == Carried(<<x, y>>, c, t)
         IN  x # c /\ y # c /\ p \in Inverted(b2) /\ ~Crosses(p, c, t)
<1>1. /\ c \in Cell /\ t \in Cell /\ c # t /\ \A e \in Cell : b[e] \in Nat
      /\ b[c] = 0 /\ b2[t] = 0 /\ b2[c] = b[t]
      /\ \A e \in Cell \ {c, t} : b2[e] = b[e]
  BY DEF Exchanged
<1>2. Before(x, y) /\ b[x] > b[y] /\ b[y] # 0
  BY DEF Inverted
<1>3. x # c /\ y # c /\ x # y
  BY <1>1, <1>2
<1>4. \A u, v \in Cell : Before(u, v) /\ b2[u] > b2[v] /\ b2[v] # 0 => <<u, v>> \in Inverted(b2)
  BY DEF Inverted
<1>5. \A u, v : Crosses(<<u, v>>, c, t) => \/ u = c /\ v \in Between(t, c)
                                           \/ v = c /\ u \in Between(t, c)
  BY BetweenBack DEF Crosses
<1>9. /\ x = t => y \notin Between(t, c)
      /\ y = t => x \notin Between(t, c)
  <2>1. <<x, y>>[1] = x /\ <<x, y>>[2] = y
    OBVIOUS
  <2> QED
    BY <2>1 DEF Crosses
<1>6. CASE x = t
  <2>1. Carried(<<x, y>>, c, t) = <<c, y>>
    BY <1>3, <1>6 DEF Carried
  <2>2. y \notin Between(t, c)
    BY <1>6, <1>9
  <2>3. Before(c, y)
    BY <1>1, <1>2, <1>3, <1>6, <2>2, BeforeFacts DEF Between
  <2>4. b2[c] > b2[y] /\ b2[y] # 0
    BY <1>1, <1>2, <1>3, <1>6
  <2> QED
    BY <1>1, <1>3, <1>4, <1>5, <2>1, <2>2, <2>3, <2>4
<1>7. CASE y = t
  <2>1. Carried(<<x, y>>, c, t) = <<x, c>>
    BY <1>3, <1>7 DEF Carried
  <2>2. x \notin Between(t, c)
    BY <1>7, <1>9
  <2>3. Before(x, c)
    BY <1>1, <1>2, <1>3, <1>7, <2>2, BeforeFacts DEF Between
  <2>4. b2[x] > b2[c] /\ b2[c] # 0
    BY <1>1, <1>2, <1>3, <1>7
  <2> QED
    BY <1>1, <1>3, <1>4, <1>5, <2>1, <2>2, <2>3, <2>4
<1>8. CASE x # t /\ y # t
  <2>1. Carried(<<x, y>>, c, t) = <<x, y>>
    BY <1>8 DEF Carried
  <2>2. b2[x] = b[x] /\ b2[y] = b[y]
    BY <1>1, <1>3, <1>8
  <2> QED
    BY <1>2, <1>3, <1>4, <1>5, <2>1, <2>2
<1> QED
  BY <1>6, <1>7, <1>8

\* The exchange taken back.
LEMMA ExchangedBack ==
  ASSUME NEW b, NEW b2, NEW c, NEW t, Exchanged(b, b2, c, t)
  PROVE  Exchanged(b2, b, t, c)
BY DEF Exchanged

\* So the pairs that do not cross are as many before as after.
LEMMA OthersAsMany ==
  ASSUME NEW b, NEW b2, NEW c, NEW t, Exchanged(b, b2, c, t)
  PROVE  Cardinality({p \in Inverted(b) : ~Crosses(p, t, c)})
           = Cardinality({p \in Inverted(b2) : ~Crosses(p, c, t)})
<1> DEFINE S == {p \in Inverted(b) : ~Crosses(p, t, c)}
           T == {p \in Inverted(b2) : ~Crosses(p, c, t)}
           f == [p \in S |-> Carried(p, c, t)]
<1>1. ASSUME NEW p \in S
      PROVE  /\ p[1] \in Cell /\ p[2] \in Cell /\ p = <<p[1], p[2]>>
             /\ p[1] # c /\ p[2] # c /\ Carried(p, c, t) \in T
  <2>1. p[1] \in Cell /\ p[2] \in Cell /\ p = <<p[1], p[2]>>
    BY DEF Inverted
  <2>2. <<p[1], p[2]>> \in Inverted(b) /\ ~Crosses(<<p[1], p[2]>>, t, c)
    BY <2>1
  <2> QED
    BY <2>1, <2>2, PairKept
<1>2. ASSUME NEW p \in T
      PROVE  /\ p[1] \in Cell /\ p[2] \in Cell /\ p = <<p[1], p[2]>>
             /\ p[1] # t /\ p[2] # t /\ Carried(p, t, c) \in S
  <2>1. p[1] \in Cell /\ p[2] \in Cell /\ p = <<p[1], p[2]>>
    BY DEF Inverted
  <2>2. <<p[1], p[2]>> \in Inverted(b2) /\ ~Crosses(<<p[1], p[2]>>, c, t)
    BY <2>1
  <2> QED
    BY <2>1, <2>2, PairKept, ExchangedBack
<1>3. IsFiniteSet(S)
  BY InvertedFinite
<1> HIDE DEF S, T
<1>4. f \in [S -> T]
  BY <1>1
<1>5. \A p, q \in S : f[p] = f[q] => p = q
  <2> SUFFICES ASSUME NEW p \in S, NEW q \in S, Carried(p, c, t) = Carried(q, c, t) PROVE p = q
    OBVIOUS
  <2>1. p[1] = q[1] /\ p[2] = q[2]
    BY <1>1 DEF Carried
  <2> QED
    BY <1>1, <2>1
<1>6. ASSUME NEW p \in T PROVE \E q \in S : f[q] = p
  <2>1. Carried(p, t, c) \in S
    BY <1>2
  <2>2. Carried(Carried(p, t, c), c, t) = <<p[1], p[2]>>
    BY <1>2 DEF Carried
  <2> QED
    BY <1>2, <2>1, <2>2
<1> HIDE DEF f
<1> QED
  BY <1>3, <1>4, <1>5, <1>6, SameSize DEF S, T

\* The pairs that cross are as many as the cells between that are in the wrong
\* order with c.
LEMMA CrossingPairs ==
  ASSUME NEW b, NEW c \in Cell, NEW t \in Cell
  PROVE  LET A == {e \in Between(c, t) : Pair(c, e) \in Inverted(b)}
             S == {p \in Inverted(b) : Crosses(p, c, t)}
         IN  IsFiniteSet(A) /\ Cardinality(S) = Cardinality(A)
<1> DEFINE A == {e \in Between(c, t) : Pair(c, e) \in Inverted(b)}
           S == {p \in Inverted(b) : Crosses(p, c, t)}
           f == [e \in A |-> Pair(c, e)]
<1>1. IsFiniteSet(Cell)
  <2>1. IsFiniteSet(Row)
    BY FS_Interval, NAssumption DEF Row
  <2> QED
    BY <2>1, FS_Product DEF Cell
<1>2. IsFiniteSet(A)
  <2>1. A \in SUBSET Cell
    BY DEF Between
  <2> QED
    BY <1>1, <2>1, FS_Subset
<1>3. ASSUME NEW e \in Between(c, t)
      PROVE  e \in Cell /\ e # c /\ Crosses(Pair(c, e), c, t)
  <2>1. e \in Cell /\ e # c
    BY BeforeFacts DEF Between
  <2>2. Pair(c, e) = <<c, e>> \/ Pair(c, e) = <<e, c>>
    BY DEF Pair
  <2> QED
    BY <2>1, <2>2 DEF Crosses
<1>4. \A e \in A : e \in Between(c, t) /\ Pair(c, e) \in S
  BY <1>3
<1>5. ASSUME NEW p \in S PROVE \E e \in A : Pair(c, e) = p
  <2>1. p \in Inverted(b) /\ Crosses(p, c, t)
    OBVIOUS
  <2>2. /\ p[1] \in Cell /\ p[2] \in Cell /\ p = <<p[1], p[2]>> /\ Before(p[1], p[2])
    BY <2>1 DEF Inverted
  <2>3. CASE p[1] = c /\ p[2] \in Between(c, t)
    <3>1. Pair(c, p[2]) = p
      BY <2>2, <2>3 DEF Pair
    <3> QED
      BY <2>1, <2>3, <3>1
  <2>4. CASE p[2] = c /\ p[1] \in Between(c, t)
    <3>1. Pair(c, p[1]) = p
      BY <2>2, <2>4, BeforeFacts DEF Pair
    <3> QED
      BY <2>1, <2>4, <3>1
  <2> QED
    BY <2>1, <2>3, <2>4 DEF Crosses
<1> HIDE DEF A, S
<1>6. f \in [A -> S]
  BY <1>4
<1>7. \A e, k \in A : f[e] = f[k] => e = k
  <2> SUFFICES ASSUME NEW e \in A, NEW k \in A, Pair(c, e) = Pair(c, k) PROVE e = k
    OBVIOUS
  <2>1. e # c /\ k # c
    BY <1>3, <1>4
  <2> QED
    BY <2>1 DEF Pair
<1>8. \A p \in S : \E e \in A : f[e] = p
  BY <1>5
<1> HIDE DEF f
<1>9. Cardinality(S) = Cardinality(A)
  BY <1>2, <1>6, <1>7, <1>8, SameSize
<1> QED
  BY <1>2, <1>9 DEF A, S

\* A cell between is in the wrong order with the tile either before or after
\* the exchange.
LEMMA OnceOrTheOther ==
  ASSUME NEW b, NEW b2, NEW c, NEW t, Exchanged(b, b2, c, t), NEW e \in Between(c, t),
         b[t] # 0, b[e] # 0, b[e] # b[t]
  PROVE  Pair(t, e) \in Inverted(b) <=> Pair(c, e) \notin Inverted(b2)
<1>1. /\ c \in Cell /\ t \in Cell /\ c # t /\ e \in Cell
      /\ b[e] \in Nat /\ b[t] \in Nat
  BY DEF Exchanged, Between
<1>2. e # c /\ e # t
  BY <1>1, BeforeFacts DEF Between
<1>3. b2[c] = b[t] /\ b2[e] = b[e]
  BY <1>1, <1>2 DEF Exchanged
<1>4. \A u, v \in Cell :
        /\ <<u, v>> \in Inverted(b) <=> Before(u, v) /\ b[u] > b[v] /\ b[v] # 0
        /\ <<u, v>> \in Inverted(b2) <=> Before(u, v) /\ b2[u] > b2[v] /\ b2[v] # 0
  BY DEF Inverted
<1>5. CASE Before(c, e) /\ Before(e, t)
  <2>1. Pair(t, e) = <<e, t>> /\ Pair(c, e) = <<c, e>>
    BY <1>1, <1>5, BeforeFacts DEF Pair
  <2> QED
    BY <1>1, <1>3, <1>4, <1>5, <2>1
<1>6. CASE Before(t, e) /\ Before(e, c)
  <2>1. Pair(t, e) = <<t, e>> /\ Pair(c, e) = <<e, c>>
    BY <1>1, <1>6, BeforeFacts DEF Pair
  <2> QED
    BY <1>1, <1>3, <1>4, <1>6, <2>1
<1> QED
  BY <1>5, <1>6 DEF Between

\* The exchange turns the order of each pair that crosses and of no other.
LEMMA InversionsChange ==
  ASSUME NEW b, NEW b2, NEW c, NEW t, Exchanged(b, b2, c, t),
         \A e, k \in Cell : b[e] = b[k] => e = k
  PROVE  /\ Inversions(b) \in Nat /\ Inversions(b2) \in Nat
         /\ \E a \in Nat : Inversions(b2) + 2 * a = Inversions(b) + Cardinality(Between(c, t))
<1> DEFINE S == {p \in Inverted(b) : Crosses(p, t, c)}
           R == {p \in Inverted(b) : ~Crosses(p, t, c)}
           S2 == {p \in Inverted(b2) : Crosses(p, c, t)}
           R2 == {p \in Inverted(b2) : ~Crosses(p, c, t)}
           B == Between(c, t)
           A == {e \in B : Pair(t, e) \in Inverted(b)}
           A2 == {e \in B : Pair(c, e) \in Inverted(b2)}
<1>1. c \in Cell /\ t \in Cell /\ c # t /\ b[c] = 0
  BY DEF Exchanged
<1>2. Between(t, c) = B
  BY BetweenBack
<1>3. IsFiniteSet(A) /\ Cardinality(S) = Cardinality(A)
  BY <1>1, <1>2, CrossingPairs
<1>4. IsFiniteSet(A2) /\ Cardinality(S2) = Cardinality(A2)
  BY <1>1, CrossingPairs
<1>5. \A e \in B : b[t] # 0 /\ b[e] # 0 /\ b[e] # b[t]
  BY <1>1, BeforeFacts DEF Between
<1>6. A \cap A2 = {} /\ A \cup A2 = B
  BY <1>5, OnceOrTheOther
<1>7. Cardinality(B) = Cardinality(A) + Cardinality(A2) /\ Cardinality(A) \in Nat
  BY <1>3, <1>4, <1>6, CountDisjoint
<1>8. /\ IsFiniteSet(S) /\ IsFiniteSet(R) /\ IsFiniteSet(S2) /\ IsFiniteSet(R2)
      /\ Cardinality(R) \in Nat /\ Cardinality(R2) \in Nat
      /\ Cardinality(S) \in Nat /\ Cardinality(S2) \in Nat
  BY InvertedFinite
<1>9. /\ S \cap R = {} /\ S \cup R = Inverted(b)
      /\ S2 \cap R2 = {} /\ S2 \cup R2 = Inverted(b2)
  OBVIOUS
<1>10. Cardinality(R) = Cardinality(R2)
  BY OthersAsMany
<1>11. Inversions(b) = Cardinality(Inverted(b)) /\ Inversions(b2) = Cardinality(Inverted(b2))
  BY DEF Inversions, Inverted
<1> HIDE DEF S, R, S2, R2, A, A2, B
<1>12. Inversions(b) = Cardinality(S) + Cardinality(R)
  BY <1>8, <1>9, <1>11, CountDisjoint
<1>13. Inversions(b2) = Cardinality(S2) + Cardinality(R2)
  BY <1>8, <1>9, <1>11, CountDisjoint
<1>14. Inversions(b2) + 2 * Cardinality(A) = Inversions(b) + Cardinality(B)
  BY <1>3, <1>4, <1>7, <1>8, <1>10, <1>12, <1>13
<1> QED
  BY <1>7, <1>8, <1>12, <1>13, <1>14 DEF B

\* A column is passed over a whole row, in either direction.
LEMMA ColumnPassed ==
  ASSUME NEW u \in Row, u + 1 \in Row, NEW j \in Row
  PROVE  Cardinality(Between(<<u, j>>, <<u + 1, j>>)) = N - 1
<1> DEFINE c == <<u, j>>
           t == <<u + 1, j>>
           S == {e \in Cell : Before(c, e) /\ Before(e, t)}
<1>1. c \in Cell /\ t \in Cell
  BY DEF Cell
<1>2. Before(c, t)
  <2>1. u \in Int /\ j \in Int /\ N \in Nat /\ N >= 2
    BY NAssumption DEF Row
  <2>2. N * (u + 1) = N * u + N /\ N * u \in Int
    BY <2>1
  <2> QED
    BY <2>1, <2>2 DEF Before
<1>3. Cardinality(S) = N - 1
  BY BetweenRows
<1> HIDE DEF c, t
<1>4. \A e \in Cell : ~(Before(t, e) /\ Before(e, c))
  BY <1>1, <1>2, BeforeFacts
<1>5. Between(c, t) = S
  BY <1>4 DEF Between
<1> QED
  BY <1>3, <1>5 DEF c, t

\* Two cells next to each other have none between them.
LEMMA RowPassed ==
  ASSUME NEW i \in Row, NEW l \in Row, l + 1 \in Row
  PROVE  Cardinality(Between(<<i, l>>, <<i, l + 1>>)) = 0
<1> DEFINE c == <<i, l>>
           t == <<i, l + 1>>
<1>1. c \in Cell /\ t \in Cell
  BY DEF Cell
<1>2. i \in Int /\ l \in Int /\ N \in Nat /\ N * i \in Int
  BY NAssumption DEF Row
<1>3. Rank(c) = N * i + l /\ Rank(t) = N * i + (l + 1)
  BY DEF Rank
<1>4. \A x, y : Before(x, y) <=> Rank(x) < Rank(y)
  BY DEF Before, Rank
<1> HIDE DEF c, t
<1>5. \A e \in Cell : Rank(e) \in Int
  BY RankFacts
<1>6. \A e \in Cell : e \notin Between(c, t)
  BY <1>2, <1>3, <1>4, <1>5 DEF Between
<1>7. Between(c, t) = {}
  BY <1>6 DEF Between
<1> QED
  BY <1>7, FS_EmptySet DEF c, t

\* How many cells a move passes: none in a row, N - 1 in a column.
LEMMA CellsPassed ==
  ASSUME NEW c \in Cell, NEW d \in Dir, Target(c, d) \in Cell
  PROVE  Cardinality(Between(c, Target(c, d))) = IF d \in {"DN", "UP"} THEN N - 1 ELSE 0
<1>1. PICK i \in Row, j \in Row : c = <<i, j>>
  BY DEF Cell
<1>2. i \in Int /\ j \in Int /\ i - 1 + 1 = i /\ j - 1 + 1 = j
  BY NAssumption DEF Row
<1>3. CASE d = "DN"
  <2>1. Target(c, d) = <<i + 1, j>> /\ i + 1 \in Row
    BY <1>1, <1>3, Targets DEF Cell
  <2> QED
    BY <1>1, <1>3, <2>1, ColumnPassed
<1>4. CASE d = "UP"
  <2>1. Target(c, d) = <<i - 1, j>> /\ i - 1 \in Row
    BY <1>1, <1>4, Targets DEF Cell
  <2>2. Cardinality(Between(<<i - 1, j>>, <<i - 1 + 1, j>>)) = N - 1
    BY <1>2, <2>1, ColumnPassed
  <2> QED
    BY <1>1, <1>2, <1>4, <2>1, <2>2, BetweenBack
<1>5. CASE d = "RT"
  <2>1. Target(c, d) = <<i, j + 1>> /\ j + 1 \in Row
    BY <1>1, <1>5, Targets DEF Cell
  <2> QED
    BY <1>1, <1>5, <2>1, RowPassed
<1>6. CASE d = "LT"
  <2>1. Target(c, d) = <<i, j - 1>> /\ j - 1 \in Row
    BY <1>1, <1>6, Targets DEF Cell
  <2>2. Cardinality(Between(<<i, j - 1>>, <<i, j - 1 + 1>>)) = 0
    BY <1>2, <2>1, RowPassed
  <2> QED
    BY <1>1, <1>2, <1>6, <2>1, <2>2, BetweenBack
<1> QED
  BY <1>3, <1>4, <1>5, <1>6 DEF Dir

\* Even and odd.
LEMMA HalfOf ==
  ASSUME NEW x \in Int
  PROVE  \E q \in Int : x = 2 * q + (x % 2) /\ x % 2 \in {0, 1}
OBVIOUS

\* Both sides of the parity test turn when the inversions change by an odd
\* number and the row by one, neither when both change by an even one.
LEMMA BothTurn ==
  ASSUME NEW m \in Int, NEW k \in Int, NEW a \in Int, NEW p \in Int, NEW x \in Int, NEW y \in Int,
         m + 2 * a = k + p, (p % 2 = 0 /\ y = x) \/ (p % 2 # 0 /\ (y = x + 1 \/ y = x - 1))
  PROVE  m % 2 # y % 2 <=> k % 2 # x % 2
<1>1. PICK qm \in Int : m = 2 * qm + (m % 2) /\ m % 2 \in {0, 1}
  BY HalfOf
<1>2. PICK qk \in Int : k = 2 * qk + (k % 2) /\ k % 2 \in {0, 1}
  BY HalfOf
<1>3. PICK qp \in Int : p = 2 * qp + (p % 2) /\ p % 2 \in {0, 1}
  BY HalfOf
<1>4. PICK qx \in Int : x = 2 * qx + (x % 2) /\ x % 2 \in {0, 1}
  BY HalfOf
<1>5. PICK qy \in Int : y = 2 * qy + (y % 2) /\ y % 2 \in {0, 1}
  BY HalfOf
<1> QED
  BY <1>1, <1>2, <1>3, <1>4, <1>5

\* The row a move leads to.
LEMMA RowAfter ==
  ASSUME NEW c \in Cell, NEW d \in Dir
  PROVE  LET t == Target(c, d)
         IN  /\ t # c /\ c[1] \in Int /\ t[1] \in Int
             /\ d \in {"DN", "UP"} => t[1] = c[1] + 1 \/ t[1] = c[1] - 1
             /\ d \notin {"DN", "UP"} => t[1] = c[1]
<1>1. PICK i \in Row, j \in Row : c = <<i, j>>
  BY DEF Cell
<1>2. i \in Int /\ j \in Int
  BY NAssumption DEF Row
<1>3. CASE d = "DN"
  <2>1. Target(c, d) = <<i + 1, j>>
    BY <1>1, <1>3, Targets
  <2> QED
    BY <1>1, <1>2, <1>3, <2>1
<1>4. CASE d = "UP"
  <2>1. Target(c, d) = <<i - 1, j>>
    BY <1>1, <1>4, Targets
  <2> QED
    BY <1>1, <1>2, <1>4, <2>1
<1>5. CASE d = "RT"
  <2>1. Target(c, d) = <<i, j + 1>>
    BY <1>1, <1>5, Targets
  <2> QED
    BY <1>1, <1>2, <1>5, <2>1
<1>6. CASE d = "LT"
  <2>1. Target(c, d) = <<i, j - 1>>
    BY <1>1, <1>6, Targets
  <2> QED
    BY <1>1, <1>2, <1>6, <2>1
<1> QED
  BY <1>3, <1>4, <1>5, <1>6 DEF Dir

\* On a board of even side no move changes the answer of the parity test: a
\* move in a column passes an odd number of tiles and changes the row of the
\* blank by one (main.c:616-643).
LEMMA MoveKeepsParity ==
  ASSUME N % 2 = 0, NEW b \in Board, NEW d \in Dir, CanMove(b, d)
  PROVE  solvable(MoveBlank(b, d)) <=> solvable(b)
<1> DEFINE c == Blank(b)
           t == Target(c, d)
           b2 == MoveBlank(b, d)
           k == Inversions(b)
           m == Inversions(b2)
           p == Cardinality(Between(c, t))
<1>1. /\ c \in Cell /\ b[c] = 0 /\ t \in Cell
      /\ b2 \in Board /\ Blank(b2) = t
  BY BlankFacts, CanMoveIsInside, MoveFacts
<1>2. \A e \in Cell : b2[e] = IF e = t THEN b[c] ELSE IF e = c THEN b[t] ELSE b[e]
  BY <1>1, SwapBoard DEF MoveBlank
<1>3. b \in [Cell -> Tile] /\ \A e, h \in Cell : b[e] = b[h] => e = h
  BY BoardFacts
<1>4. /\ t # c /\ c[1] \in Int /\ t[1] \in Int
      /\ d \in {"DN", "UP"} => t[1] = c[1] + 1 \/ t[1] = c[1] - 1
      /\ d \notin {"DN", "UP"} => t[1] = c[1]
  BY <1>1, RowAfter
<1>5. p = IF d \in {"DN", "UP"} THEN N - 1 ELSE 0
  BY <1>1, CellsPassed
<1>6. solvable(b) <=> k % 2 # c[1] % 2
  BY DEF solvable
<1>7. solvable(b2) <=> m % 2 # t[1] % 2
  BY <1>1 DEF solvable
<1> HIDE DEF c, t, b2
<1>8. Exchanged(b, b2, c, t)
  BY <1>1, <1>2, <1>3, <1>4 DEF Exchanged, Tile
<1>9. k \in Int /\ m \in Int /\ \E a \in Nat : m + 2 * a = k + p
  BY <1>3, <1>8, InversionsChange
<1> HIDE DEF k, m, p
<1>10. PICK a \in Int : m + 2 * a = k + p
  BY <1>9
<1>11. /\ p \in Int
       /\ (p % 2 = 0 /\ t[1] = c[1]) \/ (p % 2 # 0 /\ (t[1] = c[1] + 1 \/ t[1] = c[1] - 1))
  <2>1. N \in Int /\ (N - 1) % 2 # 0 /\ 0 % 2 = 0
    BY NAssumption
  <2>2. CASE d \in {"DN", "UP"}
    BY <1>4, <1>5, <2>1, <2>2
  <2>3. CASE d \notin {"DN", "UP"}
    BY <1>4, <1>5, <2>1, <2>3
  <2> QED
    BY <2>2, <2>3
<1>12. m % 2 # t[1] % 2 <=> k % 2 # c[1] % 2
  BY <1>4, <1>9, <1>10, <1>11, BothTurn
<1> QED
  BY <1>6, <1>7, <1>12 DEF b2

-----------------------------------------------------------------------------
(* The goal.                                                                *)

\* Every place in the reading order is that of a cell.
LEMMA CellAt == ASSUME NEW t \in 0 .. (N * N - 1) PROVE \E c \in Cell : Rank(c) = t
<1> DEFINE S == {k \in Nat : k < N * N => \E c \in Cell : Rank(c) = k}
<1>1. N \in Nat /\ N >= 2 /\ N * N \in Nat
  BY NAssumption
<1>2. 0 \in S
  <2>1. <<0, 0>> \in Cell /\ Rank(<<0, 0>>) = 0
    BY <1>1 DEF Cell, Row, Rank
  <2> QED
    BY <2>1
<1>3. ASSUME NEW k \in Nat, k \in S PROVE k + 1 \in S
  <2>1. SUFFICES ASSUME k + 1 < N * N PROVE \E c \in Cell : Rank(c) = k + 1
    OBVIOUS
  <2>2. PICK c \in Cell : Rank(c) = k
    BY <1>1, <1>3, <2>1
  <2>3. PICK i \in Row, j \in Row : c = <<i, j>>
    BY DEF Cell
  <2>4. i \in Nat /\ j \in Nat /\ i < N /\ j < N /\ N * i + j = k
    BY <1>1, <2>2, <2>3 DEF Row, Rank
  <2>5. CASE j + 1 < N
    <3>1. <<i, j + 1>> \in Cell
      BY <1>1, <2>4, <2>5 DEF Cell, Row
    <3>2. N * i + (j + 1) = k + 1
      BY <1>1, <2>4
    <3> QED
      BY <3>1, <3>2 DEF Rank
  <2>6. CASE j + 1 = N
    <3>1. N * (i + 1) = N * i + N
      BY <1>1, <2>4
    <3>2. N * i \in Nat
      BY <1>1, <2>4
    <3>3. N * (i + 1) = k + 1
      BY <1>1, <2>4, <2>6, <3>1, <3>2
    <3>4. i + 1 # N
      BY <2>1, <3>3
    <3>5. <<i + 1, 0>> \in Cell
      BY <1>1, <2>4, <3>4 DEF Cell, Row
    <3>6. N * (i + 1) + 0 = k + 1
      BY <3>3
    <3> QED
      BY <3>5, <3>6 DEF Rank
  <2> QED
    BY <1>1, <2>4, <2>5, <2>6
<1> HIDE DEF S
<1>4. Nat \subseteq S
  BY <1>2, <1>3, Induction
<1>5. t \in Nat /\ t < N * N
  BY <1>1
<1> QED
  BY <1>4, <1>5 DEF S

\* The last cell comes after all others.
LEMMA LastCell ==
  /\ <<N - 1, N - 1>> \in Cell /\ Rank(<<N - 1, N - 1>>) = N * N - 1
  /\ \A c \in Cell : Rank(c) \in 0 .. (N * N - 1)
  /\ \A c \in Cell : c # <<N - 1, N - 1>> => Rank(c) < N * N - 1
<1> DEFINE l == <<N - 1, N - 1>>
<1>1. N \in Nat /\ N >= 2 /\ N * N \in Nat
  BY NAssumption
<1>2. N * (N - 1) = N * N - N
  BY <1>1
<1>3. l \in Cell /\ Rank(l) = N * N - 1
  <2>1. l \in Cell /\ Rank(l) = N * (N - 1) + (N - 1)
    BY <1>1 DEF Cell, Row, Rank
  <2> QED
    BY <1>1, <1>2, <2>1
<1>4. ASSUME NEW c \in Cell PROVE Rank(c) \in 0 .. (N * N - 1)
  <2>1. PICK i \in Row, j \in Row : c = <<i, j>>
    BY DEF Cell
  <2>2. i \in Nat /\ j \in Nat /\ i <= N - 1 /\ j <= N - 1 /\ Rank(c) = N * i + j
    BY <1>1, <2>1 DEF Row, Rank
  <2>3. N * i \in Nat /\ N * i <= N * (N - 1)
    BY <1>1, <2>2
  <2> QED
    BY <1>1, <1>2, <2>2, <2>3
<1>5. ASSUME NEW c \in Cell, c # l PROVE Rank(c) < N * N - 1
  <2>1. Rank(c) # Rank(l)
    BY <1>3, <1>5, RankFacts
  <2> QED
    BY <1>1, <1>3, <1>4, <2>1
<1> QED
  BY <1>3, <1>4, <1>5

LEMMA GoalIsBoard ==
  /\ GoalBoard \in Board
  /\ Blank(GoalBoard) = <<N - 1, N - 1>>
  /\ \A c \in Cell : GoalBoard[c] = IF c = <<N - 1, N - 1>> THEN 0 ELSE Rank(c) + 1
<1> DEFINE l == <<N - 1, N - 1>>
           g == GoalBoard
<1>1. N * N \in Nat
  BY NAssumption
<1>2. /\ \A c \in Cell : g[c] = IF c = l THEN 0 ELSE Rank(c) + 1
      /\ g = [c \in Cell |-> g[c]]
  BY DEF GoalBoard, Rank
<1> HIDE DEF g, l
<1>3. /\ l \in Cell /\ Rank(l) = N * N - 1
      /\ \A c \in Cell : Rank(c) \in 0 .. (N * N - 1)
      /\ \A c \in Cell : c # l => Rank(c) < N * N - 1
  BY LastCell DEF l
<1>4. g \in [Cell -> Tile]
  <2>1. \A c \in Cell : g[c] \in 0 .. (N * N - 1)
    BY <1>1, <1>2, <1>3
  <2> QED
    BY <1>2, <2>1 DEF Tile
<1>5. ASSUME NEW c \in Cell, NEW e \in Cell, g[c] = g[e] PROVE c = e
  <2>1. Rank(c) \in Nat /\ Rank(e) \in Nat
    BY <1>1, <1>3
  <2>2. c # l /\ e # l => Rank(c) = Rank(e)
    BY <1>2, <1>5, <2>1
  <2>3. c = l <=> e = l
    BY <1>2, <1>5, <2>1
  <2> QED
    BY <2>2, <2>3, RankFacts
<1>6. ASSUME NEW t \in Tile PROVE \E c \in Cell : g[c] = t
  <2>1. CASE t = 0
    BY <1>2, <1>3, <2>1
  <2>2. CASE t # 0
    <3>1. t - 1 \in 0 .. (N * N - 1) /\ t - 1 < N * N - 1 /\ t - 1 + 1 = t
      BY <1>1, <2>2 DEF Tile
    <3>2. PICK c \in Cell : Rank(c) = t - 1
      BY <3>1, CellAt
    <3>3. c # l
      BY <1>3, <3>1, <3>2
    <3> QED
      BY <1>2, <3>1, <3>2, <3>3
  <2> QED
    BY <2>1, <2>2
<1>7. g \in Board
  BY <1>4, <1>5, <1>6, BoardFacts
<1>8. Blank(g) = l
  BY <1>2, <1>3, <1>7, BlankFacts
<1> QED
  BY <1>2, <1>7, <1>8 DEF g, l

\* The goal has no inversion, and passes the test if the side is even.
LEMMA GoalSolvable == ASSUME N % 2 = 0 PROVE solvable(GoalBoard)
<1> DEFINE l == <<N - 1, N - 1>>
           P == {p \in Cell \X Cell : /\ Before(p[1], p[2])
                                      /\ GoalBoard[p[1]] > GoalBoard[p[2]]
                                      /\ GoalBoard[p[2]] # 0}
<1>1. ASSUME NEW c \in Cell, NEW e \in Cell, Before(c, e), GoalBoard[c] > GoalBoard[e], GoalBoard[e] # 0
      PROVE  FALSE
  <2>1. Rank(c) < Rank(e) /\ Rank(c) \in Int /\ Rank(e) \in Int
    BY <1>1, RankFacts DEF Before, Rank
  <2>2. GoalBoard[e] = Rank(e) + 1
    BY <1>1, GoalIsBoard
  <2>3. GoalBoard[c] = 0 \/ GoalBoard[c] = Rank(c) + 1
    BY GoalIsBoard
  <2>4. Rank(e) >= 0
    BY LastCell, NAssumption
  <2> QED
    BY <1>1, <2>1, <2>2, <2>3, <2>4
<1>2. P = {}
  BY <1>1
<1>3. Inversions(GoalBoard) = 0
  BY <1>2, FS_EmptySet DEF Inversions
<1>4. Blank(GoalBoard)[1] = N - 1
  BY GoalIsBoard
<1>5. 0 % 2 = 0 /\ (N - 1) % 2 = 1
  BY NAssumption
<1> QED
  BY <1>3, <1>4, <1>5 DEF solvable

-----------------------------------------------------------------------------
(* Two tiles exchanged.                                                     *)

\* Exchanging the tiles 1 and 2 turns the answer of the parity test: it turns
\* the order of these two and of no other pair.
LEMMA OddBoard ==
  ASSUME NEW b \in Board, NEW c \in Cell, NEW t \in Cell
  PROVE  b[c] = 1 /\ b[t] = 2 => (solvable(swap(b, c, t)) <=> ~solvable(b))
<1> DEFINE b2 == swap(b, c, t)
           O == {<<c, t>>, <<t, c>>}
           S == Inverted(b) \ O
           P == Inverted(b) \cap O
           P2 == Inverted(b2) \cap O
<1>1. /\ b2 \in Board
      /\ \A e \in Cell : b2[e] = IF e = t THEN b[c] ELSE IF e = c THEN b[t] ELSE b[e]
  BY SwapBoard
<1> HIDE DEF b2
<1> SUFFICES ASSUME b[c] = 1, b[t] = 2 PROVE solvable(b2) <=> ~solvable(b)
  BY DEF b2
<1>2. /\ \A e \in Cell : b[e] \in Nat
      /\ \A e, k \in Cell : b[e] = b[k] => e = k
  BY BoardFacts, NAssumption DEF Tile
<1>3. c # t /\ b2[c] = 2 /\ b2[t] = 1 /\ \A e \in Cell \ {c, t} : b2[e] = b[e] /\ b[e] \notin {1, 2}
  BY <1>1, <1>2
<1>4. Blank(b2) = Blank(b)
  <2>1. Blank(b) \in Cell /\ b[Blank(b)] = 0
    BY BlankFacts
  <2>2. Blank(b) \notin {c, t}
    BY <2>1
  <2>3. b2[Blank(b)] = 0
    BY <1>3, <2>1, <2>2
  <2> QED
    BY <1>1, <2>1, <2>3, BlankFacts
<1>5. ASSUME NEW x \in Cell, NEW y \in Cell, <<x, y>> \notin O
      PROVE  <<x, y>> \in Inverted(b2) <=> <<x, y>> \in Inverted(b)
  <2>1. /\ <<x, y>> \in Inverted(b) <=> Before(x, y) /\ b[x] > b[y] /\ b[y] # 0
        /\ <<x, y>> \in Inverted(b2) <=> Before(x, y) /\ b2[x] > b2[y] /\ b2[y] # 0
    BY DEF Inverted
  <2>2. ~(x = c /\ y = t) /\ ~(x = t /\ y = c)
    BY <1>5
  <2>3. Before(x, y) => x # y
    BY BeforeFacts
  <2>4. b[x] \in Nat /\ b[y] \in Nat
    BY <1>2
  <2>5. CASE x \in {c, t} /\ y \notin {c, t}
    BY <1>3, <2>1, <2>4, <2>5
  <2>6. CASE x \notin {c, t} /\ y \in {c, t}
    BY <1>3, <2>1, <2>4, <2>6
  <2>7. CASE x \notin {c, t} /\ y \notin {c, t}
    BY <1>3, <2>1, <2>7
  <2> QED
    BY <2>1, <2>2, <2>3, <2>5, <2>6, <2>7
<1>6. S = Inverted(b2) \ O
  <2>1. \A p : p \in Inverted(b) \/ p \in Inverted(b2) =>
                 \E x, y \in Cell : p = <<x, y>>
    BY DEF Inverted
  <2> QED
    BY <1>5, <2>1
<1>7. \/ Cardinality(P) = 1 /\ Cardinality(P2) = 0
      \/ Cardinality(P) = 0 /\ Cardinality(P2) = 1
  <2>1. \A x, y \in Cell :
          /\ <<x, y>> \in Inverted(b) <=> Before(x, y) /\ b[x] > b[y] /\ b[y] # 0
          /\ <<x, y>> \in Inverted(b2) <=> Before(x, y) /\ b2[x] > b2[y] /\ b2[y] # 0
    BY DEF Inverted
  <2>2. /\ <<c, t>> \notin Inverted(b) /\ <<t, c>> \notin Inverted(b2)
        /\ <<t, c>> \in Inverted(b) <=> Before(t, c)
        /\ <<c, t>> \in Inverted(b2) <=> Before(c, t)
    BY <1>3, <2>1
  <2>3. Before(c, t) <=> ~Before(t, c)
    BY <1>3, BeforeFacts
  <2>4. P = (IF Before(t, c) THEN {<<t, c>>} ELSE {}) /\ P2 = (IF Before(t, c) THEN {} ELSE {<<c, t>>})
    BY <2>2, <2>3
  <2> HIDE DEF P, P2
  <2>5. Cardinality({<<t, c>>}) = 1 /\ Cardinality({<<c, t>>}) = 1 /\ Cardinality({}) = 0
    BY FS_Singleton, FS_EmptySet
  <2>6. CASE Before(t, c)
    BY <2>4, <2>5, <2>6
  <2>7. CASE ~Before(t, c)
    BY <2>4, <2>5, <2>7
  <2> QED
    BY <2>6, <2>7
<1>8. /\ IsFiniteSet(S) /\ IsFiniteSet(P) /\ IsFiniteSet(P2)
      /\ Cardinality(S) \in Nat
  <2>1. S \in SUBSET Inverted(b) /\ P \in SUBSET Inverted(b) /\ P2 \in SUBSET Inverted(b2)
    OBVIOUS
  <2> QED
    BY <2>1, InvertedFinite
<1>9. /\ S \cap P = {} /\ S \cup P = Inverted(b)
      /\ S \cap P2 = {} /\ S \cup P2 = Inverted(b2)
  BY <1>6
<1>10. Inversions(b) = Cardinality(Inverted(b)) /\ Inversions(b2) = Cardinality(Inverted(b2))
  BY DEF Inversions, Inverted
<1> HIDE DEF S, P, P2
<1>11. Inversions(b) = Cardinality(S) + Cardinality(P)
  BY <1>8, <1>9, <1>10, CountDisjoint
<1>12. Inversions(b2) = Cardinality(S) + Cardinality(P2)
  BY <1>8, <1>9, <1>10, CountDisjoint
<1> DEFINE m == Inversions(b)
           k == Inversions(b2)
           r == Blank(b)[1]
<1>13. m \in Int /\ k \in Int /\ (m = k + 1 \/ k = m + 1)
  BY <1>7, <1>8, <1>11, <1>12
<1>14. r % 2 \in {0, 1}
  <2>1. r \in Int
    BY BlankFacts, NAssumption DEF Cell, Row
  <2> QED
    BY <2>1
<1>15. (solvable(b) <=> m % 2 # r % 2) /\ (solvable(b2) <=> k % 2 # r % 2)
  BY <1>4 DEF solvable
<1> HIDE DEF m, k, r
<1>16. m % 2 \in {0, 1} /\ k % 2 \in {0, 1} /\ m % 2 # k % 2
  BY <1>13
<1> QED
  BY <1>14, <1>15, <1>16

-----------------------------------------------------------------------------
(* Moves can be taken back.                                                *)

\* What find_parent takes back, the move makes again.
LEMMA UndoFacts ==
  ASSUME NEW b \in Board, NEW d \in Dir, CanUndo(b, d)
  PROVE  /\ Undo(b, d) \in Board
         /\ CanMove(Undo(b, d), d)
         /\ MoveBlank(Undo(b, d), d) = b
<1> DEFINE e == toggle_dir(d)
           u == Undo(b, d)
<1>1. e \in Dir /\ toggle_dir(e) = d
  BY DEF Dir, toggle_dir
<1>2. u = MoveBlank(b, e) /\ Target(Blank(b), e) \in Cell
  BY DEF Undo, Origin, MoveBlank, CanUndo
<1> HIDE DEF e, u
<1>3. CanMove(b, e)
  BY <1>1, <1>2, CanMoveIsInside
<1>4. u \in Board /\ CanUndo(u, e) /\ Undo(u, e) = b
  BY <1>1, <1>2, <1>3, MoveFacts
<1>5. Target(Blank(u), d) \in Cell /\ MoveBlank(u, d) = b
  BY <1>1, <1>4 DEF CanUndo, Undo, Origin, MoveBlank
<1>6. CanMove(u, d)
  BY <1>4, <1>5, CanMoveIsInside
<1> QED
  BY <1>4, <1>5, <1>6 DEF u

LEMMA NeighboursBack ==
  ASSUME NEW b \in Board, NEW x \in Neighbours(b)
  PROVE  x \in Board /\ b \in Neighbours(x)
<1>1. PICK d \in Dir : CanMove(b, d) /\ x = MoveBlank(b, d)
  BY DEF Neighbours
<1> DEFINE e == toggle_dir(d)
<1>2. e \in Dir
  BY DEF Dir, toggle_dir
<1>3. x \in Board /\ CanUndo(x, d) /\ Undo(x, d) = b
  BY <1>1, MoveFacts
<1>4. Target(Blank(x), e) \in Cell /\ MoveBlank(x, e) = b
  BY <1>3 DEF CanUndo, Undo, Origin, MoveBlank
<1> HIDE DEF e
<1>5. CanMove(x, e)
  BY <1>2, <1>3, <1>4, CanMoveIsInside
<1> QED
  BY <1>2, <1>3, <1>4, <1>5 DEF Neighbours

-----------------------------------------------------------------------------
(* Lists of nodes.                                                         *)

\* The boards of a concatenation are those of its parts.
LEMMA BoardsConcat ==
  ASSUME NEW s \in Seq(Node), NEW t \in Seq(Node)
  PROVE  /\ s \o t \in Seq(Node)
         /\ Boards(s \o t) = Boards(s) \cup Boards(t)
<1>1. s \o t \in Seq(Node) /\ Len(s \o t) = Len(s) + Len(t)
  OBVIOUS
<1>2. Boards(s \o t) \subseteq Boards(s) \cup Boards(t)
  BY DEF Boards
<1>3. \A i \in DOMAIN s : i \in DOMAIN (s \o t) /\ (s \o t)[i] = s[i]
  OBVIOUS
<1>4. \A i \in DOMAIN t : Len(s) + i \in DOMAIN (s \o t) /\ (s \o t)[Len(s) + i] = t[i]
  OBVIOUS
<1>5. Boards(s) \subseteq Boards(s \o t)
  BY <1>3 DEF Boards
<1>6. Boards(t) \subseteq Boards(s \o t)
  BY <1>4 DEF Boards
<1> QED
  BY <1>1, <1>2, <1>5, <1>6

\* Two lists without repetition and without a board in common make one list
\* without repetition.
LEMMA DistinctConcat ==
  ASSUME NEW s \in Seq(Node), NEW t \in Seq(Node),
         Distinct(s), Distinct(t), Boards(s) \cap Boards(t) = {}
  PROVE  Distinct(s \o t)
<1> SUFFICES ASSUME NEW i \in DOMAIN (s \o t), NEW j \in DOMAIN (s \o t),
                    (s \o t)[i].board = (s \o t)[j].board
             PROVE  i = j
  BY DEF Distinct
<1>1. \A k \in DOMAIN (s \o t) :
        \/ k \in DOMAIN s /\ (s \o t)[k] = s[k]
        \/ k - Len(s) \in DOMAIN t /\ (s \o t)[k] = t[k - Len(s)]
  OBVIOUS
<1>2. i \in Int /\ j \in Int /\ Len(s) \in Int
  OBVIOUS
<1>3. \A k \in DOMAIN s : s[k].board \in Boards(s)
  BY DEF Boards
<1>4. \A k \in DOMAIN t : t[k].board \in Boards(t)
  BY DEF Boards
<1> QED
  BY <1>1, <1>2, <1>3, <1>4 DEF Distinct

\* One node more at the end.
LEMMA BoardsAppend ==
  ASSUME NEW s \in Seq(Node), NEW n \in Node
  PROVE  /\ Append(s, n) \in Seq(Node)
         /\ Boards(Append(s, n)) = Boards(s) \cup {n.board}
         /\ Distinct(s) /\ n.board \notin Boards(s) => Distinct(Append(s, n))
<1> DEFINE a == Append(s, n)
<1>1. /\ a \in Seq(Node) /\ DOMAIN a = 1 .. (Len(s) + 1) /\ DOMAIN s = 1 .. Len(s)
      /\ Len(s) \in Nat
      /\ \A i \in DOMAIN s : a[i] = s[i]
      /\ a[Len(s) + 1] = n
  OBVIOUS
<1> HIDE DEF a
<1>2. Boards(a) = Boards(s) \cup {n.board}
  <2>1. Boards(a) \subseteq Boards(s) \cup {n.board}
    BY <1>1 DEF Boards
  <2>2. Boards(s) \subseteq Boards(a)
    BY <1>1 DEF Boards
  <2>3. n.board \in Boards(a)
    BY <1>1 DEF Boards
  <2> QED
    BY <2>1, <2>2, <2>3
<1>3. ASSUME Distinct(s), n.board \notin Boards(s) PROVE Distinct(a)
  BY <1>1, <1>3 DEF Distinct, Boards
<1> QED
  BY <1>1, <1>2, <1>3 DEF a

\* One node more at the front.
LEMMA BoardsCons ==
  ASSUME NEW s \in Seq(Node), NEW n \in Node
  PROVE  /\ <<n>> \o s \in Seq(Node)
         /\ Boards(<<n>> \o s) = Boards(s) \cup {n.board}
         /\ Distinct(s) /\ n.board \notin Boards(s) => Distinct(<<n>> \o s)
<1> DEFINE u == <<n>>
<1>1. u \in Seq(Node) /\ DOMAIN u = {1} /\ u[1] = n
  OBVIOUS
<1> HIDE DEF u
<1>2. Boards(u) = {n.board}
  BY <1>1 DEF Boards
<1>3. Distinct(u)
  BY <1>1 DEF Distinct
<1>4. u \o s \in Seq(Node) /\ Boards(u \o s) = Boards(s) \cup {n.board}
  BY <1>1, <1>2, BoardsConcat
<1>5. Distinct(s) /\ n.board \notin Boards(s) => Distinct(u \o s)
  BY <1>1, <1>2, <1>3, DistinctConcat
<1> QED
  BY <1>4, <1>5 DEF u

\* The head taken off.
LEMMA BoardsHeadTail ==
  ASSUME NEW s \in Seq(Node), s # <<>>
  PROVE  /\ Head(s) \in Node
         /\ Tail(s) \in Seq(Node)
         /\ Boards(s) = {Head(s).board} \cup Boards(Tail(s))
         /\ Distinct(s) => Distinct(Tail(s)) /\ Head(s).board \notin Boards(Tail(s))
<1>1. /\ Head(s) \in Node /\ Head(s) = s[1]
      /\ Tail(s) \in Seq(Node)
      /\ Len(s) \in Nat /\ Len(s) >= 1
      /\ DOMAIN s = 1 .. Len(s) /\ DOMAIN Tail(s) = 1 .. (Len(s) - 1)
      /\ \A i \in DOMAIN Tail(s) : Tail(s)[i] = s[i + 1]
  OBVIOUS
<1> DEFINE h == Head(s)
           t == Tail(s)
<1> HIDE DEF h, t
<1>2. Boards(s) \subseteq {h.board} \cup Boards(t)
  <2> SUFFICES ASSUME NEW i \in DOMAIN s PROVE s[i].board \in {h.board} \cup Boards(t)
    BY DEF Boards
  <2>1. CASE i = 1
    BY <1>1, <2>1 DEF h
  <2>2. CASE i # 1
    <3>1. i - 1 \in DOMAIN t /\ t[i - 1] = s[i]
      BY <1>1, <2>2 DEF t
    <3> QED
      BY <3>1 DEF Boards
  <2> QED
    BY <2>1, <2>2
<1>3. \A i \in DOMAIN t : i + 1 \in DOMAIN s /\ t[i] = s[i + 1]
  BY <1>1 DEF t
<1>4. {h.board} \cup Boards(t) \subseteq Boards(s)
  BY <1>1, <1>3 DEF Boards, h
<1>5. ASSUME Distinct(s) PROVE Distinct(t) /\ h.board \notin Boards(t)
  <2>1. \A i \in DOMAIN t : i \in Int /\ i >= 1
    BY <1>1 DEF t
  <2>2. 1 \in DOMAIN s /\ h = s[1]
    BY <1>1 DEF h
  <2> QED
    BY <1>3, <1>5, <2>1, <2>2 DEF Distinct, Boards
<1> QED
  BY <1>1, <1>2, <1>4, <1>5 DEF h, t

-----------------------------------------------------------------------------
(* The successors of a node.                                               *)

\* Four lists of at most one node, one after the other.
LEMMA FourShort ==
  ASSUME NEW S, NEW a \in Seq(S), NEW b \in Seq(S), NEW c \in Seq(S), NEW d \in Seq(S),
         Len(a) <= 1, Len(b) <= 1, Len(c) <= 1, Len(d) <= 1
  PROVE  LET s == a \o b \o c \o d
         IN  /\ s \in Seq(S)
             /\ Len(s) = Len(a) + Len(b) + Len(c) + Len(d)
             /\ \A k \in 1 .. Len(s) :
                  s[k] = IF k <= Len(a) THEN a[1]
                         ELSE IF k <= Len(a) + Len(b) THEN b[1]
                         ELSE IF k <= Len(a) + Len(b) + Len(c) THEN c[1]
                         ELSE d[1]
<1> DEFINE ab == a \o b
           abc == ab \o c
           s == abc \o d
<1>1. /\ ab \in Seq(S) /\ Len(ab) = Len(a) + Len(b)
      /\ \A k \in 1 .. Len(ab) : ab[k] = IF k <= Len(a) THEN a[1] ELSE b[1]
  OBVIOUS
<1> HIDE DEF ab
<1>2. /\ abc \in Seq(S) /\ Len(abc) = Len(ab) + Len(c)
      /\ \A k \in 1 .. Len(abc) : abc[k] = IF k <= Len(ab) THEN ab[k] ELSE c[1]
  BY <1>1
<1> HIDE DEF abc
<1>3. /\ s \in Seq(S) /\ Len(s) = Len(abc) + Len(d)
      /\ \A k \in 1 .. Len(s) : s[k] = IF k <= Len(abc) THEN abc[k] ELSE d[1]
  BY <1>2
<1> HIDE DEF s
<1>4. Len(s) = Len(a) + Len(b) + Len(c) + Len(d)
  BY <1>1, <1>2, <1>3
<1>5. ASSUME NEW k \in 1 .. Len(s)
      PROVE  s[k] = IF k <= Len(a) THEN a[1]
                    ELSE IF k <= Len(a) + Len(b) THEN b[1]
                    ELSE IF k <= Len(a) + Len(b) + Len(c) THEN c[1]
                    ELSE d[1]
  BY <1>1, <1>2, <1>3
<1> QED
  BY <1>3, <1>4, <1>5 DEF s, abc, ab

\* What move makes.
LEMMA MoveType ==
  ASSUME NEW n \in Node, NEW d \in Dir, CanMove(n.board, d)
  PROVE  /\ move(n, d) \in Node
         /\ move(n, d).board = MoveBlank(n.board, d)
         /\ move(n, d).board \in Board
         /\ IsParent(strategy, move(n, d), n)
<1>1. n.board \in Board /\ n.g \in Nat
  BY DEF Node
<1>2. MoveBlank(n.board, d) \in Board /\ find_h(MoveBlank(n.board, d)) \in Nat
  BY <1>1, MoveFacts, HeuristicType
<1> DEFINE m == move(n, d)
<1>3. /\ m.board = MoveBlank(n.board, d) /\ m.dir = d
      /\ m.f \in Nat /\ m.g \in Nat /\ m.h \in Nat
      /\ m = [board |-> m.board, f |-> m.f, g |-> m.g, h |-> m.h, dir |-> m.dir]
      /\ strategy \in {"astar", "best"} => m.g = n.g + 1 /\ m.f = m.g + m.h
  BY <1>1, <1>2 DEF move
<1> HIDE DEF m
<1>4. m \in Node
  BY <1>2, <1>3 DEF Node
<1>5. IsParent(strategy, m, n)
  BY <1>1, <1>3, MoveFacts DEF IsParent
<1> QED
  BY <1>2, <1>3, <1>4, <1>5 DEF m

\* A node of s made by a legal move from n.
IsMoveOf(m, n) == \E d \in Dir : CanMove(n.board, d) /\ m = move(n, d)

\* The goal is nowhere in the list but at its head.
GoalFirst(s) == \A i \in DOMAIN s : s[i].board = GoalBoard => i = 1

\* The blank of the goal is in the last cell, and only a move down or a move
\* right brings it there; the one down is then the first, and if it is the
\* one right there is none down.
LEMMA GoalMoves ==
  ASSUME NEW b \in Board, NEW d \in Dir, CanMove(b, d), MoveBlank(b, d) = GoalBoard
  PROVE  d = "DN" \/ (d = "RT" /\ ~CanMove(b, "DN"))
<1>1. GoalBoard \in Board
  BY MoveFacts
<1>2. <<N - 1, N - 1>> \in Cell /\ GoalBoard[<<N - 1, N - 1>>] = 0
  BY NAssumption DEF Cell, Row, GoalBoard
<1>3. Blank(GoalBoard) = <<N - 1, N - 1>>
  BY <1>1, <1>2, BlankFacts
<1>4. Target(Blank(b), d) = <<N - 1, N - 1>>
  BY <1>3, MoveFacts
<1>5. PICK i \in Row, j \in Row : Blank(b) = <<i, j>>
  BY BlankFacts DEF Cell
<1>6. i \in Int /\ j \in Int /\ i < N /\ j < N
  BY NAssumption DEF Row
<1>7. d # "UP"
  BY <1>4, <1>5, <1>6, Targets, NAssumption
<1>8. d # "LT"
  BY <1>4, <1>5, <1>6, Targets, NAssumption
<1>9. CASE d = "RT"
  <2>1. i = N - 1
    BY <1>4, <1>5, <1>9, Targets
  <2>2. Target(Blank(b), "DN") = <<N, j>>
    BY <1>5, <2>1, Targets, NAssumption
  <2>3. Target(Blank(b), "DN") \notin Cell
    BY <2>2, NAssumption DEF Cell, Row
  <2> QED
    BY <1>9, <2>3, CanMoveIsInside DEF Dir
<1> QED
  BY <1>7, <1>8, <1>9 DEF Dir

LEMMA MovedFacts ==
  ASSUME NEW n \in Node, NEW d \in Dir
  PROVE  /\ Moved(n, d) \in Seq(Node)
         /\ Len(Moved(n, d)) <= 1
         /\ Len(Moved(n, d)) = IF CanMove(n.board, d) THEN 1 ELSE 0
         /\ CanMove(n.board, d) => Moved(n, d)[1] = move(n, d)
<1>1. CASE CanMove(n.board, d)
  <2>1. Moved(n, d) = <<move(n, d)>> /\ move(n, d) \in Node
    BY <1>1, MoveType DEF Moved
  <2> QED
    BY <1>1, <2>1
<1>2. CASE ~CanMove(n.board, d)
  BY <1>2 DEF Moved
<1> QED
  BY <1>1, <1>2

\* expand lists every legal move once, with the goal at the head if at all.
LEMMA ExpandFacts ==
  ASSUME NEW n \in Node
  PROVE  LET s == expand(n)
         IN  /\ s \in Seq(Node)
             /\ Len(s) <= 4
             /\ \A i \in DOMAIN s : IsMoveOf(s[i], n)
             /\ \A d \in Dir : CanMove(n.board, d) => MoveBlank(n.board, d) \in Boards(s)
             /\ Distinct(s)
             /\ GoalFirst(s)
<1> DEFINE s == expand(n)
           la == Len(Moved(n, "DN"))
           lb == Len(Moved(n, "RT"))
           lc == Len(Moved(n, "UP"))
           ld == Len(Moved(n, "LT"))
           dir(k) == IF k <= la THEN "DN"
                     ELSE IF k <= la + lb THEN "RT"
                     ELSE IF k <= la + lb + lc THEN "UP" ELSE "LT"
<1>1. n.board \in Board
  BY DEF Node
<1>2. /\ la = (IF CanMove(n.board, "DN") THEN 1 ELSE 0)
      /\ lb = (IF CanMove(n.board, "RT") THEN 1 ELSE 0)
      /\ lc = (IF CanMove(n.board, "UP") THEN 1 ELSE 0)
      /\ ld = (IF CanMove(n.board, "LT") THEN 1 ELSE 0)
  BY MovedFacts DEF Dir
<1>3. /\ s \in Seq(Node)
      /\ Len(s) = la + lb + lc + ld
      /\ \A k \in 1 .. Len(s) : s[k] = Moved(n, dir(k))[1]
  <2>1. \A d \in Dir : Moved(n, d) \in Seq(Node) /\ Len(Moved(n, d)) <= 1
    BY MovedFacts
  <2>2. /\ Moved(n, "DN") \in Seq(Node) /\ la <= 1
        /\ Moved(n, "RT") \in Seq(Node) /\ lb <= 1
        /\ Moved(n, "UP") \in Seq(Node) /\ lc <= 1
        /\ Moved(n, "LT") \in Seq(Node) /\ ld <= 1
    BY <2>1 DEF Dir
  <2> QED
    BY <2>2, FourShort DEF expand
<1>4. DOMAIN s = 1 .. Len(s)
  BY <1>3
<1> HIDE DEF s, la, lb, lc, ld
<1>5. ASSUME NEW k \in 1 .. Len(s)
      PROVE  dir(k) \in Dir /\ CanMove(n.board, dir(k)) /\ s[k] = move(n, dir(k))
  <2>1. dir(k) \in Dir /\ CanMove(n.board, dir(k))
    BY <1>2, <1>3 DEF Dir
  <2> QED
    BY <1>3, <2>1, MovedFacts
<1>6. \A k, m \in 1 .. Len(s) : dir(k) = dir(m) => k = m
  BY <1>2, <1>3
<1>7. ASSUME NEW d \in Dir, CanMove(n.board, d)
      PROVE  \E k \in 1 .. Len(s) : dir(k) = d
  <2>1. CASE d = "DN"
    BY <1>2, <1>3, <1>7, <2>1
  <2>2. CASE d = "RT"
    <3>1. la + 1 \in 1 .. Len(s) /\ dir(la + 1) = "RT"
      BY <1>2, <1>3, <1>7, <2>2
    <3> QED
      BY <2>2, <3>1
  <2>3. CASE d = "UP"
    <3>1. la + lb + 1 \in 1 .. Len(s) /\ dir(la + lb + 1) = "UP"
      BY <1>2, <1>3, <1>7, <2>3
    <3> QED
      BY <2>3, <3>1
  <2>4. CASE d = "LT"
    <3>1. la + lb + lc + 1 \in 1 .. Len(s) /\ dir(la + lb + lc + 1) = "LT"
      BY <1>2, <1>3, <1>7, <2>4
    <3> QED
      BY <2>4, <3>1
  <2> QED
    BY <2>1, <2>2, <2>3, <2>4 DEF Dir
<1> HIDE DEF dir
<1>8. \A i \in DOMAIN s : IsMoveOf(s[i], n)
  BY <1>4, <1>5 DEF IsMoveOf
<1>9. \A k \in 1 .. Len(s) : s[k].board = MoveBlank(n.board, dir(k))
  BY <1>5, MoveType
<1>10. ASSUME NEW d \in Dir, CanMove(n.board, d) PROVE MoveBlank(n.board, d) \in Boards(s)
  BY <1>4, <1>7, <1>9, <1>10 DEF Boards
<1>11. Distinct(s)
  BY <1>1, <1>4, <1>5, <1>6, <1>9, MovesDiffer DEF Distinct
<1>12. GoalFirst(s)
  <2> SUFFICES ASSUME NEW k \in 1 .. Len(s), s[k].board = GoalBoard PROVE k = 1
    BY <1>4 DEF GoalFirst
  <2>1. dir(k) = "DN" \/ (dir(k) = "RT" /\ ~CanMove(n.board, "DN"))
    BY <1>1, <1>5, <1>9, GoalMoves
  <2> QED
    BY <1>2, <2>1 DEF dir
<1> QED
  BY <1>3, <1>2, <1>8, <1>10, <1>11, <1>12 DEF s

LEMMA KeptFacts ==
  ASSUME NEW s \in Seq(Node), NEW i \in Nat, NEW hp
  PROVE  /\ Kept(s, i, hp) \in Seq(Node)
         /\ Len(Kept(s, i, hp)) <= 1
         /\ Len(Kept(s, i, hp)) = IF i \in DOMAIN s /\ s[i].board \notin Boards(hp) THEN 1 ELSE 0
         /\ i \in DOMAIN s /\ s[i].board \notin Boards(hp) => Kept(s, i, hp)[1] = s[i]
<1>1. CASE i \in DOMAIN s /\ s[i].board \notin Boards(hp)
  <2>1. Kept(s, i, hp) = <<s[i]>> /\ s[i] \in Node
    BY <1>1 DEF Kept
  <2> QED
    BY <1>1, <2>1
<1>2. CASE ~(i \in DOMAIN s /\ s[i].board \notin Boards(hp))
  BY <1>2 DEF Kept
<1> QED
  BY <1>1, <1>2

\* filter keeps, in their order, exactly the nodes whose board is not in hp.
LEMMA FilterKeeps ==
  ASSUME NEW s \in Seq(Node), Len(s) <= 4, NEW hp
  PROVE  LET r == filter(s, hp)
         IN  /\ r \in Seq(Node) /\ Len(r) <= 4
             /\ \A k \in DOMAIN r : \E i \in DOMAIN s : r[k] = s[i]
             /\ Boards(r) = Boards(s) \ Boards(hp)
             /\ Distinct(s) => Distinct(r)
             /\ GoalFirst(s) => GoalFirst(r)
<1> DEFINE r == filter(s, hp)
           keep(i) == i \in DOMAIN s /\ s[i].board \notin Boards(hp)
           la == Len(Kept(s, 1, hp))
           lb == Len(Kept(s, 2, hp))
           lc == Len(Kept(s, 3, hp))
           ld == Len(Kept(s, 4, hp))
           at(k) == IF k <= la THEN 1 ELSE IF k <= la + lb THEN 2
                    ELSE IF k <= la + lb + lc THEN 3 ELSE 4
<1>1. /\ la = (IF keep(1) THEN 1 ELSE 0)
      /\ lb = (IF keep(2) THEN 1 ELSE 0)
      /\ lc = (IF keep(3) THEN 1 ELSE 0)
      /\ ld = (IF keep(4) THEN 1 ELSE 0)
  BY KeptFacts
<1>2. /\ r \in Seq(Node)
      /\ Len(r) = la + lb + lc + ld
      /\ \A k \in 1 .. Len(r) : r[k] = Kept(s, at(k), hp)[1]
  <2>1. /\ Kept(s, 1, hp) \in Seq(Node) /\ la <= 1
        /\ Kept(s, 2, hp) \in Seq(Node) /\ lb <= 1
        /\ Kept(s, 3, hp) \in Seq(Node) /\ lc <= 1
        /\ Kept(s, 4, hp) \in Seq(Node) /\ ld <= 1
    BY KeptFacts
  <2>2. /\ r \in Seq(Node)
        /\ Len(r) = la + lb + lc + ld
        /\ \A k \in 1 .. Len(r) :
             r[k] = IF k <= la THEN Kept(s, 1, hp)[1]
                    ELSE IF k <= la + lb THEN Kept(s, 2, hp)[1]
                    ELSE IF k <= la + lb + lc THEN Kept(s, 3, hp)[1]
                    ELSE Kept(s, 4, hp)[1]
    BY <2>1, FourShort DEF filter
  <2> HIDE DEF r, la, lb, lc, ld
  <2> QED
    BY <2>2
<1>3. DOMAIN r = 1 .. Len(r) /\ DOMAIN s = 1 .. Len(s) /\ Len(s) \in Nat
  BY <1>2
<1> HIDE DEF r, la, lb, lc, ld
<1>4. \A k \in 1 .. Len(r) : at(k) \in 1 .. 4 /\ keep(at(k))
  <2> HIDE DEF keep
  <2> QED
    BY <1>1, <1>2
<1>5. \A k \in 1 .. Len(r) : r[k] = s[at(k)]
  <2>1. ASSUME NEW i \in 1 .. 4, keep(i) PROVE Kept(s, i, hp)[1] = s[i]
    <3>1. i \in Nat
      OBVIOUS
    <3> QED
      BY <2>1, <3>1, KeptFacts
  <2> HIDE DEF keep
  <2> QED
    BY <1>2, <1>4, <2>1
<1>6. \A k, m \in 1 .. Len(r) : k < m => at(k) < at(m)
  <2> HIDE DEF keep
  <2> QED
    BY <1>1, <1>2
<1>7. ASSUME NEW i \in DOMAIN s, s[i].board \notin Boards(hp)
      PROVE  \E k \in DOMAIN r : r[k] = s[i]
  <2>1. keep(i) /\ i \in 1 .. 4
    BY <1>3, <1>7
  <2> HIDE DEF keep
  <2>2. CASE i = 1
    <3>1. 1 \in 1 .. Len(r) /\ at(1) = 1
      BY <1>1, <1>2, <2>1, <2>2
    <3> QED
      BY <1>3, <1>5, <2>2, <3>1
  <2>3. CASE i = 2
    <3>1. la + 1 \in 1 .. Len(r) /\ at(la + 1) = 2
      BY <1>1, <1>2, <2>1, <2>3
    <3> QED
      BY <1>3, <1>5, <2>3, <3>1
  <2>4. CASE i = 3
    <3>1. la + lb + 1 \in 1 .. Len(r) /\ at(la + lb + 1) = 3
      BY <1>1, <1>2, <2>1, <2>4
    <3> QED
      BY <1>3, <1>5, <2>4, <3>1
  <2>5. CASE i = 4
    <3>1. la + lb + lc + 1 \in 1 .. Len(r) /\ at(la + lb + lc + 1) = 4
      BY <1>1, <1>2, <2>1, <2>5
    <3> QED
      BY <1>3, <1>5, <2>5, <3>1
  <2> QED
    BY <2>1, <2>2, <2>3, <2>4, <2>5
<1> HIDE DEF at
<1>8. \A k \in DOMAIN r : at(k) \in DOMAIN s /\ r[k] = s[at(k)] /\ r[k].board \notin Boards(hp)
  BY <1>3, <1>4, <1>5
<1>9. Boards(r) = Boards(s) \ Boards(hp)
  <2>1. Boards(r) \subseteq Boards(s) \ Boards(hp)
    BY <1>8 DEF Boards
  <2>2. Boards(s) \ Boards(hp) \subseteq Boards(r)
    BY <1>7 DEF Boards
  <2> QED
    BY <2>1, <2>2
<1>10. ASSUME Distinct(s) PROVE Distinct(r)
  <2> SUFFICES ASSUME NEW k \in DOMAIN r, NEW m \in DOMAIN r, r[k].board = r[m].board
               PROVE  k = m
    BY DEF Distinct
  <2>1. at(k) = at(m)
    BY <1>8, <1>10 DEF Distinct
  <2>2. ~(k < m) /\ ~(m < k)
    BY <1>3, <1>6, <1>8, <2>1
  <2> QED
    BY <1>2, <1>3, <2>2
<1>11. ASSUME GoalFirst(s) PROVE GoalFirst(r)
  <2> SUFFICES ASSUME NEW k \in DOMAIN r, r[k].board = GoalBoard, k # 1 PROVE FALSE
    BY DEF GoalFirst
  <2>1. at(k) = 1
    BY <1>8, <1>11 DEF GoalFirst
  <2>2. 1 \in 1 .. Len(r) /\ k \in 1 .. Len(r) /\ 1 < k
    BY <1>2, <1>3
  <2>3. at(1) < at(k) /\ at(1) \in 1 .. Len(s)
    BY <1>3, <1>6, <1>8, <2>2
  <2> QED
    BY <2>1, <2>3
<1>12. Len(r) <= 4
  BY <1>1, <1>2
<1> QED
  BY <1>2, <1>8, <1>9, <1>10, <1>11, <1>12 DEF r

\* The list of new successors of a node of open: its legal moves that neither
\* the rest of open nor closed holds, each once, the goal first.
NewSuccessors(n, o, c) == filter(filter(expand(n), o), c)

LEMMA NewSuccessorsFacts ==
  ASSUME NEW n \in Node, NEW o \in Seq(Node), NEW c \in Seq(Node)
  PROVE  LET s == NewSuccessors(n, o, c)
         IN  /\ s \in Seq(Node)
             /\ \A i \in DOMAIN s : IsMoveOf(s[i], n)
             /\ Boards(s) = Neighbours(n.board) \ (Boards(o) \cup Boards(c))
             /\ n.board \notin Boards(s)
             /\ Distinct(s)
             /\ GoalFirst(s)
<1> DEFINE e == expand(n)
           f == filter(e, o)
           s == filter(f, c)
<1>1. /\ e \in Seq(Node) /\ Len(e) <= 4
      /\ \A i \in DOMAIN e : IsMoveOf(e[i], n)
      /\ \A d \in Dir : CanMove(n.board, d) => MoveBlank(n.board, d) \in Boards(e)
      /\ Distinct(e) /\ GoalFirst(e)
  BY ExpandFacts, Zenon
<1> HIDE DEF e
<1>2. /\ f \in Seq(Node) /\ Len(f) <= 4
      /\ \A k \in DOMAIN f : \E i \in DOMAIN e : f[k] = e[i]
      /\ Boards(f) = Boards(e) \ Boards(o)
      /\ Distinct(f) /\ GoalFirst(f)
  BY <1>1, FilterKeeps, Zenon
<1> HIDE DEF f
<1>3. /\ s \in Seq(Node) /\ Len(s) <= 4
      /\ \A k \in DOMAIN s : \E i \in DOMAIN f : s[k] = f[i]
      /\ Boards(s) = Boards(f) \ Boards(c)
      /\ Distinct(s) /\ GoalFirst(s)
  BY <1>2, FilterKeeps, Zenon
<1>4. s = NewSuccessors(n, o, c)
  BY DEF NewSuccessors, f, e
<1> HIDE DEF s
<1>5. n.board \in Board
  BY DEF Node
<1>6. Boards(e) = Neighbours(n.board)
  <2>1. Neighbours(n.board) \subseteq Boards(e)
    BY <1>1 DEF Neighbours
  <2>2. ASSUME NEW i \in DOMAIN e PROVE e[i].board \in Neighbours(n.board)
    <3>1. PICK d \in Dir : CanMove(n.board, d) /\ e[i] = move(n, d)
      BY <1>1 DEF IsMoveOf
    <3>2. e[i].board = MoveBlank(n.board, d)
      BY <3>1, MoveType
    <3> QED
      BY <3>1, <3>2 DEF Neighbours
  <2>3. Boards(e) \subseteq Neighbours(n.board)
    BY <2>2 DEF Boards
  <2> QED
    BY <2>1, <2>3
<1>7. n.board \notin Neighbours(n.board)
  BY <1>5, MoveFacts DEF Neighbours
<1>8. \A i \in DOMAIN s : IsMoveOf(s[i], n)
  BY <1>1, <1>2, <1>3
<1> QED
  BY <1>2, <1>3, <1>4, <1>6, <1>7, <1>8

-----------------------------------------------------------------------------
(* The boards at most k moves from b.                                       *)

\* One move more than the set X.
Reach(X) == X \cup UNION {Neighbours(x) : x \in X}

\* The function that Ball is defined with.
IsBalls(B, b, k) == B = [i \in 0 .. k |-> IF i = 0 THEN {b} ELSE Reach(B[i - 1])]

LEMMA BallsExist == ASSUME NEW b PROVE \A k \in Nat : \E B : IsBalls(B, b, k)
<1> DEFINE S == {k \in Nat : \E B : IsBalls(B, b, k)}
<1>1. 0 \in S
  <2> DEFINE B == [i \in 0 .. 0 |-> {b}]
  <2>1. IsBalls(B, b, 0)
    BY DEF IsBalls
  <2> QED
    BY <2>1
<1>2. ASSUME NEW k \in Nat, k \in S PROVE k + 1 \in S
  <2>1. PICK B : IsBalls(B, b, k)
    BY <1>2
  <2> DEFINE C == [i \in 0 .. (k + 1) |-> IF i = k + 1 THEN Reach(B[k]) ELSE B[i]]
             D == [i \in 0 .. (k + 1) |-> IF i = 0 THEN {b} ELSE Reach(C[i - 1])]
  <2>2. \A i \in 0 .. k : B[i] = IF i = 0 THEN {b} ELSE Reach(B[i - 1])
    BY <2>1 DEF IsBalls
  <2>3. ASSUME NEW i \in 0 .. (k + 1) PROVE C[i] = D[i]
    <3>1. CASE i = k + 1
      BY <3>1
    <3>2. CASE i # k + 1
      <4>1. i \in 0 .. k /\ C[i] = B[i] /\ (i # 0 => C[i - 1] = B[i - 1])
        BY <3>2
      <4>2. D[i] = IF i = 0 THEN {b} ELSE Reach(C[i - 1])
        OBVIOUS
      <4> HIDE DEF C, D
      <4> QED
        BY <2>2, <4>1, <4>2
    <3> QED
      BY <3>1, <3>2
  <2>4. C = D
    BY <2>3
  <2>5. IsBalls(C, b, k + 1)
    BY <2>4 DEF IsBalls
  <2> QED
    BY <2>5
<1> HIDE DEF S
<1>3. Nat \subseteq S
  BY <1>1, <1>2, Induction
<1> QED
  BY <1>3 DEF S

\* Two of them agree where both are defined.
LEMMA BallsAgree ==
  ASSUME NEW b, NEW k \in Nat, NEW m \in Nat, NEW B, NEW C, IsBalls(B, b, k), IsBalls(C, b, m)
  PROVE  \A i \in Nat : i <= k /\ i <= m => B[i] = C[i]
<1> DEFINE S == {i \in Nat : i <= k /\ i <= m => B[i] = C[i]}
<1>1. /\ \A i \in 0 .. k : B[i] = IF i = 0 THEN {b} ELSE Reach(B[i - 1])
      /\ \A i \in 0 .. m : C[i] = IF i = 0 THEN {b} ELSE Reach(C[i - 1])
  BY DEF IsBalls
<1>2. 0 \in S
  BY <1>1
<1>3. ASSUME NEW i \in Nat, i \in S PROVE i + 1 \in S
  <2>1. SUFFICES ASSUME i + 1 <= k, i + 1 <= m PROVE B[i + 1] = C[i + 1]
    OBVIOUS
  <2>2. i + 1 \in 0 .. k /\ i + 1 \in 0 .. m /\ i + 1 # 0 /\ i + 1 - 1 = i /\ i <= k /\ i <= m
    BY <2>1
  <2>3. B[i] = C[i]
    BY <1>3, <2>2
  <2> QED
    BY <1>1, <2>2, <2>3
<1> HIDE DEF S
<1>4. Nat \subseteq S
  BY <1>2, <1>3, Induction
<1> QED
  BY <1>4 DEF S

LEMMA BallIs == ASSUME NEW b, NEW k \in Nat PROVE \E B : IsBalls(B, b, k) /\ Ball(b, k) = B[k]
<1> DEFINE B == CHOOSE B : IsBalls(B, b, k)
<1>1. IsBalls(B, b, k)
  BY BallsExist
<1>2. Ball(b, k) = B[k]
  BY DEF Ball, IsBalls, Reach
<1> QED
  BY <1>1, <1>2

\* The recursion that defines it, in terms of Ball.
LEMMA BallFacts ==
  ASSUME NEW b
  PROVE  /\ Ball(b, 0) = {b}
         /\ \A k \in Nat : Ball(b, k + 1) = Reach(Ball(b, k))
<1>1. Ball(b, 0) = {b}
  BY BallIs DEF IsBalls
<1>2. ASSUME NEW k \in Nat PROVE Ball(b, k + 1) = Reach(Ball(b, k))
  <2>1. PICK B : IsBalls(B, b, k) /\ Ball(b, k) = B[k]
    BY BallIs
  <2>2. PICK C : IsBalls(C, b, k + 1) /\ Ball(b, k + 1) = C[k + 1]
    BY BallIs
  <2>3. C[k + 1] = Reach(C[k])
    <3>1. k + 1 \in 0 .. (k + 1) /\ k + 1 # 0 /\ k + 1 - 1 = k
      OBVIOUS
    <3>2. \A i \in 0 .. (k + 1) : C[i] = IF i = 0 THEN {b} ELSE Reach(C[i - 1])
      BY <2>2 DEF IsBalls
    <3> QED
      BY <3>1, <3>2
  <2>4. k + 1 \in Nat /\ k <= k + 1
    OBVIOUS
  <2>5. B[k] = C[k]
    BY <2>1, <2>2, <2>4, BallsAgree
  <2> QED
    BY <2>1, <2>2, <2>3, <2>5
<1> QED
  BY <1>1, <1>2

\* Whatever holds of b and is kept by every move holds of all boards around b.
LEMMA BallClosed ==
  ASSUME NEW b, NEW X, b \in X, \A x \in X : Neighbours(x) \subseteq X
  PROVE  \A k \in Nat : Ball(b, k) \subseteq X
<1> DEFINE S == {k \in Nat : Ball(b, k) \subseteq X}
<1>1. 0 \in S
  BY BallFacts
<1>2. ASSUME NEW k \in Nat, k \in S PROVE k + 1 \in S
  <2>1. Ball(b, k + 1) = Reach(Ball(b, k)) /\ Ball(b, k) \subseteq X
    BY <1>2, BallFacts
  <2>2. Ball(b, k + 1) \subseteq X
    BY <2>1 DEF Reach
  <2> QED
    BY <2>2
<1> HIDE DEF S
<1>3. Nat \subseteq S
  BY <1>1, <1>2, Induction
<1> QED
  BY <1>3 DEF S

-----------------------------------------------------------------------------
(* Distances.                                                               *)

Reachable(s, b) == \E k \in Nat : b \in Ball(s, k)

\* The least number of moves from s to b.
Dist(s, b) == CHOOSE k \in Nat : b \in Ball(s, k) /\ \A j \in Nat : b \in Ball(s, j) => k <= j

LEMMA DistIsLeast ==
  ASSUME NEW s, NEW b, Reachable(s, b)
  PROVE  /\ Dist(s, b) \in Nat /\ b \in Ball(s, Dist(s, b))
         /\ \A j \in Nat : b \in Ball(s, j) => Dist(s, b) <= j
<1> DEFINE S == {k \in Nat : b \in Ball(s, k)}
<1>1. S \in SUBSET Nat /\ S # {}
  BY DEF Reachable
<1>2. PICK k \in S : \A j \in S : k <= j
  BY <1>1, LeastElement
<1>3. k \in Nat /\ b \in Ball(s, k) /\ \A j \in Nat : b \in Ball(s, j) => k <= j
  BY <1>2
<1> QED
  BY <1>3 DEF Dist

LEMMA DistStart == ASSUME NEW s PROVE Reachable(s, s) /\ Dist(s, s) = 0
<1>1. 0 \in Nat /\ s \in Ball(s, 0)
  BY BallFacts
<1>2. Reachable(s, s)
  BY <1>1 DEF Reachable
<1>3. Dist(s, s) \in Nat /\ Dist(s, s) <= 0
  BY <1>1, <1>2, DistIsLeast
<1> QED
  BY <1>2, <1>3

LEMMA DistZero == ASSUME NEW s, NEW b, Reachable(s, b), Dist(s, b) = 0 PROVE b = s
<1>1. b \in Ball(s, 0)
  BY DistIsLeast
<1> QED
  BY <1>1, BallFacts

\* Boards at most k moves from c are at most k farther from s than c is.
LEMMA DistAdds ==
  ASSUME NEW s, NEW c, Reachable(s, c)
  PROVE  \A k \in Nat : \A b \in Ball(c, k) : Reachable(s, b) /\ Dist(s, b) <= Dist(s, c) + k
<1> DEFINE d == Dist(s, c)
           S == {k \in Nat : Ball(c, k) \subseteq Ball(s, d + k)}
<1>1. d \in Nat /\ c \in Ball(s, d)
  BY DistIsLeast
<1> HIDE DEF d
<1>2. 0 \in S
  <2>1. d + 0 = d /\ Ball(c, 0) = {c}
    BY <1>1, BallFacts
  <2> QED
    BY <1>1, <2>1
<1>3. ASSUME NEW k \in Nat, k \in S PROVE k + 1 \in S
  <2>1. d + (k + 1) = d + k + 1 /\ d + k \in Nat
    BY <1>1
  <2>2. Ball(c, k + 1) = Reach(Ball(c, k)) /\ Ball(s, d + k + 1) = Reach(Ball(s, d + k))
    BY <2>1, BallFacts
  <2>3. Ball(c, k) \subseteq Ball(s, d + k)
    BY <1>3
  <2>4. Reach(Ball(c, k)) \subseteq Reach(Ball(s, d + k))
    BY <2>3 DEF Reach
  <2> QED
    BY <2>1, <2>2, <2>4
<1> HIDE DEF S
<1>4. Nat \subseteq S
  BY <1>2, <1>3, Induction
<1>5. ASSUME NEW k \in Nat, NEW b \in Ball(c, k) PROVE Reachable(s, b) /\ Dist(s, b) <= d + k
  <2>1. d + k \in Nat /\ b \in Ball(s, d + k)
    BY <1>1, <1>4, <1>5 DEF S
  <2>2. Reachable(s, b)
    BY <2>1 DEF Reachable
  <2> QED
    BY <2>1, <2>2, DistIsLeast
<1> QED
  BY <1>5 DEF d

LEMMA DistNext ==
  ASSUME NEW s, NEW b, Reachable(s, b), NEW x \in Neighbours(b)
  PROVE  Reachable(s, x) /\ Dist(s, x) <= Dist(s, b) + 1
<1>1. Ball(b, 1) = Reach({b})
  <2>1. 0 \in Nat /\ 0 + 1 = 1
    OBVIOUS
  <2>2. Ball(b, 0 + 1) = Reach(Ball(b, 0)) /\ Ball(b, 0) = {b}
    BY <2>1, BallFacts
  <2> QED
    BY <2>1, <2>2
<1>2. x \in Ball(b, 1) /\ 1 \in Nat
  BY <1>1 DEF Reach
<1> QED
  BY <1>2, DistAdds

\* A board that is not the start has one before it.
LEMMA DistBefore ==
  ASSUME NEW s, NEW x, Reachable(s, x), x # s
  PROVE  \E y : Reachable(s, y) /\ Dist(s, x) = Dist(s, y) + 1 /\ x \in Neighbours(y)
<1> DEFINE k == Dist(s, x)
<1>1. k \in Nat /\ x \in Ball(s, k) /\ \A j \in Nat : x \in Ball(s, j) => k <= j
  BY DistIsLeast
<1>2. k # 0
  BY DistZero
<1> HIDE DEF k
<1>3. k - 1 \in Nat /\ k - 1 + 1 = k /\ ~(k <= k - 1)
  BY <1>1, <1>2
<1>4. Ball(s, k - 1 + 1) = Reach(Ball(s, k - 1)) /\ x \notin Ball(s, k - 1)
  BY <1>1, <1>3, BallFacts
<1>5. PICK y \in Ball(s, k - 1) : x \in Neighbours(y)
  BY <1>1, <1>3, <1>4 DEF Reach
<1>6. Reachable(s, y)
  BY <1>3, <1>5 DEF Reachable
<1>7. Dist(s, y) \in Nat /\ Dist(s, y) <= k - 1
  BY <1>3, <1>5, <1>6, DistIsLeast
<1>8. k <= Dist(s, y) + 1
  BY <1>5, <1>6, DistNext DEF k
<1>9. k = Dist(s, y) + 1
  BY <1>1, <1>7, <1>8
<1> QED
  BY <1>5, <1>6, <1>9 DEF k

LEMMA WayBack ==
  ASSUME NEW b \in Board
  PROVE  \A k \in Nat : \A x \in Ball(b, k) : x \in Board /\ Reachable(x, b)
<1> DEFINE S == {k \in Nat : \A x \in Ball(b, k) : x \in Board /\ Reachable(x, b)}
<1>1. 0 \in S
  BY BallFacts, DistStart
<1>2. ASSUME NEW k \in Nat, k \in S PROVE k + 1 \in S
  <2> SUFFICES ASSUME NEW x \in Ball(b, k + 1) PROVE x \in Board /\ Reachable(x, b)
    OBVIOUS
  <2>1. Ball(b, k + 1) = Reach(Ball(b, k))
    BY BallFacts
  <2>2. x \in Ball(b, k) \/ \E y \in Ball(b, k) : x \in Neighbours(y)
    BY <2>1 DEF Reach
  <2>3. ASSUME NEW y \in Ball(b, k), x \in Neighbours(y) PROVE x \in Board /\ Reachable(x, b)
    <3>1. y \in Board /\ Reachable(y, b)
      BY <1>2
    <3>2. x \in Board /\ y \in Neighbours(x)
      BY <2>3, <3>1, NeighboursBack
    <3>3. Reachable(x, y)
      BY <3>2, DistStart, DistNext
    <3>4. PICK j \in Nat : b \in Ball(y, j)
      BY <3>1 DEF Reachable
    <3> QED
      BY <3>2, <3>3, <3>4, DistAdds
  <2> QED
    BY <1>2, <2>2, <2>3
<1> HIDE DEF S
<1>3. Nat \subseteq S
  BY <1>1, <1>2, Induction
<1> QED
  BY <1>3 DEF S

\* A board near the goal that passes the parity test leads to the goal.
LEMMA NearLeadsToGoal ==
  ASSUME N % 2 = 0, NEW s \in NearBoards, solvable(s)
  PROVE  Reachable(s, GoalBoard)
<1> DEFINE near == Ball(GoalBoard, Radius)
<1>1. \A b \in near : b \in Board /\ Reachable(b, GoalBoard)
  BY GoalIsBoard, WayBack, RadiusAssumption
<1>2. \A b \in near : solvable(b)
  <2> DEFINE X == {b \in Board : solvable(b)}
  <2>1. GoalBoard \in X
    BY GoalIsBoard, GoalSolvable
  <2>2. ASSUME NEW b \in X PROVE Neighbours(b) \subseteq X
    BY MoveFacts, MoveKeepsParity DEF Neighbours
  <2> HIDE DEF X
  <2>3. near \subseteq X
    BY <2>1, <2>2, BallClosed, RadiusAssumption
  <2> QED
    BY <2>3 DEF X
<1> HIDE DEF near
<1>3. ASSUME NEW b \in near,
             s = swap(b, CHOOSE c \in Cell : b[c] = 1, CHOOSE c \in Cell : b[c] = 2)
      PROVE  FALSE
  <2> DEFINE c == CHOOSE e \in Cell : b[e] = 1
             t == CHOOSE e \in Cell : b[e] = 2
  <2>1. 1 \in Tile /\ 2 \in Tile
    <3>1. N * N >= 4
      BY NAssumption
    <3> QED
      BY <3>1, NAssumption DEF Tile
  <2>2. (\E e \in Cell : b[e] = 1) /\ \E e \in Cell : b[e] = 2
    BY <1>1, <2>1, BoardFacts
  <2>3. c \in Cell /\ b[c] = 1 /\ t \in Cell /\ b[t] = 2
    BY <2>2
  <2>4. s = swap(b, c, t)
    BY <1>3
  <2> HIDE DEF c, t
  <2>5. ~solvable(s)
    BY <1>1, <1>2, <2>3, <2>4, OddBoard
  <2> QED
    BY <2>5
<1>4. s \in near
  BY <1>3 DEF NearBoards, near
<1> QED
  BY <1>1, <1>4

-----------------------------------------------------------------------------
(* The boards met when the moves of a path are made.                       *)

\* The function that Replay is, up to n moves.
IsReplay(B, b, p, n) == B = [i \in 0 .. n |-> IF i = 0 THEN b ELSE MoveBlank(B[i - 1], p[i])]

LEMMA ReplaysExist == ASSUME NEW b, NEW p PROVE \A n \in Nat : \E B : IsReplay(B, b, p, n)
<1> DEFINE S == {n \in Nat : \E B : IsReplay(B, b, p, n)}
<1>1. 0 \in S
  <2> DEFINE B == [i \in 0 .. 0 |-> b]
  <2>1. IsReplay(B, b, p, 0)
    BY DEF IsReplay
  <2> QED
    BY <2>1
<1>2. ASSUME NEW n \in Nat, n \in S PROVE n + 1 \in S
  <2>1. PICK B : IsReplay(B, b, p, n)
    BY <1>2
  <2> DEFINE C == [i \in 0 .. (n + 1) |-> IF i = n + 1 THEN MoveBlank(B[n], p[n + 1]) ELSE B[i]]
             D == [i \in 0 .. (n + 1) |-> IF i = 0 THEN b ELSE MoveBlank(C[i - 1], p[i])]
  <2>2. \A i \in 0 .. n : B[i] = IF i = 0 THEN b ELSE MoveBlank(B[i - 1], p[i])
    BY <2>1 DEF IsReplay
  <2>3. ASSUME NEW i \in 0 .. (n + 1) PROVE C[i] = D[i]
    <3>1. CASE i = n + 1
      BY <3>1
    <3>2. CASE i # n + 1
      <4>1. i \in 0 .. n /\ C[i] = B[i] /\ (i # 0 => C[i - 1] = B[i - 1])
        BY <3>2
      <4>2. D[i] = IF i = 0 THEN b ELSE MoveBlank(C[i - 1], p[i])
        OBVIOUS
      <4> HIDE DEF C, D
      <4> QED
        BY <2>2, <4>1, <4>2
    <3> QED
      BY <3>1, <3>2
  <2>4. C = D
    BY <2>3
  <2>5. IsReplay(C, b, p, n + 1)
    BY <2>4 DEF IsReplay
  <2> QED
    BY <2>5
<1> HIDE DEF S
<1>3. Nat \subseteq S
  BY <1>1, <1>2, Induction
<1> QED
  BY <1>3 DEF S

LEMMA ReplayFacts ==
  ASSUME NEW b, NEW p, Len(p) \in Nat
  PROVE  /\ Replay(b, p)[0] = b
         /\ \A i \in 1 .. Len(p) : Replay(b, p)[i] = MoveBlank(Replay(b, p)[i - 1], p[i])
<1> DEFINE B == Replay(b, p)
           n == Len(p)
<1>1. B = CHOOSE F : IsReplay(F, b, p, n)
  BY DEF Replay, IsReplay
<1>2. IsReplay(B, b, p, n)
  BY <1>1, ReplaysExist
<1> HIDE DEF B, n
<1>3. \A i \in 0 .. n : B[i] = IF i = 0 THEN b ELSE MoveBlank(B[i - 1], p[i])
  BY <1>2 DEF IsReplay
<1>4. n \in Nat
  BY DEF n
<1> QED
  BY <1>3, <1>4 DEF B, n

\* One more move in front of a path.
LEMMA ReplayShift ==
  ASSUME NEW a, NEW p, NEW q, Len(p) \in Nat, Len(q) = Len(p) + 1,
         \A i \in 1 .. Len(p) : q[i + 1] = p[i]
  PROVE  \A i \in 0 .. Len(p) : Replay(a, q)[i + 1] = Replay(MoveBlank(a, q[1]), p)[i]
<1> DEFINE B == Replay(a, q)
           C == Replay(MoveBlank(a, q[1]), p)
           n == Len(p)
           S == {i \in Nat : i <= n => B[i + 1] = C[i]}
<1>1. /\ B[0] = a /\ \A i \in 1 .. (n + 1) : B[i] = MoveBlank(B[i - 1], q[i])
      /\ C[0] = MoveBlank(a, q[1]) /\ \A i \in 1 .. n : C[i] = MoveBlank(C[i - 1], p[i])
  <2>1. Len(q) \in Nat /\ Len(q) = n + 1
    OBVIOUS
  <2> QED
    BY <2>1, ReplayFacts
<1>2. n \in Nat /\ \A i \in 1 .. n : q[i + 1] = p[i]
  OBVIOUS
<1> HIDE DEF B, C, n
<1>3. 0 \in S
  <2>1. 1 \in 1 .. (n + 1) /\ 1 - 1 = 0 /\ 0 + 1 = 1
    BY <1>2
  <2>2. B[1] = MoveBlank(B[1 - 1], q[1])
    BY <1>1, <2>1
  <2> QED
    BY <1>1, <2>1, <2>2
<1>4. ASSUME NEW i \in Nat, i \in S PROVE i + 1 \in S
  <2>1. SUFFICES ASSUME i + 1 <= n PROVE B[i + 1 + 1] = C[i + 1]
    OBVIOUS
  <2>2. /\ i + 1 \in 1 .. n /\ i + 1 + 1 \in 1 .. (n + 1) /\ i + 1 - 1 = i /\ i + 1 + 1 - 1 = i + 1
        /\ i <= n
    BY <1>2, <2>1
  <2>3. B[i + 1] = C[i]
    BY <1>4, <2>2
  <2>4. B[i + 1 + 1] = MoveBlank(B[i + 1], q[i + 1 + 1])
    BY <1>1, <2>2
  <2>5. C[i + 1] = MoveBlank(C[i], p[i + 1])
    BY <1>1, <2>2
  <2> QED
    BY <1>2, <2>2, <2>3, <2>4, <2>5
<1> HIDE DEF S
<1>5. Nat \subseteq S
  BY <1>3, <1>4, Induction
<1> QED
  BY <1>2, <1>5 DEF S, B, C, n

-----------------------------------------------------------------------------
(* The inductive invariant.                                                *)

\* What each statement of main finds.
Phases ==
  /\ pc \in {"solvable", "goal"} => closed = <<>>
  /\ pc = "solvable" => open = <<>>
  /\ pc = "goal" => open = <<StartNode(start)>>
  /\ pc \notin {"path", "done"} => outcome = "searching" /\ path = <<>>
  /\ pc = "path" => outcome \in {"found", "exhausted"} /\ Len(path) < MaxPath
  /\ pc # "merge" => todo = {}
  /\ pc = "merge" /\ strategy \in {"dfs", "bfs"} => todo = DOMAIN succ
  /\ pc = "loop" => open # <<>>
  /\ outcome = "exhausted" => closed # <<>>

\* The node in hand has a closed parent unless it is the start.
HandHasParent ==
  Holding => /\ cp \in Node
             /\ \/ cp.board = start
                \/ \E j \in DOMAIN closed : IsParent(strategy, cp, closed[j])

\* Its new successors: all made from it, the goal first, and in open once
\* they are merged.
SuccSound ==
  Holding => /\ \A i \in DOMAIN succ : IsParent(strategy, succ[i], cp)
             /\ GoalFirst(succ)
             /\ \A i \in DOMAIN succ : i \in todo \/ succ[i].board \in Boards(open)

\* The walk of find_path stands at the start or at a node with a closed parent.
WalkHasParent ==
  pc = "path" => /\ cp \in Node
                 /\ \/ cp.board = start
                    \/ \E j \in Intact : IsParent(strategy, cp, closed[j])

IInv == /\ TypeOK /\ NoBoardTwice /\ ParentClosedBefore
        /\ Phases /\ HandHasParent /\ SuccSound /\ WalkHasParent

LEMMA StartNodeType ==
  ASSUME NEW b \in Board
  PROVE  StartNode(b) \in Node /\ StartNode(b).board = b
BY DEF StartNode, Node, Dir

LEMMA InitIInv == Init => IInv
<1> SUFFICES ASSUME Init PROVE IInv
  OBVIOUS
<1> USE DEF Init
<1>1. TypeOK
  BY StartsAssumption, MaxPathAssumption DEF TypeOK
<1>2. NoBoardTwice /\ HandHasParent /\ SuccSound /\ WalkHasParent /\ Phases
  BY DEF NoBoardTwice, HandHasParent, SuccSound, WalkHasParent, Phases, Looping, Holding
<1>3. ParentClosedBefore
  BY DEF ParentClosedBefore, Intact, Looping
<1> QED
  BY <1>1, <1>2, <1>3 DEF IInv

-----------------------------------------------------------------------------
(* The actions before and after the loop.                                  *)

LEMMA AcceptIInv == IInv /\ Accept => IInv'
<1> SUFFICES ASSUME IInv, Accept PROVE IInv'
  OBVIOUS
<1> USE DEF Accept, args
<1>1. start \in Board
  BY StartsAssumption DEF IInv, TypeOK
<1>2. open' = <<StartNode(start)>> /\ StartNode(start) \in Node
  BY <1>1, StartNodeType
<1>3. open' \in Seq(Node)
  BY <1>2
<1>4. TypeOK'
  BY <1>3 DEF IInv, TypeOK
<1>5. /\ NoBoardTwice' /\ HandHasParent' /\ SuccSound' /\ WalkHasParent' /\ Phases'
  BY DEF IInv, NoBoardTwice, HandHasParent, SuccSound, WalkHasParent, Phases, Looping, Holding
<1>6. ParentClosedBefore'
  BY DEF IInv, ParentClosedBefore, Intact, Looping
<1> QED
  BY <1>4, <1>5, <1>6 DEF IInv

LEMMA RejectIInv == IInv /\ Reject => IInv'
<1> SUFFICES ASSUME IInv, Reject PROVE IInv'
  OBVIOUS
<1> USE DEF Reject, args, search
<1>1. TypeOK'
  BY DEF IInv, TypeOK
<1>2. /\ NoBoardTwice' /\ HandHasParent' /\ SuccSound' /\ WalkHasParent' /\ Phases'
  BY DEF IInv, NoBoardTwice, HandHasParent, SuccSound, WalkHasParent, Phases, Looping, Holding
<1>3. ParentClosedBefore'
  BY DEF IInv, Phases, ParentClosedBefore, Intact, Looping
<1> QED
  BY <1>1, <1>2, <1>3 DEF IInv

LEMMA StartIsGoalIInv == IInv /\ StartIsGoal => IInv'
<1> SUFFICES ASSUME IInv, StartIsGoal PROVE IInv'
  OBVIOUS
<1> USE DEF StartIsGoal, StartNode, goal_found, args, search
<1>1. start \in Board
  BY StartsAssumption DEF IInv, TypeOK
<1>2. TypeOK'
  BY <1>1, StartNodeType DEF IInv, TypeOK
<1>3. /\ NoBoardTwice' /\ HandHasParent' /\ SuccSound' /\ WalkHasParent' /\ Phases'
  BY DEF IInv, NoBoardTwice, HandHasParent, SuccSound, WalkHasParent, Phases, Looping, Holding
<1>4. ParentClosedBefore'
  BY DEF IInv, Phases, ParentClosedBefore, Intact, Looping
<1> QED
  BY <1>2, <1>3, <1>4 DEF IInv

LEMMA StartSearchIInv == IInv /\ StartSearch => IInv'
<1> SUFFICES ASSUME IInv, StartSearch PROVE IInv'
  OBVIOUS
<1> USE DEF StartSearch, goal_found, args, search
<1> DEFINE n == StartNode(start)
<1>1. start \in Board
  BY StartsAssumption DEF IInv, TypeOK
<1>2. n \in Node /\ n.board = start
  BY <1>1, StartNodeType
<1>3. /\ open = <<n>> /\ open' = open /\ closed = <<>> /\ closed' = closed
      /\ todo = {} /\ todo' = todo /\ succ' = succ /\ pc' = "loop"
      /\ outcome = "searching" /\ outcome' = outcome /\ path' = path /\ path = <<>>
  BY DEF IInv, Phases
<1> HIDE DEF n
<1>4. DOMAIN open = {1} /\ open[1] = n /\ open # <<>> /\ DOMAIN closed = {}
  BY <1>3
<1>5. TypeOK'
  BY DEF IInv, TypeOK
<1>6. NoBoardTwice'
  <2>1. Distinct(open) /\ Distinct(closed) /\ Boards(closed) = {}
    BY <1>4 DEF Distinct, Boards
  <2> QED
    BY <1>3, <2>1 DEF NoBoardTwice, Holding, Pending
<1>7. ParentClosedBefore'
  BY <1>2, <1>3, <1>4 DEF ParentClosedBefore, Intact
<1>8. HandHasParent' /\ SuccSound' /\ WalkHasParent' /\ Phases'
  BY <1>3, <1>4 DEF HandHasParent, SuccSound, WalkHasParent, Phases, Holding
<1> QED
  BY <1>5, <1>6, <1>7, <1>8 DEF IInv

LEMMA PathEndsIInv == IInv /\ PathEnds => IInv'
<1> SUFFICES ASSUME IInv, PathEnds PROVE IInv'
  OBVIOUS
<1> USE DEF PathEnds, args, search
<1>1. TypeOK'
  BY DEF IInv, TypeOK
<1>2. /\ NoBoardTwice' /\ HandHasParent' /\ SuccSound' /\ WalkHasParent' /\ Phases'
  BY DEF IInv, NoBoardTwice, HandHasParent, SuccSound, WalkHasParent, Phases, Looping, Holding
<1>3. ParentClosedBefore'
  BY DEF IInv, Phases, ParentClosedBefore, Intact, Looping
<1> QED
  BY <1>1, <1>2, <1>3 DEF IInv

LEMMA UnchangedIInv == IInv /\ UNCHANGED vars => IInv'
<1> SUFFICES ASSUME IInv, UNCHANGED vars PROVE IInv'
  OBVIOUS
<1> USE DEF vars
<1>1. TypeOK'
  BY DEF IInv, TypeOK
<1>2. NoBoardTwice'
  BY DEF IInv, NoBoardTwice, Looping, Holding, Pending
<1>3. HandHasParent' /\ SuccSound' /\ WalkHasParent' /\ Phases'
  BY DEF IInv, HandHasParent, SuccSound, WalkHasParent, Phases, Intact, Holding
<1>4. ParentClosedBefore'
  BY DEF IInv, ParentClosedBefore, Intact, Looping, Holding
<1> QED
  BY <1>1, <1>2, <1>3, <1>4 DEF IInv

-----------------------------------------------------------------------------
(* The search loop.                                                        *)

LEMMA ExpandIInv == IInv /\ Expand => IInv'
<1> SUFFICES ASSUME IInv, Expand PROVE IInv'
  OBVIOUS
<1> DEFINE n == Head(open)
           o == Tail(open)
           s == NewSuccessors(n, o, closed)
<1>1. /\ pc = "loop" /\ open # <<>> /\ closed \in Seq(Node) /\ open \in Seq(Node)
      /\ outcome = "searching" /\ path = <<>>
  BY DEF IInv, Phases, TypeOK, Expand
<1>2. /\ cp' = n /\ open' = o /\ succ' = s /\ todo' = DOMAIN s
      /\ pc' = (IF s = <<>> THEN "close" ELSE "merge")
      /\ closed' = closed /\ strategy' = strategy /\ start' = start
      /\ leaf' = leaf /\ path' = path /\ outcome' = outcome
  BY DEF Expand, args, NewSuccessors
<1>3. /\ n \in Node /\ o \in Seq(Node)
      /\ Boards(open) = {n.board} \cup Boards(o)
      /\ Distinct(open) => Distinct(o) /\ n.board \notin Boards(o)
  BY <1>1, BoardsHeadTail
<1>4. /\ s \in Seq(Node)
      /\ \A i \in DOMAIN s : IsMoveOf(s[i], n)
      /\ Boards(s) = Neighbours(n.board) \ (Boards(o) \cup Boards(closed))
      /\ n.board \notin Boards(s)
      /\ Distinct(s)
      /\ GoalFirst(s)
  BY <1>1, <1>3, NewSuccessorsFacts, Zenon
<1>5. 1 \in DOMAIN open /\ n = open[1] /\ \A i \in DOMAIN o : i + 1 \in DOMAIN open /\ o[i] = open[i + 1]
  BY <1>1
<1>6. /\ \A i \in DOMAIN s : s[i].board \in Boards(s)
      /\ s = <<>> => DOMAIN s = {}
  BY DEF Boards
<1>7. \A i \in DOMAIN s : IsParent(strategy, s[i], n)
  BY <1>3, <1>4, MoveType DEF IsMoveOf
<1> HIDE DEF n, o, s
<1>8. TypeOK'
  BY <1>1, <1>2, <1>3, <1>4 DEF IInv, TypeOK
<1>9. NoBoardTwice'
  <2>1. /\ Distinct(open) /\ Distinct(closed) /\ Boards(open) \cap Boards(closed) = {}
    BY <1>1 DEF IInv, NoBoardTwice, Looping
  <2>2. \A i, j \in todo' : succ'[i].board = succ'[j].board => i = j
    BY <1>2, <1>4 DEF Distinct
  <2>3. Pending' \subseteq Boards(s)
    BY <1>2 DEF Pending, Boards
  <2> QED
    BY <1>2, <1>3, <1>4, <2>1, <2>2, <2>3 DEF NoBoardTwice
<1>10. ParentClosedBefore'
  <2>1. /\ \A i \in Intact : \/ closed[i].board = start
                             \/ \E j \in 1 .. (i - 1) : IsParent(strategy, closed[i], closed[j])
        /\ \A i \in DOMAIN open : \/ open[i].board = start
                                  \/ \E j \in DOMAIN closed : IsParent(strategy, open[i], closed[j])
    BY <1>1 DEF IInv, ParentClosedBefore, Looping, Holding
  <2>2. Intact' = Intact
    BY <1>2 DEF Intact
  <2> QED
    BY <1>2, <1>5, <2>1, <2>2 DEF ParentClosedBefore
<1>11. HandHasParent'
  <2>1. \/ n.board = start
        \/ \E j \in DOMAIN closed : IsParent(strategy, n, closed[j])
    BY <1>1, <1>5 DEF IInv, ParentClosedBefore, Looping, Holding
  <2> QED
    BY <1>2, <1>3, <2>1 DEF HandHasParent
<1>12. SuccSound'
  BY <1>2, <1>4, <1>7 DEF SuccSound
<1>13. WalkHasParent' /\ Phases'
  BY <1>1, <1>2, <1>6 DEF WalkHasParent, Phases
<1> QED
  BY <1>8, <1>9, <1>10, <1>11, <1>12, <1>13 DEF IInv

\* Merging keeps everything but open, todo and pc; the boards of open and of
\* the pending successors stay the same together.
LEMMA MergeIInv ==
  ASSUME IInv, pc = "merge", pc' \in {"merge", "close"},
         UNCHANGED <<args, closed, cp, succ, leaf, path, outcome>>,
         open' \in Seq(Node), Distinct(open'), todo' \subseteq todo,
         \A i \in DOMAIN open' : \/ \E j \in DOMAIN open : open'[i] = open[j]
                                 \/ \E j \in DOMAIN succ : open'[i] = succ[j],
         Boards(open') = Boards(open) \cup {succ[i].board : i \in todo \ todo'},
         pc' = "close" => todo' = {},
         pc' = "merge" => strategy \notin {"dfs", "bfs"}
  PROVE  IInv'
<1>1. /\ closed' = closed /\ cp' = cp /\ succ' = succ /\ leaf' = leaf /\ path' = path
      /\ outcome' = outcome /\ strategy' = strategy /\ start' = start
  BY DEF args
<1>2. TypeOK'
  BY <1>1 DEF IInv, TypeOK
<1>3. Looping /\ Holding /\ Looping' /\ Holding'
  BY DEF Looping, Holding
<1>4. NoBoardTwice'
  <2>1. /\ Distinct(closed)
        /\ \A i, j \in todo : succ[i].board = succ[j].board => i = j
        /\ Boards(open) \cap Boards(closed) = {}
        /\ Pending \cap (Boards(open) \cup Boards(closed)) = {}
        /\ cp.board \notin Boards(open) \cup Boards(closed) \cup Pending
    BY <1>3 DEF IInv, NoBoardTwice
  <2>2. /\ \A i \in todo : succ[i].board \in Pending
        /\ Pending' = {succ[i].board : i \in todo'}
    BY <1>1 DEF Pending
  <2>3. Boards(open') \subseteq Boards(open) \cup Pending
    BY <2>2
  <2>4. Pending' \subseteq Pending
    BY <2>2
  <2>5. Pending' \cap Boards(open') = {}
    BY <2>1, <2>2
  <2>6. \A i, j \in todo' : succ'[i].board = succ'[j].board => i = j
    BY <1>1, <2>1
  <2> QED
    BY <1>1, <2>1, <2>3, <2>4, <2>5, <2>6 DEF NoBoardTwice
<1>5. ParentClosedBefore'
  <2>1. Intact' = Intact
    BY <1>1 DEF Intact
  <2>2. \A i \in DOMAIN open' :
          \/ open'[i].board = start
          \/ \E j \in DOMAIN closed : IsParent(strategy, open'[i], closed[j])
          \/ IsParent(strategy, open'[i], cp)
    BY <1>3 DEF IInv, ParentClosedBefore, SuccSound
  <2> QED
    BY <1>1, <1>3, <2>1, <2>2 DEF IInv, ParentClosedBefore
<1>6. HandHasParent'
  BY <1>1, <1>3 DEF IInv, HandHasParent
<1>7. SuccSound'
  <2>1. \A i \in DOMAIN succ : i \in todo' \/ succ[i].board \in Boards(open')
    BY <1>3 DEF IInv, SuccSound
  <2> QED
    BY <1>1, <1>3, <2>1 DEF IInv, SuccSound
<1>8. WalkHasParent' /\ Phases'
  BY <1>1 DEF IInv, WalkHasParent, Phases
<1> QED
  BY <1>2, <1>4, <1>5, <1>6, <1>7, <1>8 DEF IInv

\* What the list of all successors is when nothing of it is merged yet.
LEMMA WholeSucc ==
  ASSUME IInv, pc = "merge", strategy \in {"dfs", "bfs"}
  PROVE  /\ open \in Seq(Node) /\ succ \in Seq(Node)
         /\ Distinct(open) /\ Distinct(succ)
         /\ Boards(open) \cap Boards(succ) = {}
         /\ Boards(succ) = {succ[i].board : i \in todo \ {}}
<1>1. todo = DOMAIN succ /\ Looping
  BY DEF IInv, Phases, Looping
<1>2. /\ Distinct(open)
      /\ \A i, j \in todo : succ[i].board = succ[j].board => i = j
      /\ Pending \cap Boards(open) = {}
  BY <1>1 DEF IInv, NoBoardTwice
<1>3. Boards(succ) = Pending /\ Boards(succ) = {succ[i].board : i \in todo \ {}}
  BY <1>1 DEF Boards, Pending
<1> QED
  BY <1>1, <1>2, <1>3 DEF IInv, TypeOK, Distinct

LEMMA MergeFrontIInv == IInv /\ MergeFront => IInv'
<1> SUFFICES ASSUME IInv, MergeFront PROVE IInv'
  OBVIOUS
<1>1. pc = "merge" /\ strategy = "dfs" /\ open' = succ \o open /\ todo' = {} /\ pc' = "close"
  BY DEF MergeFront, prepend
<1>2. /\ open \in Seq(Node) /\ succ \in Seq(Node) /\ Distinct(open) /\ Distinct(succ)
      /\ Boards(open) \cap Boards(succ) = {}
      /\ Boards(succ) = {succ[i].board : i \in todo \ {}}
  BY <1>1, WholeSucc
<1>3. open' \in Seq(Node) /\ Boards(open') = Boards(succ) \cup Boards(open) /\ Distinct(open')
  BY <1>1, <1>2, BoardsConcat, DistinctConcat
<1>4. \A i \in DOMAIN open' : \/ \E j \in DOMAIN open : open'[i] = open[j]
                              \/ \E j \in DOMAIN succ : open'[i] = succ[j]
  BY <1>1, <1>2
<1> QED
  BY <1>1, <1>2, <1>3, <1>4, MergeIInv DEF MergeFront, prepend

LEMMA MergeBackIInv == IInv /\ MergeBack => IInv'
<1> SUFFICES ASSUME IInv, MergeBack PROVE IInv'
  OBVIOUS
<1>1. pc = "merge" /\ strategy = "bfs" /\ open' = open \o succ /\ todo' = {} /\ pc' = "close"
  BY DEF MergeBack, append
<1>2. /\ open \in Seq(Node) /\ succ \in Seq(Node) /\ Distinct(open) /\ Distinct(succ)
      /\ Boards(open) \cap Boards(succ) = {}
      /\ Boards(succ) = {succ[i].board : i \in todo \ {}}
  BY <1>1, WholeSucc
<1>3. open' \in Seq(Node) /\ Boards(open') = Boards(open) \cup Boards(succ) /\ Distinct(open')
  BY <1>1, <1>2, BoardsConcat, DistinctConcat
<1>4. \A i \in DOMAIN open' : \/ \E j \in DOMAIN open : open'[i] = open[j]
                              \/ \E j \in DOMAIN succ : open'[i] = succ[j]
  BY <1>1, <1>2
<1> QED
  BY <1>1, <1>2, <1>3, <1>4, MergeIInv DEF MergeBack, append

LEMMA MergeSmartIInv == IInv /\ MergeSmart => IInv'
<1> SUFFICES ASSUME IInv, MergeSmart PROVE IInv'
  OBVIOUS
<1>1. /\ pc = "merge" /\ strategy \notin {"dfs", "bfs"}
      /\ pc' = (IF todo' = {} THEN "close" ELSE "merge")
  BY DEF MergeSmart, prepend
<1>2. PICK i \in todo : open' = <<succ[i]>> \o open /\ todo' = todo \ {i}
  BY DEF MergeSmart, prepend
<1>3. open \in Seq(Node) /\ succ \in Seq(Node) /\ i \in DOMAIN succ /\ succ[i] \in Node
  BY DEF IInv, TypeOK
<1>4. Distinct(open) /\ succ[i].board \notin Boards(open)
  BY <1>1 DEF IInv, NoBoardTwice, Looping, Pending
<1>5. /\ open' \in Seq(Node) /\ Boards(open') = Boards(open) \cup {succ[i].board}
      /\ Distinct(open')
  BY <1>2, <1>3, <1>4, BoardsCons
<1>6. ASSUME NEW k \in DOMAIN open'
      PROVE  \/ \E j \in DOMAIN open : open'[k] = open[j]
             \/ \E j \in DOMAIN succ : open'[k] = succ[j]
  <2>1. open'[k] = succ[i] \/ \E j \in DOMAIN open : open'[k] = open[j]
    BY <1>2, <1>3
  <2> QED
    BY <1>3, <2>1
<1>7. {succ[k].board : k \in todo \ todo'} = {succ[i].board}
  BY <1>2
<1> QED
  BY <1>1, <1>2, <1>5, <1>6, <1>7, MergeIInv DEF MergeSmart, prepend

LEMMA CloseIInv == IInv /\ Close => IInv'
<1> SUFFICES ASSUME IInv, Close PROVE IInv'
  OBVIOUS
<1>1. /\ pc = "close" /\ closed' = Append(closed, cp)
      /\ open' = open /\ succ' = succ /\ todo' = todo /\ todo = {}
      /\ strategy' = strategy /\ start' = start /\ path' = path /\ path = <<>>
      /\ outcome = "searching"
      /\ cp \in Node /\ closed \in Seq(Node) /\ open \in Seq(Node) /\ succ \in Seq(Node)
      /\ Len(path) < MaxPath
  BY MaxPathAssumption DEF IInv, Phases, HandHasParent, Holding, TypeOK, Close, goal_found, args, search
<1>2. /\ Holding /\ Looping /\ Intact = DOMAIN closed
      /\ \A i \in DOMAIN succ : succ[i].board \in Boards(open)
      /\ \A i \in DOMAIN succ : IsParent(strategy, succ[i], cp)
  BY <1>1 DEF IInv, SuccSound, Holding, Looping, Intact
<1>3. /\ closed' \in Seq(Node)
      /\ Len(closed') = Len(closed) + 1 /\ Len(closed) \in Nat
      /\ DOMAIN closed' = 1 .. (Len(closed) + 1) /\ DOMAIN closed = 1 .. Len(closed)
      /\ \A i \in DOMAIN closed : closed'[i] = closed[i]
      /\ closed'[Len(closed) + 1] = cp
      /\ closed' # <<>>
  BY <1>1
<1>4. Boards(closed') = Boards(closed) \cup {cp.board} /\ Distinct(closed')
  BY <1>1, <1>2, BoardsAppend DEF IInv, NoBoardTwice
<1>5. \A i \in DOMAIN closed' :
        \/ closed'[i].board = start
        \/ \E j \in 1 .. (i - 1) : IsParent(strategy, closed'[i], closed'[j])
  <2> SUFFICES ASSUME NEW i \in DOMAIN closed', closed'[i].board # start
               PROVE  \E j \in 1 .. (i - 1) : IsParent(strategy, closed'[i], closed'[j])
    OBVIOUS
  <2>1. CASE i \in DOMAIN closed
    <3>1. PICK j \in 1 .. (i - 1) : IsParent(strategy, closed[i], closed[j])
      BY <1>2, <1>3, <2>1 DEF IInv, ParentClosedBefore
    <3>2. j \in DOMAIN closed
      BY <1>3, <2>1
    <3> QED
      BY <1>3, <2>1, <3>1, <3>2
  <2>2. CASE i = Len(closed) + 1
    <3>1. PICK j \in DOMAIN closed : IsParent(strategy, cp, closed[j])
      BY <1>2, <1>3, <2>2 DEF IInv, HandHasParent
    <3> QED
      BY <1>3, <2>2, <3>1
  <2> QED
    BY <1>3, <2>1, <2>2
<1>6. \A i \in DOMAIN open : \/ open[i].board = start
                             \/ \E j \in DOMAIN closed' : IsParent(strategy, open[i], closed'[j])
  <2>1. \A i \in DOMAIN open : \/ open[i].board = start
                               \/ \E j \in DOMAIN closed : IsParent(strategy, open[i], closed[j])
                               \/ IsParent(strategy, open[i], cp)
    BY <1>2 DEF IInv, ParentClosedBefore
  <2>2. DOMAIN closed \subseteq DOMAIN closed' /\ Len(closed) + 1 \in DOMAIN closed'
    BY <1>3
  <2> QED
    BY <1>3, <2>1, <2>2
<1>7. Boards(open) \cap Boards(closed') = {} /\ Distinct(open)
  BY <1>2, <1>4 DEF IInv, NoBoardTwice
<1>8. NoBoardTwice'
  <2>1. Pending' = {}
    BY <1>1 DEF Pending
  <2>2. ~Holding'
    BY DEF Close, goal_found, Holding
  <2> QED
    BY <1>1, <1>4, <1>7, <2>1, <2>2 DEF NoBoardTwice
<1>9. HandHasParent' /\ SuccSound'
  BY DEF Close, goal_found, HandHasParent, SuccSound, Holding
<1>10. CASE succ # <<>> /\ succ[1].board = GoalBoard
  <2>1. /\ cp' = succ[1] /\ leaf' = GoalBoard /\ outcome' = "found" /\ pc' = "path"
        /\ 1 \in DOMAIN succ /\ succ[1] \in Node
    BY <1>1, <1>10 DEF Close, goal_found
  <2>2. GoalBoard \in Board
    BY <1>10, <2>1 DEF Node
  <2>3. TypeOK'
    BY <1>1, <1>3, <2>1, <2>2 DEF IInv, TypeOK
  <2>4. Intact' = DOMAIN closed'
    BY <2>1 DEF Intact
  <2>5. ParentClosedBefore'
    BY <1>1, <1>5, <2>1, <2>4 DEF ParentClosedBefore, Looping
  <2>6. IsParent(strategy, cp', closed'[Len(closed) + 1]) /\ Len(closed) + 1 \in DOMAIN closed'
    BY <1>2, <1>3, <2>1
  <2>7. WalkHasParent'
    BY <1>1, <2>1, <2>4, <2>6 DEF WalkHasParent
  <2>8. Phases'
    BY <1>1, <2>1 DEF Phases
  <2> QED
    BY <1>8, <1>9, <2>3, <2>5, <2>7, <2>8 DEF IInv
<1>11. CASE ~(succ # <<>> /\ succ[1].board = GoalBoard) /\ open = <<>>
  <2>1. succ = <<>>
    <3>1. Boards(open) = {}
      BY <1>11 DEF Boards
    <3>2. DOMAIN succ = {}
      BY <1>2, <3>1
    <3> QED
      BY <1>1, <3>2
  <2>2. cp' = cp /\ leaf' = cp.board /\ outcome' = "exhausted" /\ pc' = "path"
    BY <1>11, <2>1 DEF Close, goal_found
  <2>3. TypeOK'
    BY <1>1, <1>3, <2>2 DEF IInv, TypeOK, Node
  <2>4. Intact' = DOMAIN closed
    BY <1>3, <2>2 DEF Intact
  <2>5. ParentClosedBefore'
    <3>1. DOMAIN closed \subseteq DOMAIN closed'
      BY <1>3
    <3> QED
      BY <1>1, <1>5, <2>2, <2>4, <3>1 DEF ParentClosedBefore, Looping
  <2>6. \/ cp'.board = start
        \/ \E j \in DOMAIN closed : IsParent(strategy, cp', closed'[j])
    BY <1>2, <1>3, <2>2 DEF IInv, HandHasParent
  <2>7. WalkHasParent'
    BY <1>1, <2>2, <2>4, <2>6 DEF WalkHasParent
  <2>8. Phases'
    BY <1>1, <1>3, <2>2 DEF Phases
  <2> QED
    BY <1>8, <1>9, <2>3, <2>5, <2>7, <2>8 DEF IInv
<1>12. CASE ~(succ # <<>> /\ succ[1].board = GoalBoard) /\ open # <<>>
  <2>1. /\ cp' = (IF succ = <<>> THEN cp ELSE NULL) /\ leaf' = leaf
        /\ outcome' = outcome /\ pc' = "loop"
    BY <1>12 DEF Close, goal_found
  <2>2. TypeOK'
    BY <1>1, <1>3, <2>1 DEF IInv, TypeOK
  <2>3. Intact' = DOMAIN closed'
    BY <1>1, <2>1 DEF Intact
  <2>4. ParentClosedBefore'
    BY <1>1, <1>5, <1>6, <2>1, <2>3 DEF ParentClosedBefore
  <2>5. WalkHasParent' /\ Phases'
    BY <1>1, <1>12, <2>1 DEF WalkHasParent, Phases
  <2> QED
    BY <1>8, <1>9, <2>2, <2>4, <2>5 DEF IInv
<1> QED
  BY <1>10, <1>11, <1>12

-----------------------------------------------------------------------------
(* The walk back.                                                          *)

\* The list that find_parent reads, its last node already changed after a
\* search that found nothing, agrees with closed where find_path has not
\* written, and the node found is one of those.
LEMMA ParentFound ==
  ASSUME IInv, pc = "path", cp.board # start
  PROVE  LET b  == Undo(cp.board, cp.dir)
             cl == Undone(b)
             m  == CHOOSE j \in DOMAIN cl : IsFirstMatch(cl, b, j)
         IN  /\ CanUndo(cp.board, cp.dir)
             /\ cl \in Seq(Node) /\ Len(cl) = Len(closed)
             /\ \A i \in Intact : i \in DOMAIN cl /\ cl[i] = closed[i]
             /\ m \in Intact /\ closed[m].board = b
<1> DEFINE b  == Undo(cp.board, cp.dir)
           cl == Undone(b)
           m  == CHOOSE j \in DOMAIN cl : IsFirstMatch(cl, b, j)
<1>1. closed \in Seq(Node) /\ Len(closed) \in Nat /\ DOMAIN closed = 1 .. Len(closed)
  BY DEF IInv, TypeOK
<1>2. PICK p \in Intact : IsParent(strategy, cp, closed[p])
  BY DEF IInv, WalkHasParent
<1>3. CanUndo(cp.board, cp.dir) /\ closed[p].board = b
  BY <1>2 DEF IsParent
<1>4. Intact \subseteq DOMAIN closed /\ (outcome = "exhausted" => Len(closed) \notin Intact)
  BY <1>1 DEF Intact
<1> HIDE DEF b
<1>5. closed[p] \in Node /\ b \in Board
  <2>1. closed[p] \in Node
    BY <1>1, <1>4
  <2>2. closed[p].board \in Board
    BY <2>1 DEF Node
  <2> QED
    BY <1>3, <2>1, <2>2
<1>6. /\ cl \in Seq(Node) /\ Len(cl) = Len(closed)
      /\ \A i \in Intact : i \in DOMAIN cl /\ cl[i] = closed[i]
  <2>1. CASE outcome # "exhausted"
    BY <1>1, <1>4, <2>1 DEF Undone
  <2>2. CASE outcome = "exhausted"
    <3>1. Len(closed) \in DOMAIN closed /\ closed[Len(closed)] \in Node
      BY <1>1, <2>2 DEF IInv, Phases
    <3>2. [closed[Len(closed)] EXCEPT !.board = b] \in Node
      BY <1>5, <3>1 DEF Node
    <3>3. cl = [closed EXCEPT ![Len(closed)] = [closed[Len(closed)] EXCEPT !.board = b]]
      BY <2>2 DEF Undone
    <3> QED
      BY <1>1, <1>4, <2>2, <3>1, <3>2, <3>3
  <2> QED
    BY <2>1, <2>2
<1> HIDE DEF cl
<1> DEFINE M == {i \in DOMAIN cl : cl[i].board = b}
<1>7. M \in SUBSET Nat /\ p \in M
  BY <1>2, <1>3, <1>6
<1>8. PICK k \in M : \A i \in M : k <= i
  BY <1>7, LeastElement
<1>9. k \in DOMAIN cl /\ IsFirstMatch(cl, b, k)
  BY <1>8 DEF IsFirstMatch
<1>10. m \in DOMAIN cl /\ IsFirstMatch(cl, b, m)
  BY <1>9
<1> HIDE DEF m
<1>11. m <= p /\ cl[m].board = b
  BY <1>7, <1>10 DEF IsFirstMatch
<1>12. m \in Intact
  BY <1>1, <1>2, <1>6, <1>10, <1>11 DEF Intact
<1> QED
  BY <1>3, <1>6, <1>11, <1>12 DEF m, cl, b

LEMMA FindParentIInv == IInv /\ FindParent => IInv'
<1> SUFFICES ASSUME IInv, FindParent PROVE IInv'
  OBVIOUS
<1> DEFINE b  == Undo(cp.board, cp.dir)
           cl == Undone(b)
           m  == CHOOSE j \in DOMAIN cl : IsFirstMatch(cl, b, j)
<1>1. /\ pc = "path" /\ cp.board # start
      /\ cp' = cl[m]
      /\ closed' = IF outcome = "exhausted" THEN [cl EXCEPT ![Len(cl)] = cp'] ELSE cl
      /\ path' = Append(path, cp.dir)
      /\ pc' = IF Len(path') >= MaxPath THEN "done" ELSE "path"
      /\ strategy' = strategy /\ start' = start /\ open' = open /\ succ' = succ
      /\ todo' = todo /\ leaf' = leaf /\ outcome' = outcome
  BY DEF FindParent, PathFull, args, search
<1>2. /\ cl \in Seq(Node) /\ Len(cl) = Len(closed)
      /\ \A i \in Intact : i \in DOMAIN cl /\ cl[i] = closed[i]
      /\ m \in Intact
  BY <1>1, ParentFound
<1> HIDE DEF b, cl, m
<1>3. /\ closed \in Seq(Node) /\ Len(closed) \in Nat /\ DOMAIN closed = 1 .. Len(closed)
      /\ DOMAIN cl = 1 .. Len(cl)
      /\ cp \in Node /\ cp.dir \in Dir /\ path \in Seq(Dir) /\ Len(path) < MaxPath
      /\ todo = {} /\ outcome \in {"found", "exhausted"}
      /\ outcome = "exhausted" => Len(closed) \in DOMAIN closed
  <2>1. /\ closed \in Seq(Node) /\ path \in Seq(Dir) /\ cp \in Node
        /\ Len(path) < MaxPath /\ todo = {} /\ outcome \in {"found", "exhausted"}
        /\ outcome = "exhausted" => closed # <<>>
    BY <1>1 DEF IInv, TypeOK, Phases, WalkHasParent
  <2>2. cp.dir \in Dir
    BY <2>1 DEF Node
  <2> QED
    BY <1>2, <2>1, <2>2
<1>4. cp' \in Node /\ cp' = closed[m]
  BY <1>1, <1>2, <1>3
<1>5. /\ closed' \in Seq(Node) /\ Len(closed') = Len(closed)
      /\ \A i \in Intact : closed'[i] = closed[i]
  BY <1>1, <1>2, <1>3, <1>4 DEF Intact
<1>6. Intact' = Intact /\ Intact \subseteq 1 .. Len(closed)
  BY <1>1, <1>3, <1>5 DEF Intact
<1>7. TypeOK'
  <2>1. path' \in Seq(Dir) /\ Len(path') = Len(path) + 1
    BY <1>1, <1>3
  <2> QED
    BY <1>1, <1>3, <1>4, <1>5, <2>1, MaxPathAssumption DEF IInv, TypeOK
<1>8. pc' \in {"path", "done"}
  BY <1>1
<1>9. NoBoardTwice' /\ HandHasParent' /\ SuccSound'
  BY <1>8 DEF NoBoardTwice, HandHasParent, SuccSound, Looping, Holding
<1>10. \A i \in Intact : \/ closed'[i].board = start
                         \/ \E j \in Intact : j < i /\ IsParent(strategy, closed'[i], closed'[j])
  <2> SUFFICES ASSUME NEW i \in Intact, closed[i].board # start
               PROVE  \E j \in Intact : j < i /\ IsParent(strategy, closed'[i], closed'[j])
    BY <1>5
  <2>1. PICK j \in 1 .. (i - 1) : IsParent(strategy, closed[i], closed[j])
    BY DEF IInv, ParentClosedBefore
  <2>2. j \in Intact /\ j < i
    BY <1>3, <1>6 DEF Intact
  <2> QED
    BY <1>5, <2>1, <2>2
<1>11. ParentClosedBefore'
  <2>1. \A i \in Intact : \A j \in Intact : j < i => j \in 1 .. (i - 1)
    BY <1>6
  <2> QED
    BY <1>1, <1>6, <1>8, <1>10, <2>1 DEF ParentClosedBefore, Looping
<1>12. WalkHasParent'
  <2>1. \/ cp'.board = start
        \/ \E j \in Intact : IsParent(strategy, cp', closed'[j])
    BY <1>2, <1>4, <1>5, <1>10
  <2> QED
    BY <1>1, <1>4, <1>6, <2>1 DEF WalkHasParent
<1>13. Phases'
  <2>1. pc' = "path" => Len(path') < MaxPath
    <3>1. Len(path') \in Nat
      BY <1>1, <1>3
    <3> QED
      BY <1>1, <3>1, MaxPathAssumption
  <2>2. outcome = "exhausted" => closed' # <<>>
    BY <1>3, <1>5
  <2> QED
    BY <1>1, <1>3, <1>8, <2>1, <2>2 DEF Phases
<1> QED
  BY <1>7, <1>9, <1>11, <1>12, <1>13 DEF IInv

LEMMA NextIInv == IInv /\ [Next]_vars => IInv'
<1> SUFFICES ASSUME IInv, [Next]_vars PROVE IInv'
  OBVIOUS
<1> QED
  BY AcceptIInv, RejectIInv, StartIsGoalIInv, StartSearchIInv, ExpandIInv, MergeFrontIInv,
     MergeBackIInv, MergeSmartIInv, CloseIInv, FindParentIInv, PathEndsIInv, UnchangedIInv
  DEF Next, Stopped

-----------------------------------------------------------------------------
(* The invariants.                                                         *)

LEMMA IInvHolds == Spec => []IInv
BY InitIInv, NextIInv, PTL DEF Spec

LEMMA IInvIsSafe == IInv => WalkIsSafe
<1> SUFFICES ASSUME IInv PROVE WalkIsSafe
  OBVIOUS
<1>1. pc = "loop" => open # <<>>
  BY DEF IInv, Phases
<1>2. ASSUME pc = "close", open = <<>> PROVE succ = <<>>
  <2>1. Boards(open) = {} /\ todo = {}
    BY <1>2 DEF IInv, Phases, Boards
  <2>2. DOMAIN succ = {}
    BY <1>2, <2>1 DEF IInv, SuccSound, Holding
  <2> QED
    BY <2>2 DEF IInv, TypeOK
<1>3. ASSUME pc = "path"
      PROVE  /\ cp # NULL
             /\ cp.board # start => /\ CanUndo(cp.board, cp.dir)
                                    /\ \E j \in Intact : closed[j].board = Undo(cp.board, cp.dir)
  <2>1. cp # NULL
    BY <1>3, NullAssumption DEF IInv, WalkHasParent
  <2> QED
    BY <1>3, <2>1 DEF IInv, WalkHasParent, IsParent
<1> QED
  BY <1>1, <1>2, <1>3 DEF WalkIsSafe

\* Every variable keeps its type, and find_path never writes past the end of
\* the array path.
THEOREM TypeCorrect == Spec => []TypeOK
<1>1. IInv => TypeOK
  BY DEF IInv
<1> QED
  BY IInvHolds, <1>1, PTL

\* No board is held twice by open, closed, the node in hand and the successors
\* still to merge, under any strategy.
THEOREM NoDuplicates == Spec => []NoBoardTwice
<1>1. IInv => NoBoardTwice
  BY DEF IInv
<1> QED
  BY IInvHolds, <1>1, PTL

\* Every node held was made from a node closed before it.
THEOREM ParentsClosed == Spec => []ParentClosedBefore
<1>1. IInv => ParentClosedBefore
  BY DEF IInv
<1> QED
  BY IInvHolds, <1>1, PTL

\* find_path and find_parent follow no NULL pointer and leave no array.
THEOREM WalkSafe == Spec => []WalkIsSafe
BY IInvHolds, IInvIsSafe, PTL

\* Looking at the head of succ alone misses no goal.
THEOREM NoGoalMissed == Spec => GoalInSuccIsFound
<1>1. IInv /\ [Next]_vars =>
        [pc = "close" /\ GoalBoard \in Boards(succ) => outcome' = "found"]_vars
  <2> SUFFICES ASSUME IInv, Next, pc = "close", GoalBoard \in Boards(succ)
               PROVE  outcome' = "found" \/ UNCHANGED vars
    BY DEF vars
  <2>1. Close
    BY DEF Next, Accept, Reject, StartIsGoal, StartSearch, StartNode, goal_found, Expand, MergeFront, prepend, MergeBack, append,
           MergeSmart, prepend, FindParent, PathEnds, Stopped, vars
  <2>2. PICK i \in DOMAIN succ : succ[i].board = GoalBoard
    BY DEF Boards
  <2>3. i = 1
    BY <2>2 DEF IInv, SuccSound, GoalFirst, Holding
  <2> QED
    BY <2>1, <2>2, <2>3 DEF Close, goal_found
<1> QED
  BY IInvHolds, <1>1, PTL DEF Spec, GoalInSuccIsFound

-----------------------------------------------------------------------------
(* The loop implements GraphSearch.                                        *)

LEMMA InitRefines == Init => GS!Init
<1> SUFFICES ASSUME Init PROVE GS!Init
  OBVIOUS
<1>1. Frontier = {start}
  BY DEF Init, Frontier
<1>2. Visited = {}
  BY DEF Init, Visited, Boards, Holding
<1> QED
  BY <1>1, <1>2 DEF Init, GS!Init

\* Taking a node from open and filtering its successors visits its board.
LEMMA ExpandRefines == IInv /\ Expand => GS!Visit(Head(open).board) /\ Head(open).board \in Frontier
<1> SUFFICES ASSUME IInv, Expand
             PROVE  GS!Visit(Head(open).board) /\ Head(open).board \in Frontier
  OBVIOUS
<1> DEFINE n == Head(open)
           o == Tail(open)
           s == NewSuccessors(n, o, closed)
<1>1. /\ pc = "loop" /\ open # <<>> /\ closed \in Seq(Node) /\ open \in Seq(Node)
      /\ outcome = "searching" /\ todo = {}
  BY DEF IInv, Phases, TypeOK, Expand
<1>2. /\ cp' = n /\ open' = o /\ succ' = s /\ todo' = DOMAIN s
      /\ pc' \in {"close", "merge"} /\ closed' = closed /\ outcome' = outcome
  BY DEF Expand, args, NewSuccessors
<1>3. /\ n \in Node /\ o \in Seq(Node)
      /\ Boards(open) = {n.board} \cup Boards(o)
      /\ Distinct(open) => n.board \notin Boards(o)
  BY <1>1, BoardsHeadTail
<1>4. /\ s \in Seq(Node)
      /\ \A i \in DOMAIN s : IsMoveOf(s[i], n)
      /\ Boards(s) = Neighbours(n.board) \ (Boards(o) \cup Boards(closed))
      /\ n.board \notin Boards(s)
      /\ Distinct(s)
      /\ GoalFirst(s)
  BY <1>1, <1>3, NewSuccessorsFacts, Zenon
<1> HIDE DEF n, o, s
<1>5. Distinct(open)
  BY <1>1 DEF IInv, NoBoardTwice, Looping
<1>6. Frontier = Boards(open) /\ Visited = Boards(closed)
  BY <1>1 DEF Frontier, Visited, Pending, Holding
<1>7. Frontier' = Boards(o) \cup Boards(s) /\ Visited' = Boards(closed) \cup {n.board}
  <2>1. Pending' = Boards(s)
    BY <1>2 DEF Pending, Boards
  <2> QED
    BY <1>1, <1>2, <2>1 DEF Frontier, Visited, Holding
<1>8. Frontier' = (Frontier \ {n.board}) \cup (Neighbours(n.board) \ (Visited \cup Frontier))
  BY <1>3, <1>4, <1>5, <1>6, <1>7
<1>9. GS!Visit(n.board) /\ n.board \in Frontier
  BY <1>1, <1>2, <1>3, <1>6, <1>7, <1>8 DEF GS!Visit
<1> QED
  BY <1>9 DEF n

\* Linking successors into open, and changing nodes of closed on the walk
\* back, leaves the frontier and the visited boards alone.
LEMMA MergeStutters ==
  IInv /\ (MergeFront \/ MergeBack \/ MergeSmart) => UNCHANGED <<Frontier, Visited, outcome>>
<1> SUFFICES ASSUME IInv, MergeFront \/ MergeBack \/ MergeSmart
             PROVE  UNCHANGED <<Frontier, Visited, outcome>>
  OBVIOUS
<1>1. /\ pc = "merge" /\ pc' \in {"merge", "close"}
      /\ closed' = closed /\ cp' = cp /\ succ' = succ /\ outcome' = outcome
      /\ open \in Seq(Node) /\ succ \in Seq(Node) /\ todo \subseteq DOMAIN succ
      /\ outcome = "searching"
  BY DEF IInv, TypeOK, Phases, MergeFront, prepend, MergeBack, append, MergeSmart
<1>2. Boards(open') \cup Pending' = Boards(open) \cup Pending
  <2>1. CASE MergeSmart
    <3>1. PICK i \in todo : open' = <<succ[i]>> \o open /\ todo' = todo \ {i}
      BY <2>1 DEF MergeSmart, prepend
    <3>2. Boards(open') = Boards(open) \cup {succ[i].board}
      BY <1>1, <3>1, BoardsCons
    <3>3. Pending = Pending' \cup {succ[i].board}
      BY <1>1, <3>1 DEF Pending
    <3> QED
      BY <3>2, <3>3
  <2>2. CASE MergeFront \/ MergeBack
    <3>1. todo = DOMAIN succ /\ todo' = {} /\ (open' = succ \o open \/ open' = open \o succ)
      BY <2>2 DEF IInv, Phases, MergeFront, prepend, MergeBack, append
    <3>2. Boards(open') = Boards(open) \cup Boards(succ)
      <4>1. CASE open' = succ \o open
        BY <1>1, <4>1, BoardsConcat
      <4>2. CASE open' = open \o succ
        BY <1>1, <4>2, BoardsConcat
      <4> QED
        BY <3>1, <4>1, <4>2
    <3>3. Pending = Boards(succ) /\ Pending' = {}
      BY <3>1 DEF Pending, Boards
    <3> QED
      BY <3>2, <3>3
  <2> QED
    BY <2>1, <2>2
<1>3. Visited' = Visited
  BY <1>1 DEF Visited, Holding
<1> QED
  BY <1>1, <1>2, <1>3 DEF Frontier

LEMMA FindParentStutters == IInv /\ FindParent => UNCHANGED <<Frontier, Visited, outcome>>
<1> SUFFICES ASSUME IInv, FindParent PROVE UNCHANGED <<Frontier, Visited, outcome>>
  OBVIOUS
<1> DEFINE b  == Undo(cp.board, cp.dir)
           cl == Undone(b)
           m  == CHOOSE j \in DOMAIN cl : IsFirstMatch(cl, b, j)
<1>1. /\ pc = "path" /\ pc' \in {"path", "done"} /\ cp.board # start
      /\ cp' = cl[m]
      /\ closed' = IF outcome = "exhausted" THEN [cl EXCEPT ![Len(cl)] = cp'] ELSE cl
      /\ open' = open /\ succ' = succ /\ todo' = todo /\ leaf' = leaf /\ outcome' = outcome
      /\ outcome \in {"found", "exhausted"}
  BY DEF FindParent, PathFull, args, search, IInv, Phases
<1>2. /\ cl \in Seq(Node) /\ Len(cl) = Len(closed)
      /\ \A i \in Intact : i \in DOMAIN cl /\ cl[i] = closed[i]
  BY <1>1, ParentFound
<1>3. closed \in Seq(Node) /\ Len(closed) \in Nat /\ DOMAIN closed = 1 .. Len(closed)
  BY DEF IInv, TypeOK
<1>4. Frontier' = Frontier
  BY <1>1 DEF Frontier, Pending
<1>5. CASE outcome = "exhausted"
  <2> HIDE DEF cl, m
  <2>1. closed' = [cl EXCEPT ![Len(cl)] = cp'] /\ Len(closed') = Len(closed)
    BY <1>1, <1>2, <1>5
  <2>2. Intact' = Intact /\ Intact = 1 .. (Len(closed) - 1)
    BY <1>1, <1>5, <2>1 DEF Intact
  <2>3. \A i \in Intact : closed'[i] = closed[i]
    BY <1>2, <1>3, <2>1, <2>2
  <2> QED
    BY <1>1, <1>4, <1>5, <2>2, <2>3 DEF Visited
<1>6. CASE outcome = "found"
  <2>1. closed' = closed
    BY <1>1, <1>6 DEF Undone
  <2> QED
    BY <1>1, <1>4, <1>6, <2>1 DEF Visited, Holding
<1> QED
  BY <1>1, <1>5, <1>6

\* The end of a turn is a stutter, or says how the search ends.
LEMMA CloseRefines ==
  IInv /\ Close => \/ UNCHANGED <<Frontier, Visited, outcome>>
                   \/ GS!Found
                   \/ GS!Exhausted
<1> SUFFICES ASSUME IInv, Close
             PROVE  UNCHANGED <<Frontier, Visited, outcome>> \/ GS!Found \/ GS!Exhausted
  OBVIOUS
<1>1. /\ pc = "close" /\ pc' \in {"path", "loop"} /\ closed' = Append(closed, cp)
      /\ open' = open /\ succ' = succ /\ todo' = todo /\ todo = {}
      /\ outcome = "searching"
      /\ cp \in Node /\ closed \in Seq(Node) /\ succ \in Seq(Node)
  BY DEF IInv, Phases, HandHasParent, Holding, TypeOK, Close, goal_found, search
<1>2. \A i \in DOMAIN succ : succ[i].board \in Boards(open)
  BY <1>1 DEF IInv, SuccSound, Holding
<1>3. Boards(closed') = Boards(closed) \cup {cp.board}
  BY <1>1, BoardsAppend
<1>4. Frontier = Boards(open) /\ Visited = Boards(closed) \cup {cp.board}
  BY <1>1 DEF Frontier, Visited, Pending, Holding
<1>5. Frontier' = Boards(open)
  BY <1>1 DEF Frontier, Pending, Close, goal_found
<1>6. outcome' # "exhausted" => Visited' = Visited
  BY <1>1, <1>3, <1>4 DEF Visited, Holding
<1>7. CASE succ # <<>> /\ succ[1].board = GoalBoard
  <2>1. outcome' = "found" /\ 1 \in DOMAIN succ
    BY <1>1, <1>7 DEF Close, goal_found
  <2>2. GoalBoard \in Frontier
    BY <1>2, <1>4, <1>7, <2>1
  <2> QED
    BY <1>1, <1>4, <1>5, <1>6, <2>1, <2>2 DEF GS!Found
<1>8. CASE ~(succ # <<>> /\ succ[1].board = GoalBoard) /\ open = <<>>
  <2>1. Boards(open) = {}
    BY <1>8 DEF Boards
  <2>2. DOMAIN succ = {}
    BY <1>2, <2>1
  <2>3. succ = <<>>
    BY <1>1, <2>2
  <2>4. outcome' = "exhausted" /\ leaf' = cp.board
    BY <1>8, <2>3 DEF Close, goal_found
  <2>5. {closed'[i].board : i \in Intact'} = Boards(closed)
    <3>1. /\ Len(closed) \in Nat /\ Len(closed') = Len(closed) + 1
          /\ DOMAIN closed = 1 .. Len(closed) /\ \A i \in DOMAIN closed : closed'[i] = closed[i]
      BY <1>1
    <3>2. Intact' = DOMAIN closed
      BY <2>4, <3>1 DEF Intact
    <3> QED
      BY <3>1, <3>2 DEF Boards
  <2>6. Visited' = Visited
    BY <1>4, <2>4, <2>5 DEF Visited
  <2> QED
    BY <1>1, <1>4, <1>5, <2>1, <2>4, <2>6 DEF GS!Exhausted
<1>9. CASE ~(succ # <<>> /\ succ[1].board = GoalBoard) /\ open # <<>>
  <2>1. outcome' = outcome
    BY <1>9 DEF Close, goal_found
  <2> QED
    BY <1>1, <1>4, <1>5, <1>6, <2>1
<1> QED
  BY <1>7, <1>8, <1>9

\* The statements before the loop.
LEMMA StartRefines ==
  IInv /\ (Accept \/ Reject \/ StartIsGoal \/ StartSearch) =>
    \/ UNCHANGED <<Frontier, Visited, outcome>>
    \/ GS!Found
    \/ GS!Reject
<1> SUFFICES ASSUME IInv, Accept \/ Reject \/ StartIsGoal \/ StartSearch
             PROVE  UNCHANGED <<Frontier, Visited, outcome>> \/ GS!Found \/ GS!Reject
  OBVIOUS
<1> DEFINE n == StartNode(start)
<1>1. /\ pc \in {"solvable", "goal"} /\ outcome = "searching" /\ closed = <<>> /\ todo = {}
      /\ start' = start /\ closed' = closed /\ todo' = todo
  BY DEF IInv, Phases, Accept, Reject, StartIsGoal, StartSearch, StartNode, goal_found, args, search
<1>2. n.board = start
  BY DEF StartNode
<1> HIDE DEF n
<1>3. Boards(closed) = {} /\ Boards(<<n>>) = {start} /\ Pending = {} /\ Pending' = {}
  <2>1. DOMAIN <<n>> = {1} /\ <<n>>[1] = n
    OBVIOUS
  <2> QED
    BY <1>1, <1>2, <2>1 DEF Boards, Pending
<1>4. Frontier = {start} /\ Visited = {}
  BY <1>1, <1>3 DEF IInv, Phases, Frontier, Visited, Holding, n
<1>5. Frontier' = {start} /\ outcome' # "exhausted"
  BY <1>1, <1>3 DEF IInv, Phases, Accept, Reject, StartIsGoal, StartSearch, StartNode, goal_found, Frontier, search, n
<1>6. Visited' = {}
  BY <1>1, <1>3, <1>5 DEF Accept, Reject, StartIsGoal, StartSearch, StartNode, goal_found, Visited, Holding
<1>7. CASE Accept \/ StartSearch
  BY <1>4, <1>5, <1>6, <1>7 DEF Accept, StartSearch, goal_found
<1>8. CASE Reject
  BY <1>1, <1>4, <1>5, <1>6, <1>8 DEF Reject, GS!Reject
<1>9. CASE StartIsGoal
  BY <1>1, <1>4, <1>5, <1>6, <1>9 DEF StartIsGoal, StartNode, goal_found, GS!Found
<1> QED
  BY <1>7, <1>8, <1>9

LEMMA NextRefines == IInv /\ [Next]_vars => [GS!Next]_(GS!vars)
<1> SUFFICES ASSUME IInv, [Next]_vars PROVE GS!Next \/ UNCHANGED <<Frontier, Visited, outcome>>
  BY DEF GS!vars
<1>1. CASE Expand
  BY <1>1, ExpandRefines DEF GS!Next
<1>2. CASE MergeFront \/ MergeBack \/ MergeSmart
  BY <1>2, MergeStutters
<1>3. CASE Close
  BY <1>3, CloseRefines DEF GS!Next
<1>4. CASE Accept \/ Reject \/ StartIsGoal \/ StartSearch
  BY <1>4, StartRefines DEF GS!Next
<1>5. CASE FindParent
  BY <1>5, FindParentStutters
<1>6. CASE PathEnds
  BY <1>6 DEF PathEnds, args, search, IInv, Phases, Frontier, Visited, Pending, Intact, Holding
<1>7. CASE UNCHANGED vars
  BY <1>7 DEF vars, Frontier, Visited, Pending, Intact, Holding
<1> QED
  BY <1>1, <1>2, <1>3, <1>4, <1>5, <1>6, <1>7 DEF Next, Stopped

\* Under every strategy the loop of main.c is a GraphSearch: it visits a board
\* of its frontier, adds exactly the unseen neighbours, and says "found" or
\* "exhausted" only when that is so.
THEOREM LoopImplementsGraphSearch == Spec => ImplementsGraphSearch
BY InitRefines, IInvHolds, NextRefines, PTL DEF Spec, ImplementsGraphSearch, GS!Spec

\* What each step of GraphSearch keeps, whatever the order in which the
\* frontier is taken.
SearchInv == GS!TypeOK /\ GS!Separate /\ GS!NothingLost /\ GS!ExhaustedIsComplete

LEMMA SearchStarts == GS!Init => SearchInv
BY StartsAssumption DEF GS!Init, SearchInv, GS!TypeOK, GS!Separate, GS!NothingLost,
   GS!ExhaustedIsComplete

LEMMA SearchSteps == SearchInv /\ [GS!Next]_(GS!vars) => SearchInv'
<1> SUFFICES ASSUME SearchInv, GS!Next \/ UNCHANGED <<Frontier, Visited, outcome>>
             PROVE  SearchInv'
  BY DEF GS!vars
<1> USE DEF SearchInv, GS!TypeOK, GS!Separate, GS!NothingLost, GS!ExhaustedIsComplete
<1>1. ASSUME NEW v \in Frontier, GS!Visit(v) PROVE SearchInv'
  <2>1. v \in Board /\ Neighbours(v) \subseteq Board
    BY NeighboursBack
  <2>2. GS!TypeOK'
    BY <1>1, <2>1 DEF GS!Visit
  <2>3. GS!Separate'
    BY <1>1 DEF GS!Visit
  <2>4. GS!NothingLost'
    BY <1>1 DEF GS!Visit
  <2> QED
    BY <1>1, <2>2, <2>3, <2>4 DEF GS!Visit
<1>2. CASE GS!Reject \/ GS!Found
  BY <1>2 DEF GS!Reject, GS!Found
<1>3. CASE GS!Exhausted
  BY <1>3 DEF GS!Exhausted
<1>4. CASE UNCHANGED <<Frontier, Visited, outcome>>
  BY <1>4
<1> QED
  BY <1>1, <1>2, <1>3, <1>4 DEF GS!Next

\* The loop of main.c visits no board twice and forgets no neighbour of one it has
\* visited, and a search that ends without an answer has visited a set closed under
\* moves: all that GraphSearch promises, under every strategy.
THEOREM SearchIsComplete ==
  Spec => [](GS!TypeOK /\ GS!Separate /\ GS!NothingLost /\ GS!ExhaustedIsComplete)
<1>1. Spec => GS!Init /\ [][GS!Next]_(GS!vars)
  BY InitRefines, IInvHolds, NextRefines, PTL DEF Spec
<1>2. SearchInv => GS!TypeOK /\ GS!Separate /\ GS!NothingLost /\ GS!ExhaustedIsComplete
  BY DEF SearchInv
<1> QED
  BY <1>1, <1>2, SearchStarts, SearchSteps, PTL

\* Every neighbour of a board that was expanded is expanded or waiting, and a
\* search that ends without an answer has expanded all that can be reached.
THEOREM LoopLosesNothing == Spec => []NothingLost
<1>1. Init => NothingLost
  BY DEF Init, NothingLost, Visited, Boards, Holding
<1>2. NothingLost /\ [GS!Next]_(GS!vars) => NothingLost'
  <2> SUFFICES ASSUME NothingLost, GS!Next \/ UNCHANGED <<Frontier, Visited, outcome>>
               PROVE  NothingLost'
    BY DEF GS!vars
  <2>1. ASSUME NEW v \in Frontier, GS!Visit(v) PROVE NothingLost'
    BY <2>1 DEF NothingLost, GS!Visit
  <2>2. CASE GS!Reject \/ GS!Found \/ GS!Exhausted \/ UNCHANGED <<Frontier, Visited, outcome>>
    BY <2>2 DEF NothingLost, GS!Reject, GS!Found, GS!Exhausted
  <2> QED
    BY <2>1, <2>2 DEF GS!Next
<1> QED
  BY <1>1, <1>2, IInvHolds, NextRefines, PTL DEF Spec

-----------------------------------------------------------------------------
(* The order merge leaves the successors in.                               *)

\* Successor i must come before successor j.
Ranked(i, j) == \/ Key(succ[i]) < Key(succ[j])
                \/ Key(succ[i]) = Key(succ[j]) /\ i < j

\* The successors merge has linked into open, and how many they are.
Linked  == DOMAIN succ \ todo
NLinked == Len(succ) - Cardinality(todo)

\* pos says where in open the linked successors are: in front, in order.
InFront(pos) == /\ pos \in [Linked -> 1 .. NLinked]
                /\ \A i \in Linked : open[pos[i]] = succ[i]
                /\ \A i, j \in Linked : Ranked(i, j) => pos[i] < pos[j]

\* Those not linked yet must come before those that are.
LinkedInOrder ==
  Holding /\ strategy # "bfs" /\ (pc = "merge" => strategy # "dfs") =>
    /\ NLinked <= Len(open)
    /\ \A i \in todo, j \in Linked : Ranked(i, j)
    /\ \E pos : InFront(pos)

\* Only the informed strategies fill in f.
FlatKeys == Holding /\ strategy \notin {"astar", "best"} => \A i \in DOMAIN succ : succ[i].f = 0

MInv == LinkedInOrder /\ FlatKeys

LEMMA TodoCount ==
  ASSUME NEW n \in Nat, NEW T \in SUBSET (1 .. n)
  PROVE  /\ IsFiniteSet(T) /\ Cardinality(T) \in Nat /\ Cardinality(T) <= n
         /\ Cardinality(1 .. n) = n
<1>1. IsFiniteSet(1 .. n) /\ Cardinality(1 .. n) = n
  BY FS_Interval
<1> QED
  BY <1>1, FS_Subset, FS_CardinalityType

LEMMA ExpandMInv == IInv /\ Expand => MInv'
<1> SUFFICES ASSUME IInv, Expand PROVE MInv'
  OBVIOUS
<1> DEFINE n == Head(open)
           s == NewSuccessors(n, Tail(open), closed)
<1>1. pc = "loop" /\ open # <<>> /\ closed \in Seq(Node) /\ open \in Seq(Node)
  BY DEF IInv, Phases, TypeOK, Expand
<1>2. succ' = s /\ todo' = DOMAIN s /\ open' = Tail(open) /\ strategy' = strategy
  BY DEF Expand, args, NewSuccessors
<1>3. n \in Node /\ Tail(open) \in Seq(Node)
  BY <1>1, BoardsHeadTail
<1>4. s \in Seq(Node) /\ \A i \in DOMAIN s : IsMoveOf(s[i], n)
  BY <1>1, <1>3, NewSuccessorsFacts, Zenon
<1>5. FlatKeys'
  <2> HIDE DEF s, n
  <2>1. ASSUME NEW i \in DOMAIN s, strategy \notin {"astar", "best"} PROVE s[i].f = 0
    BY <1>4, <2>1 DEF IsMoveOf, move
  <2> QED
    BY <1>2, <2>1 DEF FlatKeys
<1> HIDE DEF s, n
<1>6. Linked' = {} /\ NLinked' = 0
  <2>1. DOMAIN s = 1 .. Len(s) /\ Len(s) \in Nat
    BY <1>4
  <2>2. Cardinality(DOMAIN s) = Len(s)
    BY <2>1, TodoCount
  <2> QED
    BY <1>2, <2>1, <2>2 DEF Linked, NLinked
<1>7. InFront([i \in {} |-> i])'
  BY <1>6 DEF InFront
<1>8. Len(open') \in Nat
  BY <1>2, <1>3
<1> QED
  BY <1>5, <1>6, <1>7, <1>8 DEF MInv, LinkedInOrder

LEMMA MergeFrontMInv == IInv /\ MInv /\ MergeFront => MInv'
<1> SUFFICES ASSUME IInv, MInv, MergeFront PROVE MInv'
  OBVIOUS
<1>1. /\ pc = "merge" /\ strategy = "dfs" /\ open' = succ \o open /\ todo' = {}
      /\ succ' = succ /\ strategy' = strategy /\ open \in Seq(Node) /\ succ \in Seq(Node)
  BY DEF MergeFront, prepend, args, IInv, TypeOK
<1>2. FlatKeys'
  BY <1>1 DEF MInv, FlatKeys, Holding
<1>3. /\ DOMAIN succ = 1 .. Len(succ) /\ Len(succ) \in Nat /\ Len(open') = Len(succ) + Len(open)
      /\ Len(open) \in Nat
      /\ \A i \in DOMAIN succ : open'[i] = succ[i]
  BY <1>1
<1>4. Linked' = DOMAIN succ /\ NLinked' = Len(succ)
  BY <1>1, <1>3, FS_EmptySet DEF Linked, NLinked
<1>5. \A i, j \in DOMAIN succ : Ranked(i, j)' => i < j
  <2>1. \A i \in DOMAIN succ : Key(succ[i])' = 0
    BY <1>1 DEF Key, MInv, FlatKeys, Holding
  <2> QED
    BY <1>1, <2>1 DEF Ranked
<1>6. InFront([i \in DOMAIN succ |-> i])'
  BY <1>1, <1>3, <1>4, <1>5 DEF InFront
<1>7. NLinked' <= Len(open')
  BY <1>3, <1>4
<1> QED
  BY <1>1, <1>2, <1>6, <1>7 DEF MInv, LinkedInOrder

LEMMA MergeBackMInv == MInv /\ MergeBack => MInv'
BY DEF MergeBack, args, MInv, FlatKeys, LinkedInOrder, Holding

LEMMA MergeSmartMInv == IInv /\ MInv /\ MergeSmart => MInv'
<1> SUFFICES ASSUME IInv, MInv, MergeSmart PROVE MInv'
  OBVIOUS
<1>1. /\ pc = "merge" /\ strategy \notin {"dfs", "bfs"} /\ succ' = succ /\ strategy' = strategy
      /\ open \in Seq(Node) /\ succ \in Seq(Node) /\ todo \subseteq DOMAIN succ
  BY DEF MergeSmart, args, IInv, TypeOK
<1>2. PICK i \in todo : /\ LastOfGreatest(i)
                        /\ open' = <<succ[i]>> \o open /\ todo' = todo \ {i}
  BY DEF MergeSmart, prepend
<1>3. /\ NLinked <= Len(open)
      /\ \A k \in todo, j \in Linked : Ranked(k, j)
      /\ \E pos : InFront(pos)
  BY <1>1 DEF MInv, LinkedInOrder, Holding
<1>4. PICK pos : InFront(pos)
  BY <1>3
<1>5. FlatKeys'
  BY <1>1 DEF MInv, FlatKeys, Holding
<1>6. \A k \in DOMAIN succ : Key(succ[k]) \in Nat /\ k \in Int
  <2>1. \A k \in DOMAIN succ : succ[k] \in Node /\ k \in Int
    BY <1>1
  <2> QED
    BY <2>1 DEF Key, Node
<1>7. \A k, j \in DOMAIN succ : Ranked(k, j)' <=> Ranked(k, j)
  BY <1>1 DEF Ranked, Key
<1>8. Linked' = Linked \cup {i} /\ i \notin Linked /\ Linked \subseteq DOMAIN succ /\ i \in DOMAIN succ
  BY <1>1, <1>2 DEF Linked
<1>9. NLinked' = NLinked + 1 /\ NLinked \in Nat
  <2>1. DOMAIN succ = 1 .. Len(succ) /\ Len(succ) \in Nat
    BY <1>1
  <2>2. IsFiniteSet(todo) /\ Cardinality(todo) \in Nat /\ Cardinality(todo) <= Len(succ)
    BY <1>1, <2>1, TodoCount
  <2>3. Cardinality(todo') = Cardinality(todo) - 1
    BY <1>2, <2>2, FS_RemoveElement
  <2> QED
    BY <1>1, <2>1, <2>2, <2>3 DEF NLinked
<1>10. ASSUME NEW k \in todo, k # i PROVE Ranked(k, i)
  <2>1. Key(succ[k]) < Key(succ[i]) \/ (Key(succ[k]) = Key(succ[i]) /\ k <= i)
    BY <1>2 DEF LastOfGreatest
  <2>2. k \in Int /\ i \in Int
    BY <1>1, <1>6, <1>8
  <2> QED
    BY <1>10, <2>1, <2>2 DEF Ranked
<1>11. ASSUME NEW j \in Linked \cup {i} PROVE ~Ranked(j, i)
  <2>1. CASE j = i
    BY <1>6, <1>8, <2>1 DEF Ranked
  <2>2. CASE j \in Linked
    <3>1. Ranked(i, j)
      BY <1>2, <1>3, <2>2
    <3>2. Key(succ[i]) \in Nat /\ Key(succ[j]) \in Nat /\ i \in Int /\ j \in Int
      BY <1>6, <1>8, <2>2
    <3> QED
      BY <3>1, <3>2 DEF Ranked
  <2> QED
    BY <2>1, <2>2
<1>12. \A k \in todo', j \in Linked' : Ranked(k, j)'
  BY <1>1, <1>2, <1>3, <1>7, <1>8, <1>10
<1>13. /\ Len(open') = Len(open) + 1 /\ Len(open) \in Nat /\ open'[1] = succ[i]
       /\ \A k \in 1 .. Len(open) : open'[k + 1] = open[k]
  <2>1. succ[i] \in Node
    BY <1>1, <1>8
  <2> QED
    BY <1>1, <1>2, <2>1
<1> DEFINE q == [j \in Linked \cup {i} |-> IF j = i THEN 1 ELSE pos[j] + 1]
<1>14. \A j \in Linked : pos[j] \in 1 .. NLinked /\ open[pos[j]] = succ[j]
  BY <1>4 DEF InFront
<1>15. q \in [Linked' -> 1 .. NLinked']
  BY <1>8, <1>9, <1>14
<1>16. ASSUME NEW j \in Linked' PROVE open'[q[j]] = succ'[j]
  <2>1. CASE j = i
    BY <1>1, <1>8, <1>13, <2>1
  <2>2. CASE j # i
    <3>1. j \in Linked /\ q[j] = pos[j] + 1
      BY <1>8, <2>2
    <3>2. pos[j] \in 1 .. Len(open)
      BY <1>3, <1>9, <1>13, <1>14, <3>1
    <3> QED
      BY <1>1, <1>13, <1>14, <3>1, <3>2
  <2> QED
    BY <2>1, <2>2
<1>17. ASSUME NEW k \in Linked', NEW j \in Linked', Ranked(k, j)' PROVE q[k] < q[j]
  <2>1. Ranked(k, j) /\ j # i
    BY <1>7, <1>8, <1>11, <1>17
  <2>2. j \in Linked /\ q[j] = pos[j] + 1 /\ pos[j] \in Nat /\ pos[j] >= 1
    BY <1>8, <1>9, <1>14, <2>1
  <2>3. CASE k = i
    BY <1>8, <2>2, <2>3
  <2>4. CASE k # i
    <3>1. k \in Linked /\ q[k] = pos[k] + 1 /\ pos[k] \in Nat
      BY <1>8, <1>9, <1>14, <2>4
    <3>2. pos[k] < pos[j]
      BY <1>4, <2>1, <2>2, <3>1 DEF InFront
    <3> QED
      BY <2>2, <3>1, <3>2
  <2> QED
    BY <2>3, <2>4
<1> HIDE DEF q
<1>18. \E p : InFront(p)'
  <2>1. PICK p : p = q
    OBVIOUS
  <2>2. /\ p \in [Linked' -> 1 .. NLinked']
        /\ \A j \in Linked' : open'[p[j]] = succ'[j]
        /\ \A k, j \in Linked' : Ranked(k, j)' => p[k] < p[j]
    BY <1>15, <1>16, <1>17, <2>1
  <2>3. InFront(p)'
    BY <2>2 DEF InFront
  <2> QED
    BY <2>3
<1>19. NLinked' <= Len(open')
  BY <1>3, <1>9, <1>13
<1> QED
  BY <1>5, <1>12, <1>18, <1>19 DEF MInv, LinkedInOrder

\* The other steps leave the merge, or are not in it.
LEMMA OtherMInv ==
  MInv /\ (Accept \/ Reject \/ StartIsGoal \/ StartSearch \/ Close \/ FindParent \/ PathEnds) => MInv'
BY DEF Accept, Reject, StartIsGoal, StartSearch, Close, FindParent, PathEnds,
       MInv, LinkedInOrder, FlatKeys, Holding

LEMMA StutterMInv == MInv /\ UNCHANGED vars => MInv'
<1> SUFFICES ASSUME MInv, UNCHANGED vars PROVE MInv'
  OBVIOUS
<1> USE DEF vars
<1>1. Linked' = Linked /\ NLinked' = NLinked
  BY DEF Linked, NLinked
<1>2. \A i, j : Ranked(i, j)' = Ranked(i, j)
  BY DEF Ranked, Key
<1>3. \A p : InFront(p)' = InFront(p)
  BY <1>1, <1>2 DEF InFront
<1> QED
  BY <1>1, <1>2, <1>3 DEF MInv, LinkedInOrder, FlatKeys, Holding

LEMMA NextMInv == IInv /\ MInv /\ [Next]_vars => MInv'
BY ExpandMInv, MergeFrontMInv, MergeBackMInv, MergeSmartMInv, OtherMInv, StutterMInv DEF Next, Stopped

LEMMA MInvIsOrder == IInv /\ MInv => MergedInOrder
<1> SUFFICES ASSUME IInv, MInv, pc = "close", strategy # "bfs"
             PROVE  /\ Len(succ) <= Len(open)
                    /\ \E pos \in [DOMAIN succ -> DOMAIN succ] :
                         /\ \A i \in DOMAIN succ : open[pos[i]] = succ[i]
                         /\ \A i, j \in DOMAIN succ : Ranked(i, j) => pos[i] < pos[j]
  BY DEF MergedInOrder, Ranked
<1>1. todo = {} /\ DOMAIN succ = 1 .. Len(succ) /\ Len(succ) \in Nat
  BY DEF IInv, Phases, TypeOK
<1>2. Linked = DOMAIN succ /\ NLinked = Len(succ)
  BY <1>1, FS_EmptySet DEF Linked, NLinked
<1>3. NLinked <= Len(open) /\ \E pos : InFront(pos)
  BY DEF MInv, LinkedInOrder, Holding
<1>4. PICK pos : InFront(pos)
  BY <1>3
<1>5. /\ pos \in [DOMAIN succ -> DOMAIN succ]
      /\ \A i \in DOMAIN succ : open[pos[i]] = succ[i]
      /\ \A i, j \in DOMAIN succ : Ranked(i, j) => pos[i] < pos[j]
  BY <1>1, <1>2, <1>4 DEF InFront
<1> QED
  BY <1>2, <1>3, <1>5

\* merge leaves the new successors in front of open in the order of their
\* keys, those of equal key as expand made them (main.c:346-433).
THEOREM MergeKeepsOrder == Spec => []MergedInOrder
<1>1. Init => MInv
  BY DEF Init, MInv, LinkedInOrder, FlatKeys, Holding
<1> QED
  BY <1>1, NextMInv, MInvIsOrder, IInvHolds, PTL DEF Spec

-----------------------------------------------------------------------------
(* The parity of the boards held.                                          *)

\* Everything the search holds.
Held == Boards(open) \cup Boards(closed) \cup Pending \cup (IF Holding THEN {cp.board} ELSE {})

HeldSolvable == /\ pc = "goal" => solvable(start)
                /\ Looping => \A x \in Held : solvable(x)

LEMMA StartHeldSolvable ==
  IInv /\ HeldSolvable /\ (Accept \/ Reject \/ StartIsGoal \/ StartSearch) => HeldSolvable'
<1> SUFFICES ASSUME IInv, HeldSolvable, Accept \/ Reject \/ StartIsGoal \/ StartSearch
             PROVE  HeldSolvable'
  OBVIOUS
<1>1. CASE Accept \/ Reject \/ StartIsGoal
  BY <1>1 DEF Accept, Reject, StartIsGoal, HeldSolvable, Looping, args
<1>2. CASE StartSearch
  <2>1. open' = <<StartNode(start)>> /\ closed' = <<>> /\ todo' = {} /\ pc' = "loop" /\ solvable(start)
    BY <1>2 DEF StartSearch, search, IInv, Phases, HeldSolvable
  <2>2. Boards(open)' = {start}
    BY <2>1 DEF Boards, StartNode
  <2>3. Held' = {start}
    BY <2>1, <2>2 DEF Held, Pending, Holding, Boards
  <2> QED
    BY <2>1, <2>3 DEF HeldSolvable
<1> QED
  BY <1>1, <1>2

LEMMA SuccessorsAreNeighbours ==
  ASSUME NEW n \in Node, NEW o \in Seq(Node), NEW c \in Seq(Node)
  PROVE  Boards(NewSuccessors(n, o, c)) \subseteq Neighbours(n.board)
<1> DEFINE s == NewSuccessors(n, o, c)
<1>1. /\ s \in Seq(Node)
      /\ \A i \in DOMAIN s : IsMoveOf(s[i], n)
      /\ Boards(s) = Neighbours(n.board) \ (Boards(o) \cup Boards(c))
      /\ n.board \notin Boards(s)
      /\ Distinct(s)
      /\ GoalFirst(s)
  BY NewSuccessorsFacts, Zenon
<1> QED
  BY <1>1

LEMMA ExpandHeldSolvable == N % 2 = 0 /\ IInv /\ HeldSolvable /\ Expand => HeldSolvable'
<1> SUFFICES ASSUME N % 2 = 0, IInv, HeldSolvable, Expand PROVE HeldSolvable'
  OBVIOUS
<1> DEFINE n == Head(open)
           o == Tail(open)
           s == NewSuccessors(n, o, closed)
<1>1. pc = "loop" /\ open # <<>> /\ closed \in Seq(Node) /\ open \in Seq(Node)
  BY DEF IInv, Phases, TypeOK, Expand
<1>2. /\ cp' = n /\ open' = o /\ succ' = s /\ todo' = DOMAIN s /\ closed' = closed
      /\ pc' \in {"close", "merge"}
  BY DEF Expand, NewSuccessors
<1>3. n \in Node /\ o \in Seq(Node) /\ Boards(open) = {n.board} \cup Boards(o)
  BY <1>1, BoardsHeadTail
<1>4. Boards(s) \subseteq Neighbours(n.board)
  BY <1>1, <1>3, SuccessorsAreNeighbours, Zenon
<1> HIDE DEF n, o, s
<1>5. \A x \in Boards(open) \cup Boards(closed) : solvable(x)
  BY <1>1 DEF HeldSolvable, Held, Looping
<1>6. \A x \in Neighbours(n.board) : solvable(x)
  <2>1. n.board \in Board /\ solvable(n.board)
    BY <1>3, <1>5 DEF Node
  <2> QED
    BY <2>1, MoveKeepsParity DEF Neighbours
<1>7. Pending' = Boards(s)
  BY <1>2 DEF Pending, Boards
<1>8. Held' \subseteq Boards(open) \cup Boards(closed) \cup Boards(s)
  BY <1>2, <1>3, <1>7 DEF Held
<1> QED
  BY <1>2, <1>4, <1>5, <1>6, <1>8 DEF HeldSolvable

\* merge and the end of a turn only move boards from one list to another.
LEMMA HeldMoved ==
  IInv /\ (MergeFront \/ MergeBack \/ MergeSmart \/ Close) /\ Looping' => Held' \subseteq Held
<1> SUFFICES ASSUME IInv, MergeFront \/ MergeBack \/ MergeSmart \/ Close, Looping'
             PROVE  Held' \subseteq Held
  OBVIOUS
<1>1. open \in Seq(Node) /\ closed \in Seq(Node) /\ succ \in Seq(Node) /\ todo \subseteq DOMAIN succ
  BY DEF IInv, TypeOK
<1>2. CASE MergeFront \/ MergeBack
  <2>1. /\ open' = succ \o open \/ open' = open \o succ
        /\ todo' = {} /\ todo = DOMAIN succ /\ UNCHANGED <<closed, cp, succ>>
        /\ Holding
    BY <1>2 DEF MergeFront, MergeBack, prepend, append, IInv, Phases, Holding
  <2>2. /\ Boards(succ \o open) = Boards(open) \cup Boards(succ)
        /\ Boards(open \o succ) = Boards(open) \cup Boards(succ)
    <3>1. Boards(succ \o open) = Boards(succ) \cup Boards(open)
      BY <1>1, BoardsConcat
    <3>2. Boards(open \o succ) = Boards(open) \cup Boards(succ)
      BY <1>1, BoardsConcat
    <3> QED
      BY <3>1, <3>2
  <2>3. Boards(succ) = Pending
    BY <2>1 DEF Boards, Pending
  <2>4. Boards(open') = Boards(open) \cup Boards(succ)
    BY <2>1, <2>2
  <2> QED
    BY <2>1, <2>3, <2>4 DEF Held, Pending
<1>3. CASE MergeSmart
  <2>1. PICK i \in todo : open' = <<succ[i]>> \o open /\ todo' = todo \ {i}
    BY <1>3 DEF MergeSmart, prepend
  <2>2. UNCHANGED <<closed, cp, succ>> /\ Holding
    BY <1>3 DEF MergeSmart, Holding
  <2>3. succ[i] \in Node /\ succ[i].board \in Pending
    BY <1>1, <2>1 DEF Pending
  <2>4. Boards(open') = Boards(open) \cup {succ[i].board}
    BY <1>1, <2>1, <2>3, BoardsCons
  <2>5. Pending' \subseteq Pending
    BY <2>1, <2>2 DEF Pending
  <2> QED
    BY <2>2, <2>3, <2>4, <2>5 DEF Held
<1>4. CASE Close
  <2>1. cp \in Node /\ Holding /\ todo = {}
    BY <1>4 DEF Close, IInv, Phases, HandHasParent, Holding
  <2>2. closed' = Append(closed, cp) /\ UNCHANGED <<open, todo, succ>> /\ ~Holding'
    BY <1>4 DEF Close, search, Holding
  <2>3. Boards(closed') = Boards(closed) \cup {cp.board}
    BY <1>1, <2>1, <2>2, BoardsAppend
  <2> QED
    BY <2>1, <2>2, <2>3 DEF Held, Pending
<1> QED
  BY <1>2, <1>3, <1>4

LEMMA NextHeldSolvable == N % 2 = 0 /\ IInv /\ HeldSolvable /\ [Next]_vars => HeldSolvable'
<1> SUFFICES ASSUME N % 2 = 0, IInv, HeldSolvable, [Next]_vars PROVE HeldSolvable'
  OBVIOUS
<1>1. CASE MergeFront \/ MergeBack \/ MergeSmart \/ Close
  <2>1. Looping /\ pc' # "goal"
    BY <1>1 DEF MergeFront, MergeBack, MergeSmart, Close, Looping
  <2> QED
    BY <1>1, <2>1, HeldMoved DEF HeldSolvable
<1>2. CASE FindParent \/ PathEnds
  BY <1>2 DEF FindParent, PathEnds, HeldSolvable, Looping
<1>3. CASE UNCHANGED vars
  BY <1>3 DEF vars, HeldSolvable, Held, Looping, Holding, Boards, Pending
<1> QED
  BY <1>1, <1>2, <1>3, StartHeldSolvable, ExpandHeldSolvable DEF Next, Stopped

\* On a board of even side the parity test of main (main.c:82) holds for every
\* board the search ever has, so that none is searched in vain.
THEOREM ParityStays == ASSUME N % 2 = 0 PROVE Spec => []ParityKept
<1>1. Init => HeldSolvable
  BY DEF Init, HeldSolvable, Looping
<1>2. IInv /\ HeldSolvable /\ [Next]_vars => HeldSolvable'
  BY NextHeldSolvable
<1>3. HeldSolvable => ParityKept
  BY DEF HeldSolvable, Held, ParityKept
<1> QED
  BY <1>1, <1>2, <1>3, IInvHolds, PTL DEF Spec

-----------------------------------------------------------------------------
(* What a refusal and an exhausted search say.                              *)

RefusedIsUnsolvable == outcome = "rejected" => ~solvable(start)

\* main refuses (main.c:82) only boards from which no number of moves leads to
\* the goal: none of the boards within any radius of the goal is refused.
THEOREM RefusalsAreRight == ASSUME N % 2 = 0 PROVE Spec => []RefusedIsUnreachable
<1>1. Init => RefusedIsUnsolvable
  BY DEF Init, RefusedIsUnsolvable
<1>2. RefusedIsUnsolvable /\ [Next]_vars => RefusedIsUnsolvable'
  BY DEF RefusedIsUnsolvable, Next, vars, Accept, Reject, StartIsGoal, StartSearch, Expand,
         MergeFront, MergeBack, MergeSmart, Close, FindParent, PathEnds, Stopped, args
<1>3. \A b \in Ball(GoalBoard, Radius) : solvable(b)
  <2> DEFINE X == {b \in Board : solvable(b)}
  <2>1. GoalBoard \in X
    BY GoalIsBoard, GoalSolvable
  <2>2. ASSUME NEW b \in X PROVE Neighbours(b) \subseteq X
    BY MoveFacts, MoveKeepsParity DEF Neighbours
  <2> HIDE DEF X
  <2>3. Ball(GoalBoard, Radius) \subseteq X
    BY <2>1, <2>2, BallClosed, RadiusAssumption
  <2> QED
    BY <2>3 DEF X
<1>4. RefusedIsUnsolvable => RefusedIsUnreachable
  BY <1>3 DEF RefusedIsUnsolvable, RefusedIsUnreachable
<1> QED
  BY <1>1, <1>2, <1>4, PTL DEF Spec

\* Where the goal can be: nowhere among the boards visited, and in open only
\* while the turn that found it lasts.
GoalAhead == /\ start \in Visited \cup Frontier
             /\ outcome # "found" => GoalBoard \notin Visited
             /\ pc = "loop" => GoalBoard \notin Frontier
             /\ Holding /\ GoalBoard \in Frontier => GoalBoard \in Boards(succ)

LEMMA InitGoalAhead == Init => GoalAhead
BY DEF Init, GoalAhead, Frontier, Visited, Holding, Boards

LEMMA StartGoalAhead ==
  IInv /\ GoalAhead /\ (Accept \/ Reject \/ StartIsGoal \/ StartSearch) => GoalAhead'
<1> SUFFICES ASSUME IInv, GoalAhead, Accept \/ Reject \/ StartIsGoal \/ StartSearch PROVE GoalAhead'
  OBVIOUS
<1>1. /\ start' = start /\ closed' = closed /\ closed = <<>> /\ todo' = todo /\ todo = {}
      /\ pc' \in {"goal", "loop", "done"} /\ outcome' \in {"searching", "rejected", "found"}
  BY DEF Accept, Reject, StartIsGoal, StartSearch, args, search, IInv, Phases
<1>2. Boards(<<StartNode(start)>>) = {start} /\ Boards(closed') = {}
  BY <1>1 DEF Boards, StartNode
<1>3. Visited' = {} /\ ~Holding'
  BY <1>1, <1>2 DEF Visited, Holding
<1>4. Frontier' = {start}
  <2>1. outcome' = "rejected" \/ open' = <<StartNode(start)>>
    BY DEF Accept, Reject, StartIsGoal, StartSearch, search, IInv, Phases
  <2>2. Pending' = {}
    BY <1>1 DEF Pending
  <2>3. pc' # "solvable"
    BY <1>1
  <2>4. Boards(open)' = Boards(open')
    BY DEF Boards
  <2> QED
    BY <1>1, <1>2, <2>1, <2>2, <2>3, <2>4 DEF Frontier
<1>5. pc' = "loop" => start # GoalBoard
  BY DEF Accept, Reject, StartIsGoal, StartSearch, goal_found, StartNode
<1> QED
  BY <1>1, <1>3, <1>4, <1>5 DEF GoalAhead

LEMMA ExpandGoalAhead == IInv /\ GoalAhead /\ Expand => GoalAhead'
<1> SUFFICES ASSUME IInv, GoalAhead, Expand PROVE GoalAhead'
  OBVIOUS
<1> DEFINE v == Head(open).board
<1>1. GS!Visit(v) /\ v \in Frontier
  BY ExpandRefines
<1> HIDE DEF v
<1>2. /\ Visited' = Visited \cup {v} /\ outcome' = outcome /\ outcome = "searching"
      /\ Frontier' = (Frontier \ {v}) \cup (Neighbours(v) \ (Visited \cup Frontier))
  BY <1>1 DEF GS!Visit
<1>3. /\ pc = "loop" /\ start' = start /\ open # <<>> /\ todo = {}
      /\ pc' \in {"close", "merge"} /\ open' = Tail(open) /\ todo' = DOMAIN succ'
      /\ open \in Seq(Node)
  BY DEF Expand, args, IInv, Phases, TypeOK
<1>4. GoalBoard \notin Visited /\ GoalBoard \notin Frontier
  BY <1>2, <1>3 DEF GoalAhead
<1>5. Frontier = Boards(open) /\ Boards(open') \subseteq Boards(open)
  <2>1. Frontier = Boards(open)
    BY <1>2, <1>3 DEF Frontier, Pending
  <2> QED
    BY <1>3, <2>1, BoardsHeadTail
<1>6. Frontier' = Boards(open') \cup Boards(succ')
  BY <1>2, <1>3 DEF Frontier, Pending, Boards
<1>7. start \in Visited' \cup Frontier'
  BY <1>2 DEF GoalAhead
<1>8. pc' # "loop" /\ (GoalBoard \in Frontier' => GoalBoard \in Boards(succ)')
  BY <1>3, <1>4, <1>5, <1>6 DEF Boards
<1> QED
  BY <1>1, <1>2, <1>3, <1>4, <1>7, <1>8 DEF GoalAhead

LEMMA CloseGoalAhead == IInv /\ GoalAhead /\ Close => GoalAhead'
<1> SUFFICES ASSUME IInv, GoalAhead, Close PROVE GoalAhead'
  OBVIOUS
<1>1. /\ pc = "close" /\ start' = start /\ pc' \in {"path", "loop"} /\ outcome = "searching" /\ Holding
      /\ UNCHANGED <<open, todo, succ>> /\ succ \in Seq(Node)
      /\ pc' = "loop" => outcome' = outcome
  BY DEF Close, args, search, IInv, Phases, TypeOK, Holding
<1>2. Visited' = Visited /\ Frontier' = Frontier
  BY CloseRefines DEF GS!Found, GS!Exhausted
<1>3. outcome' # "found" => ~(succ # <<>> /\ succ[1].board = GoalBoard)
  BY DEF Close, goal_found
<1>4. outcome' # "found" => GoalBoard \notin Boards(succ)
  <2> SUFFICES ASSUME outcome' # "found", NEW j \in DOMAIN succ, succ[j].board = GoalBoard PROVE FALSE
    BY DEF Boards
  <2>1. j = 1
    BY <1>1 DEF IInv, SuccSound, GoalFirst
  <2> QED
    BY <1>3, <2>1, <1>1
<1> QED
  BY <1>1, <1>2, <1>4 DEF GoalAhead, Holding

LEMMA NextGoalAhead == IInv /\ GoalAhead /\ [Next]_vars => GoalAhead'
<1> SUFFICES ASSUME IInv, GoalAhead, [Next]_vars PROVE GoalAhead'
  OBVIOUS
<1>1. CASE MergeFront \/ MergeBack \/ MergeSmart
  <2>1. /\ Visited' = Visited /\ Frontier' = Frontier /\ outcome' = outcome
        /\ start' = start /\ succ' = succ /\ Holding /\ pc' \in {"merge", "close"}
    BY <1>1, MergeStutters DEF MergeFront, MergeBack, MergeSmart, args, Holding
  <2> QED
    BY <2>1 DEF GoalAhead, Boards
<1>2. CASE FindParent \/ PathEnds
  <2>1. UNCHANGED <<Frontier, Visited, outcome>>
    <3>1. CASE PathEnds
      BY <3>1 DEF PathEnds, args, search, IInv, Phases, Frontier, Visited, Pending, Intact, Holding
    <3> QED
      BY <1>2, <3>1, FindParentStutters
  <2>2. start' = start /\ pc' \in {"path", "done"}
    BY <1>2 DEF FindParent, PathEnds, args
  <2> QED
    BY <2>1, <2>2 DEF GoalAhead, Holding
<1>3. CASE UNCHANGED vars
  BY <1>3 DEF vars, GoalAhead, Frontier, Visited, Pending, Intact, Holding, Boards
<1> QED
  BY <1>1, <1>2, <1>3, StartGoalAhead, ExpandGoalAhead, CloseGoalAhead DEF Next, Stopped

\* No number of moves leads from the start of an exhausted search to the goal.
ExhaustedIsUnreachable == outcome = "exhausted" => \A k \in Nat : GoalBoard \notin Ball(start, k)

\* A search of main that ends without an answer (main.c:115-122) has not
\* overlooked one: no sequence of moves leads from the start to the goal.
THEOREM NoAnswerMissed == Spec => []ExhaustedIsUnreachable
<1>1. GoalAhead /\ NothingLost => ExhaustedIsUnreachable
  <2> SUFFICES ASSUME GoalAhead, NothingLost, outcome = "exhausted", NEW k \in Nat
               PROVE  GoalBoard \notin Ball(start, k)
    BY DEF ExhaustedIsUnreachable
  <2>1. Frontier = {} /\ start \in Visited /\ GoalBoard \notin Visited
    BY DEF NothingLost, GoalAhead
  <2>2. \A b \in Visited : Neighbours(b) \subseteq Visited
    BY <2>1 DEF NothingLost
  <2>3. Ball(start, k) \subseteq Visited
    BY <2>1, <2>2, BallClosed
  <2> QED
    BY <2>1, <2>3
<1> QED
  BY <1>1, IInvHolds, InitGoalAhead, NextGoalAhead, LoopLosesNothing, PTL DEF Spec

\* What main has let through passed the test.
AcceptedIsSolvable == pc # "solvable" /\ outcome # "rejected" => solvable(start)

\* On a board of even side, a search that starts within any radius of the goal,
\* or from such a board with two tiles exchanged, never ends without finding
\* the goal: the parity test (main.c:616-643) refuses all the others.
THEOREM NearStartsFindGoal ==
  ASSUME N % 2 = 0, Starts \subseteq NearBoards PROVE Spec => []SearchFindsGoal
<1>1. Init => AcceptedIsSolvable
  BY DEF Init, AcceptedIsSolvable
<1>2. IInv /\ AcceptedIsSolvable /\ [Next]_vars => AcceptedIsSolvable'
  BY DEF IInv, Phases, AcceptedIsSolvable, Next, vars, Accept, Reject, StartIsGoal, StartSearch, Expand,
         MergeFront, MergeBack, MergeSmart, Close, FindParent, PathEnds, Stopped, args
<1>3. IInv /\ AcceptedIsSolvable /\ ExhaustedIsUnreachable => SearchFindsGoal
  <2> SUFFICES ASSUME IInv, AcceptedIsSolvable, ExhaustedIsUnreachable, outcome = "exhausted" PROVE FALSE
    BY DEF SearchFindsGoal
  <2>1. start \in NearBoards /\ pc # "solvable"
    BY DEF IInv, TypeOK, Phases
  <2>2. solvable(start)
    BY <2>1 DEF AcceptedIsSolvable
  <2>3. Reachable(start, GoalBoard)
    BY <2>1, <2>2, NearLeadsToGoal
  <2> QED
    BY <2>3 DEF Reachable, ExhaustedIsUnreachable
<1> QED
  BY <1>1, <1>2, <1>3, IInvHolds, NoAnswerMissed, PTL DEF Spec

-----------------------------------------------------------------------------
(* The printed path.                                                       *)

\* The board find_path begins with.
LeafIs == /\ pc \in {"solvable", "goal"} => leaf = start
          /\ outcome = "found" => leaf = GoalBoard

PInv == PrintedPathLeadsToLeaf /\ LeafIs

LEMMA PrintedFacts ==
  ASSUME path \in Seq(Dir)
  PROVE  /\ Len(path) \in Nat /\ Len(Printed) = Len(path)
         /\ \A i \in 1 .. Len(path) : Printed[i] = path[Len(path) + 1 - i] /\ Printed[i] \in Dir
<1> DEFINE n == Len(path)
<1>1. n \in Nat /\ Printed = [k \in 1 .. n |-> path[n + 1 - k]]
  BY DEF Printed
<1>2. \A k \in 1 .. n : path[n + 1 - k] \in Dir
  <2> TAKE k \in 1 .. n
  <2>1. n + 1 - k \in 1 .. n
    BY <1>1
  <2> QED
    BY <2>1
<1> HIDE DEF n
<1>3. Printed \in [1 .. n -> Dir]
  BY <1>1, <1>2
<1>4. Len(Printed) = n
  BY <1>1, <1>3
<1> QED
  BY <1>1, <1>2, <1>4 DEF n

LEMMA FindParentPInv == IInv /\ PInv /\ FindParent => PInv'
<1> SUFFICES ASSUME IInv, PInv, FindParent PROVE PInv'
  OBVIOUS
<1> DEFINE n == Len(path)
           a == cp'.board
           q == Printed'
           p == Printed
           B == Replay(cp.board, p)
           C == Replay(a, q)
<1>1. /\ pc = "path" /\ pc' \in {"path", "done"} /\ cp.board # start /\ path' = Append(path, cp.dir)
      /\ pc' = "done" => Len(path') >= MaxPath
      /\ UNCHANGED <<start, leaf, outcome>>
      /\ outcome \in {"found", "exhausted"} /\ path \in Seq(Dir) /\ n < MaxPath /\ cp \in Node
  BY DEF FindParent, PathFull, args, IInv, Phases, TypeOK, WalkHasParent
<1>2. cp.board \in Board /\ cp.dir \in Dir
  BY <1>1 DEF Node
<1>3. a = Undo(cp.board, cp.dir) /\ CanUndo(cp.board, cp.dir)
  <2> DEFINE b  == Undo(cp.board, cp.dir)
             cl == Undone(b)
             m  == CHOOSE j \in DOMAIN cl : IsFirstMatch(cl, b, j)
  <2>1. cp' = cl[m]
    BY DEF FindParent
  <2>2. /\ CanUndo(cp.board, cp.dir)
        /\ \A i \in Intact : i \in DOMAIN cl /\ cl[i] = closed[i]
        /\ m \in Intact /\ closed[m].board = b
    BY <1>1, ParentFound
  <2> HIDE DEF b, cl, m
  <2>3. a = b
    BY <2>1, <2>2
  <2> QED
    BY <2>2, <2>3 DEF b
<1>4. CanMove(a, cp.dir) /\ MoveBlank(a, cp.dir) = cp.board
  BY <1>2, <1>3, UndoFacts
<1>5. /\ n \in Nat /\ Len(path') = n + 1 /\ path' \in Seq(Dir)
      /\ \A i \in 1 .. n : path'[i] = path[i]
      /\ path'[n + 1] = cp.dir
  BY <1>1, <1>2
<1>6. /\ Len(p) = n /\ \A i \in 1 .. n : p[i] = path[n + 1 - i] /\ p[i] \in Dir
  BY <1>1, PrintedFacts
<1>7. /\ Len(q) = n + 1 /\ \A i \in 1 .. (n + 1) : q[i] = path'[n + 1 + 1 - i]
  <2>1. q = [k \in 1 .. (n + 1) |-> path'[n + 1 + 1 - k]]
    BY <1>5 DEF Printed
  <2>2. \A k \in 1 .. (n + 1) : path'[n + 1 + 1 - k] \in Dir
    <3> TAKE k \in 1 .. (n + 1)
    <3>1. n + 1 + 1 - k \in 1 .. (n + 1)
      BY <1>5
    <3> QED
      BY <1>5, <3>1
  <2> HIDE DEF n, q
  <2>3. q \in [1 .. (n + 1) -> Dir] /\ n + 1 \in Nat
    BY <1>5, <2>1, <2>2
  <2> QED
    BY <2>1, <2>3
<1> HIDE DEF n, q, p, a
<1>8. q[1] = cp.dir /\ \A i \in 1 .. n : q[i + 1] = p[i]
  <2>1. 1 \in 1 .. (n + 1) /\ n + 1 + 1 - 1 = n + 1
    BY <1>5
  <2>2. \A i \in 1 .. n : i + 1 \in 1 .. (n + 1) /\ n + 1 + 1 - (i + 1) = n + 1 - i /\ n + 1 - i \in 1 .. n
    BY <1>5
  <2> QED
    BY <1>5, <1>6, <1>7, <2>1, <2>2
<1>9. \A i \in 0 .. n : C[i + 1] = B[i]
  <2>1. MoveBlank(a, q[1]) = cp.board
    BY <1>4, <1>8
  <2>2. Len(p) \in Nat /\ Len(q) = Len(p) + 1 /\ \A i \in 1 .. Len(p) : q[i + 1] = p[i]
    BY <1>5, <1>6, <1>7, <1>8
  <2>3. \A i \in 0 .. Len(p) : Replay(a, q)[i + 1] = Replay(MoveBlank(a, q[1]), p)[i]
    BY <2>2, ReplayShift
  <2> QED
    BY <1>6, <2>1, <2>3
<1>10. C[0] = a
  BY <1>5, <1>7, ReplayFacts
<1>11. (\A i \in 1 .. n : CanMove(B[i - 1], p[i])) /\ B[n] = leaf /\ (outcome = "found" => leaf = GoalBoard)
  BY <1>1 DEF PInv, PrintedPathLeadsToLeaf, B, n, p
<1> HIDE DEF B, C
<1>12. \A i \in 1 .. (n + 1) : CanMove(C[i - 1], q[i])
  <2> TAKE i \in 1 .. (n + 1)
  <2>1. CASE i = 1
    BY <1>4, <1>8, <1>10, <2>1
  <2>2. CASE i # 1
    <3> DEFINE j == i - 1
    <3>1. j \in 1 .. n /\ j - 1 \in 0 .. n /\ j + 1 = i /\ j - 1 + 1 = j
      BY <1>5, <2>2
    <3> HIDE DEF j
    <3>2. C[j] = B[j - 1] /\ q[j + 1] = p[j]
      BY <1>8, <1>9, <3>1
    <3>3. CanMove(C[j], q[j + 1])
      BY <1>11, <3>1, <3>2
    <3> QED
      BY <3>1, <3>3 DEF j
  <2> QED
    BY <2>1, <2>2
<1>13. C[n + 1] = leaf
  BY <1>5, <1>9, <1>11
<1>14. pc' = "done" => ~(Len(path') < MaxPath)
  BY <1>1, <1>5, MaxPathAssumption
<1>15. PrintedPathLeadsToLeaf'
  BY <1>1, <1>5, <1>11, <1>12, <1>13, <1>14 DEF PrintedPathLeadsToLeaf, C, q, a
<1>16. LeafIs'
  BY <1>1, <1>11 DEF LeafIs
<1> QED
  BY <1>15, <1>16 DEF PInv

LEMMA NextPInv == IInv /\ PInv /\ [Next]_vars => PInv'
<1> SUFFICES ASSUME IInv, PInv, [Next]_vars PROVE PInv'
  OBVIOUS
<1>1. CASE Accept \/ Reject \/ StartSearch \/ Expand \/ MergeFront \/ MergeBack \/ MergeSmart
  <2>1. /\ leaf' = leaf /\ start' = start /\ outcome' \in {"searching", "rejected"}
        /\ pc' \in {"solvable", "goal"} => pc \in {"solvable", "goal"}
    BY <1>1 DEF Accept, Reject, StartSearch, Expand, MergeFront, MergeBack, MergeSmart, args,
                IInv, Phases
  <2> QED
    BY <2>1 DEF PInv, LeafIs, PrintedPathLeadsToLeaf
<1>2. CASE StartIsGoal
  <2>1. /\ path' = <<>> /\ cp'.board = start' /\ start' = GoalBoard /\ leaf' = start'
        /\ pc' = "done"
    BY <1>2 DEF StartIsGoal, StartNode, goal_found, args, IInv, Phases, PInv, LeafIs
  <2>2. PrintedPathLeadsToLeaf'
    <3>1. Replay(cp'.board, Printed')[0] = cp'.board
      <4> DEFINE z == path'
                 y == Printed'
                 c == cp'.board
      <4>1. y = [k \in 1 .. Len(z) |-> z[Len(z) + 1 - k]]
        BY DEF Printed
      <4>2. z = <<>>
        BY <2>1
      <4> HIDE DEF z, y, c
      <4>3. Len(y) = 0
        BY <4>1, <4>2
      <4>4. Replay(c, y)[0] = c
        BY <4>3, ReplayFacts
      <4> QED
        BY <4>4 DEF y, c
    <3> QED
      BY <2>1, <3>1 DEF PrintedPathLeadsToLeaf
  <2> QED
    BY <2>1, <2>2 DEF PInv, LeafIs
<1>3. CASE Close
  <2>1. CASE pc' = "loop"
    BY <1>3, <2>1 DEF Close, IInv, Phases, PInv, LeafIs, PrintedPathLeadsToLeaf
  <2>2. CASE pc' = "path"
    <3>1. /\ path' = <<>> /\ pc = "close" /\ cp'.board = leaf'
          /\ outcome' = "found" => leaf' = GoalBoard
      BY <1>3, <2>2 DEF Close, goal_found, IInv, Phases
    <3>2. PrintedPathLeadsToLeaf'
      <4>1. Replay(cp'.board, Printed')[0] = cp'.board
        <5> DEFINE z == path'
                   y == Printed'
                   c == cp'.board
        <5>1. y = [k \in 1 .. Len(z) |-> z[Len(z) + 1 - k]]
          BY DEF Printed
        <5>2. z = <<>>
          BY <3>1
        <5> HIDE DEF z, y, c
        <5>3. Len(y) = 0
          BY <5>1, <5>2
        <5>4. Replay(c, y)[0] = c
          BY <5>3, ReplayFacts
        <5> QED
          BY <5>4 DEF y, c
      <4> QED
        BY <2>2, <3>1, <4>1 DEF PrintedPathLeadsToLeaf
    <3> QED
      BY <2>2, <3>1, <3>2 DEF PInv, LeafIs
  <2> QED
    BY <1>3, <2>1, <2>2 DEF Close
<1>4. CASE PathEnds
  <2>1. /\ pc = "path" /\ pc' = "done" /\ cp.board = start /\ UNCHANGED <<start, cp, leaf, path, outcome>>
        /\ outcome \in {"found", "exhausted"}
    BY <1>4 DEF PathEnds, args, IInv, Phases
  <2> QED
    BY <2>1 DEF PInv, LeafIs, PrintedPathLeadsToLeaf, Printed
<1>5. CASE UNCHANGED vars
  BY <1>5 DEF vars, PInv, LeafIs, PrintedPathLeadsToLeaf, Printed
<1> QED
  BY <1>1, <1>2, <1>3, <1>4, <1>5, FindParentPInv DEF Next, Stopped

LEMMA PInvHolds == Spec => []PInv
<1>1. Init => PInv
  BY DEF Init, PInv, LeafIs, PrintedPathLeadsToLeaf
<1> QED
  BY <1>1, IInvHolds, NextPInv, PTL DEF Spec

\* The moves that print_path writes (main.c:180-194) are legal one after the
\* other and lead from the start, or where the array path was full from the
\* node the walk had come to, to the goal that was found.
THEOREM PathLeadsToLeaf == Spec => []PrintedPathLeadsToLeaf
<1>1. PInv => PrintedPathLeadsToLeaf
  BY DEF PInv
<1> QED
  BY <1>1, PInvHolds, PTL

-----------------------------------------------------------------------------
(* Breadth first search.                                                    *)

\* The parent of the node n is one move nearer to the start s.
Known(s, n) ==
  /\ Reachable(s, n.board)
  /\ \/ n.board = s
     \/ /\ Reachable(s, Undo(n.board, n.dir))
        /\ Dist(s, n.board) = Dist(s, Undo(n.board, n.dir)) + 1

AllKnown(s, l) == \A i \in DOMAIN l : Known(s, l[i])

\* The boards of l get no nearer to s.
InOrder(s, l) ==
  \A i, j \in DOMAIN l : i < j => Dist(s, l[i].board) <= Dist(s, l[j].board)

\* The boards of l are k or k + 1 moves from s.
TwoLevels(s, l, k) ==
  \A i \in DOMAIN l : k <= Dist(s, l[i].board) /\ Dist(s, l[i].board) <= k + 1

\* open is a queue of boards of two successive distances.
QInv ==
  strategy = "bfs" =>
    /\ Looping => AllKnown(start, open) /\ AllKnown(start, closed) /\ InOrder(start, open)
    /\ pc = "loop" => TwoLevels(start, open, Dist(start, open[1].board))
    /\ Holding => /\ Known(start, cp) /\ AllKnown(start, succ)
                  /\ TwoLevels(start, open, Dist(start, cp.board))
                  /\ \A i \in DOMAIN succ : Dist(start, succ[i].board) = Dist(start, cp.board) + 1

LEMMA KnownDist == ASSUME NEW s, NEW n, Known(s, n) PROVE Dist(s, n.board) \in Nat
BY DistIsLeast DEF Known

\* The boards nearer to the start than the head of open have been visited.
LEMMA NearerVisited ==
  ASSUME IInv, QInv, GoalAhead, NothingLost, strategy = "bfs", pc = "loop",
         NEW y, Reachable(start, y), Dist(start, y) < Dist(start, open[1].board)
  PROVE  y \in Visited
<1> DEFINE k == Dist(start, open[1].board)
           S == {m \in Nat : \A z : Reachable(start, z) /\ Dist(start, z) = m /\ m < k => z \in Visited}
<1>1. /\ open # <<>> /\ open \in Seq(Node) /\ todo = {} /\ outcome = "searching"
      /\ AllKnown(start, open) /\ TwoLevels(start, open, k)
  BY DEF IInv, Phases, TypeOK, QInv, Looping
<1>2. 1 \in DOMAIN open
  BY <1>1
<1>3. k \in Nat
  BY <1>1, <1>2, KnownDist DEF AllKnown
<1> HIDE DEF k
<1>4. ASSUME NEW z \in Visited \cup Frontier, Reachable(start, z), Dist(start, z) < k
      PROVE  z \in Visited
  <2>1. SUFFICES ASSUME z \in Frontier PROVE FALSE
    BY <1>4
  <2>2. Frontier = Boards(open)
    BY <1>1 DEF Frontier, Pending
  <2>3. PICK i \in DOMAIN open : open[i].board = z
    BY <2>1, <2>2 DEF Boards
  <2>4. k <= Dist(start, z)
    BY <1>1, <2>3 DEF TwoLevels
  <2>5. Dist(start, z) \in Nat
    BY <1>4, DistIsLeast
  <2> QED
    BY <1>3, <1>4, <2>4, <2>5
<1>5. 0 \in S
  <2> SUFFICES ASSUME NEW z, Reachable(start, z), Dist(start, z) = 0, 0 < k PROVE z \in Visited
    OBVIOUS
  <2>1. z = start
    BY DistZero
  <2>2. z \in Visited \cup Frontier
    BY <2>1 DEF GoalAhead
  <2> QED
    BY <1>4, <2>2
<1>6. ASSUME NEW m \in Nat, m \in S PROVE m + 1 \in S
  <2> SUFFICES ASSUME NEW z, Reachable(start, z), Dist(start, z) = m + 1, m + 1 < k PROVE z \in Visited
    OBVIOUS
  <2>1. z # start
    BY DistStart
  <2>2. PICK x : Reachable(start, x) /\ Dist(start, z) = Dist(start, x) + 1 /\ z \in Neighbours(x)
    BY <2>1, DistBefore
  <2>3. Dist(start, x) \in Nat
    BY <2>2, DistIsLeast
  <2>4. Dist(start, x) = m /\ m < k
    BY <1>3, <2>2, <2>3
  <2>5. x \in Visited
    BY <1>6, <2>2, <2>4
  <2>6. z \in Visited \cup Frontier
    BY <2>2, <2>5 DEF NothingLost
  <2> QED
    BY <1>4, <2>6
<1> HIDE DEF S
<1>7. Nat \subseteq S
  BY <1>5, <1>6, Induction
<1>8. Dist(start, y) \in S
  BY <1>7, DistIsLeast
<1> QED
  BY <1>8 DEF S, k

\* A board met for the first time is one move farther than the one expanded.
LEMMA NewIsFarther ==
  ASSUME IInv, QInv, GoalAhead, NothingLost, strategy = "bfs", pc = "loop",
         NEW x \in Neighbours(open[1].board), x \notin Visited \cup Frontier
  PROVE  Reachable(start, x) /\ Dist(start, x) = Dist(start, open[1].board) + 1
<1> DEFINE v == open[1].board
<1>1. open # <<>> /\ open \in Seq(Node) /\ AllKnown(start, open)
  BY DEF IInv, Phases, TypeOK, QInv, Looping
<1>2. 1 \in DOMAIN open
  BY <1>1
<1>3. Reachable(start, v) /\ Dist(start, v) \in Nat
  BY <1>1, <1>2, KnownDist DEF AllKnown, Known
<1>4. Reachable(start, x) /\ Dist(start, x) <= Dist(start, v) + 1
  BY <1>3, DistNext
<1>5. Dist(start, x) \in Nat
  BY <1>4, DistIsLeast
<1>6. ~(Dist(start, x) < Dist(start, v))
  BY <1>4, NearerVisited
<1>7. Dist(start, x) # Dist(start, v)
  <2>1. SUFFICES ASSUME Dist(start, x) = Dist(start, v) PROVE FALSE
    OBVIOUS
  <2>2. x # start
    BY DEF GoalAhead
  <2>3. PICK z : Reachable(start, z) /\ Dist(start, x) = Dist(start, z) + 1 /\ x \in Neighbours(z)
    BY <1>4, <2>2, DistBefore
  <2>4. Dist(start, z) \in Nat
    BY <2>3, DistIsLeast
  <2>5. Dist(start, z) < Dist(start, v)
    BY <1>5, <2>1, <2>3, <2>4
  <2>6. z \in Visited
    BY <2>3, <2>5, NearerVisited
  <2> QED
    BY <2>3, <2>6 DEF NothingLost
<1> HIDE DEF v
<1>8. Dist(start, x) = Dist(start, v) + 1
  BY <1>3, <1>4, <1>5, <1>6, <1>7
<1> QED
  BY <1>4, <1>8 DEF v

LEMMA StartQInv ==
  IInv /\ (Accept \/ Reject \/ StartIsGoal \/ StartSearch) => QInv'
<1> SUFFICES ASSUME IInv, Accept \/ Reject \/ StartIsGoal \/ StartSearch PROVE QInv'
  OBVIOUS
<1>1. CASE StartSearch
  <2> DEFINE n == StartNode(start)
  <2>1. /\ pc' = "loop" /\ start' = start /\ open' = <<n>> /\ closed' = <<>>
        /\ n.board = start
    BY <1>1 DEF StartSearch, search, args, IInv, Phases, StartNode
  <2> HIDE DEF n
  <2>2. Reachable(start, start) /\ Dist(start, start) = 0
    BY DistStart
  <2>3. Known(start, n)
    BY <2>1, <2>2 DEF Known
  <2>4. DOMAIN <<n>> = {1} /\ <<n>>[1] = n /\ DOMAIN <<>> = {}
    OBVIOUS
  <2>5. AllKnown(start, <<n>>) /\ AllKnown(start, <<>>) /\ InOrder(start, <<n>>)
    BY <2>3, <2>4 DEF AllKnown, InOrder
  <2>6. TwoLevels(start, <<n>>, 0)
    BY <2>1, <2>2, <2>4 DEF TwoLevels
  <2>7. Dist(start, open'[1].board) = 0
    BY <2>1, <2>2, <2>4
  <2> QED
    BY <2>1, <2>5, <2>6, <2>7 DEF QInv, Looping, Holding
<1>2. CASE Accept \/ Reject \/ StartIsGoal
  BY <1>2 DEF Accept, Reject, StartIsGoal, QInv, Looping, Holding
<1> QED
  BY <1>1, <1>2

LEMMA ExpandQInv == IInv /\ QInv /\ GoalAhead /\ NothingLost /\ Expand => QInv'
<1> SUFFICES ASSUME IInv, QInv, GoalAhead, NothingLost, Expand, strategy = "bfs" PROVE QInv'
  BY DEF QInv, Expand, args
<1> DEFINE n == Head(open)
           o == Tail(open)
           s == NewSuccessors(n, o, closed)
           k == Dist(start, n.board)
<1>1. /\ pc = "loop" /\ open # <<>> /\ closed \in Seq(Node) /\ open \in Seq(Node)
      /\ outcome = "searching" /\ todo = {}
      /\ AllKnown(start, open) /\ AllKnown(start, closed) /\ InOrder(start, open)
      /\ TwoLevels(start, open, Dist(start, open[1].board))
  BY DEF IInv, Phases, TypeOK, Expand, QInv, Looping
<1>2. /\ cp' = n /\ open' = o /\ succ' = s /\ pc' \in {"close", "merge"}
      /\ closed' = closed /\ strategy' = strategy /\ start' = start
  BY DEF Expand, args, NewSuccessors
<1>3. /\ n \in Node /\ o \in Seq(Node)
      /\ Boards(open) = {n.board} \cup Boards(o)
  BY <1>1, BoardsHeadTail
<1>4. /\ s \in Seq(Node)
      /\ \A i \in DOMAIN s : IsMoveOf(s[i], n)
      /\ Boards(s) = Neighbours(n.board) \ (Boards(o) \cup Boards(closed))
      /\ n.board \notin Boards(s)
      /\ Distinct(s)
      /\ GoalFirst(s)
  BY <1>1, <1>3, NewSuccessorsFacts, Zenon
<1>5. 1 \in DOMAIN open /\ n = open[1] /\ \A i \in DOMAIN o : i + 1 \in DOMAIN open /\ o[i] = open[i + 1]
  BY <1>1
<1>6. DOMAIN o \subseteq Nat
  BY <1>3
<1>7. \A i \in DOMAIN s : IsParent(strategy, s[i], n)
  BY <1>3, <1>4, MoveType DEF IsMoveOf
<1> HIDE DEF n, o, s
<1>8. Known(start, n) /\ k \in Nat
  BY <1>1, <1>5, KnownDist DEF AllKnown
<1>9. AllKnown(start, o) /\ TwoLevels(start, o, k)
  BY <1>1, <1>5 DEF AllKnown, TwoLevels
<1>10. InOrder(start, o)
  <2> SUFFICES ASSUME NEW i \in DOMAIN o, NEW j \in DOMAIN o, i < j
               PROVE  Dist(start, o[i].board) <= Dist(start, o[j].board)
    BY DEF InOrder
  <2>1. i + 1 < j + 1 /\ i + 1 \in DOMAIN open /\ j + 1 \in DOMAIN open
    BY <1>5, <1>6
  <2> QED
    BY <1>1, <1>5, <2>1 DEF InOrder
<1>11. ASSUME NEW i \in DOMAIN s
       PROVE  Known(start, s[i]) /\ Dist(start, s[i].board) = k + 1
  <2>1. s[i].board \in Boards(s)
    BY DEF Boards
  <2>2. Visited = Boards(closed) /\ Frontier = Boards(open)
    BY <1>1 DEF Visited, Frontier, Pending, Holding
  <2>3. s[i].board \in Neighbours(open[1].board) /\ s[i].board \notin Visited \cup Frontier
    BY <1>3, <1>4, <1>5, <2>1, <2>2
  <2>4. Reachable(start, s[i].board) /\ Dist(start, s[i].board) = Dist(start, open[1].board) + 1
    BY <1>1, <2>3, NewIsFarther
  <2>5. Undo(s[i].board, s[i].dir) = n.board
    BY <1>7 DEF IsParent
  <2> QED
    BY <1>5, <1>8, <2>4, <2>5 DEF Known
<1>12. AllKnown(start, s)
  BY <1>11 DEF AllKnown
<1> QED
  BY <1>1, <1>2, <1>8, <1>9, <1>10, <1>11, <1>12 DEF QInv, Looping, Holding

LEMMA MergeBackQInv == IInv /\ QInv /\ MergeBack => QInv'
<1> SUFFICES ASSUME IInv, QInv, MergeBack PROVE QInv'
  OBVIOUS
<1> DEFINE k == Dist(start, cp.board)
           o == open \o succ
<1>1. /\ open \in Seq(Node) /\ succ \in Seq(Node)
      /\ AllKnown(start, open) /\ AllKnown(start, closed) /\ InOrder(start, open)
      /\ Known(start, cp) /\ AllKnown(start, succ) /\ TwoLevels(start, open, k)
      /\ \A i \in DOMAIN succ : Dist(start, succ[i].board) = k + 1
  BY DEF IInv, TypeOK, QInv, MergeBack, Looping, Holding
<1>2. /\ open' = o /\ pc' = "close"
      /\ closed' = closed /\ cp' = cp /\ succ' = succ /\ start' = start
  BY DEF MergeBack, append, args
<1>3. k \in Nat
  BY <1>1, KnownDist
<1> HIDE DEF k
<1>4. /\ Len(open) \in Nat /\ Len(succ) \in Nat
      /\ DOMAIN open = 1 .. Len(open) /\ DOMAIN succ = 1 .. Len(succ)
      /\ DOMAIN o = 1 .. (Len(open) + Len(succ))
      /\ \A i \in 1 .. Len(open) : o[i] = open[i]
      /\ \A i \in 1 .. (Len(open) + Len(succ)) :
            i > Len(open) => i - Len(open) \in 1 .. Len(succ) /\ o[i] = succ[i - Len(open)]
  BY <1>1
<1> HIDE DEF o
<1>5. ASSUME NEW i \in DOMAIN o
      PROVE  /\ Known(start, o[i]) /\ k <= Dist(start, o[i].board) /\ Dist(start, o[i].board) <= k + 1
             /\ i > Len(open) => Dist(start, o[i].board) = k + 1
  <2>1. CASE i \in 1 .. Len(open)
    BY <1>1, <1>4, <2>1 DEF AllKnown, TwoLevels
  <2>2. CASE i > Len(open)
    <3>1. i - Len(open) \in DOMAIN succ /\ o[i] = succ[i - Len(open)]
      BY <1>4, <2>2
    <3>2. Known(start, o[i]) /\ Dist(start, o[i].board) = k + 1
      BY <1>1, <3>1 DEF AllKnown
    <3> QED
      BY <1>3, <3>2
  <2> QED
    BY <1>4, <2>1, <2>2
<1>6. InOrder(start, o)
  <2> SUFFICES ASSUME NEW i \in DOMAIN o, NEW j \in DOMAIN o, i < j
               PROVE  Dist(start, o[i].board) <= Dist(start, o[j].board)
    BY DEF InOrder
  <2>1. CASE j > Len(open)
    BY <1>5, <2>1
  <2>2. CASE ~(j > Len(open))
    <3>1. i \in DOMAIN open /\ j \in DOMAIN open /\ o[i] = open[i] /\ o[j] = open[j]
      BY <1>4, <2>2
    <3> QED
      BY <1>1, <3>1 DEF InOrder
  <2> QED
    BY <2>1, <2>2
<1>7. AllKnown(start, o) /\ TwoLevels(start, o, k)
  BY <1>5 DEF AllKnown, TwoLevels
<1> QED
  BY <1>1, <1>2, <1>6, <1>7 DEF QInv, Looping, Holding, k

LEMMA CloseQInv == IInv /\ QInv /\ Close => QInv'
<1> SUFFICES ASSUME IInv, QInv, Close, strategy = "bfs", pc' = "loop" PROVE QInv'
  BY DEF QInv, Close, Looping, Holding, args
<1> DEFINE k == Dist(start, cp.board)
<1>1. /\ open \in Seq(Node) /\ closed \in Seq(Node) /\ cp \in Node
      /\ AllKnown(start, open) /\ AllKnown(start, closed) /\ InOrder(start, open)
      /\ Known(start, cp) /\ TwoLevels(start, open, k)
  BY DEF IInv, TypeOK, HandHasParent, QInv, Close, Looping, Holding
<1>2. /\ open' = open /\ closed' = Append(closed, cp) /\ start' = start /\ open # <<>>
  BY DEF Close, search, args
<1>3. k \in Nat /\ 1 \in DOMAIN open
  BY <1>1, <1>2, KnownDist
<1> HIDE DEF k
<1>4. AllKnown(start, Append(closed, cp))
  <2>1. /\ DOMAIN Append(closed, cp) = DOMAIN closed \cup {Len(closed) + 1}
        /\ \A i \in DOMAIN closed : Append(closed, cp)[i] = closed[i]
        /\ Append(closed, cp)[Len(closed) + 1] = cp
    BY <1>1
  <2> QED
    BY <1>1, <2>1 DEF AllKnown
<1>5. TwoLevels(start, open, Dist(start, open[1].board))
  <2> SUFFICES ASSUME NEW i \in DOMAIN open
               PROVE  /\ Dist(start, open[1].board) <= Dist(start, open[i].board)
                      /\ Dist(start, open[i].board) <= Dist(start, open[1].board) + 1
    BY DEF TwoLevels
  <2>1. Dist(start, open[1].board) \in Nat /\ Dist(start, open[i].board) \in Nat
    BY <1>1, <1>3, KnownDist DEF AllKnown
  <2>2. k <= Dist(start, open[1].board) /\ Dist(start, open[i].board) <= k + 1
    BY <1>1, <1>3 DEF TwoLevels
  <2>3. i = 1 \/ 1 < i
    BY <1>1
  <2>4. Dist(start, open[1].board) <= Dist(start, open[i].board)
    BY <1>1, <1>3, <2>1, <2>3 DEF InOrder
  <2> QED
    BY <1>3, <2>1, <2>2, <2>4
<1> QED
  BY <1>1, <1>2, <1>4, <1>5 DEF QInv, Looping, Holding

LEMMA NextQInv == IInv /\ QInv /\ GoalAhead /\ NothingLost /\ [Next]_vars => QInv'
<1> SUFFICES ASSUME IInv, QInv, GoalAhead, NothingLost, [Next]_vars PROVE QInv'
  OBVIOUS
<1>1. CASE MergeFront \/ MergeSmart
  BY <1>1 DEF MergeFront, MergeSmart, args, QInv
<1>2. CASE FindParent \/ PathEnds
  BY <1>2 DEF FindParent, PathEnds, QInv, Looping, Holding
<1>3. CASE UNCHANGED vars
  BY <1>3 DEF vars, QInv, Looping, Holding
<1> QED
  BY <1>1, <1>2, <1>3, StartQInv, ExpandQInv, MergeBackQInv, CloseQInv DEF Next, Stopped

-----------------------------------------------------------------------------
(* The walk back of a breadth first search.                                *)

\* Each step of the walk is one move nearer to the start.
WInv ==
  strategy = "bfs" =>
    /\ outcome \in {"searching", "rejected"} => path = <<>>
    /\ pc \in {"path", "done"} /\ outcome \in {"found", "exhausted"} =>
         /\ Known(start, cp) /\ \A i \in Intact : Known(start, closed[i])
         /\ Reachable(start, leaf) /\ Dist(start, leaf) = Dist(start, cp.board) + Len(path)

LEMMA CloseWInv == IInv /\ QInv /\ WInv /\ Close => WInv'
<1> SUFFICES ASSUME IInv, QInv, WInv, Close, strategy = "bfs" PROVE WInv'
  BY DEF WInv, Close, args
<1>1. /\ strategy' = strategy /\ start' = start /\ path' = path /\ path = <<>>
      /\ closed' = Append(closed, cp) /\ closed \in Seq(Node) /\ cp \in Node /\ succ \in Seq(Node)
      /\ AllKnown(start, closed) /\ AllKnown(start, succ) /\ Known(start, cp)
      /\ pc' \in {"loop", "path"} /\ outcome = "searching"
      /\ \A i \in DOMAIN succ : succ[i].board \in Boards(open)
  <2>1. Holding /\ Looping /\ todo = {}
    BY DEF Close, IInv, Phases, Holding, Looping
  <2> QED
    BY <2>1 DEF Close, args, IInv, TypeOK, Phases, HandHasParent, SuccSound, QInv
<1>2. CASE pc' = "loop"
  BY <1>1, <1>2 DEF WInv
<1>3. CASE pc' = "path"
  <2>1. Known(start, cp') /\ leaf' = cp'.board
    <3>1. CASE succ # <<>> /\ goal_found(succ[1])
      <4>1. 1 \in DOMAIN succ
        BY <1>1, <3>1
      <4> QED
        BY <1>1, <3>1, <4>1 DEF Close, goal_found, AllKnown
    <3>2. CASE ~(succ # <<>> /\ goal_found(succ[1]))
      <4>1. open = <<>>
        BY <1>3, <3>2 DEF Close
      <4>2. Boards(open) = {}
        BY <4>1 DEF Boards
      <4>3. DOMAIN succ = {}
        BY <1>1, <4>2
      <4>4. succ = <<>>
        BY <1>1, <4>3
      <4> QED
        BY <1>1, <3>2, <4>1, <4>4 DEF Close
    <3> QED
      BY <3>1, <3>2
  <2>2. \A i \in Intact' : Known(start, closed'[i])
    <3>1. /\ DOMAIN closed' = DOMAIN closed \cup {Len(closed) + 1}
          /\ \A i \in DOMAIN closed : closed'[i] = closed[i]
          /\ closed'[Len(closed) + 1] = cp
          /\ Len(closed') = Len(closed) + 1 /\ Len(closed) \in Nat
      BY <1>1
    <3>2. Intact' \subseteq DOMAIN closed'
      <4>1. DOMAIN closed' = 1 .. Len(closed')
        BY <1>1
      <4> QED
        BY <3>1, <4>1 DEF Intact
    <3> QED
      BY <1>1, <3>1, <3>2 DEF AllKnown
  <2>3. Dist(start, cp'.board) \in Nat /\ Reachable(start, cp'.board)
    BY <2>1, KnownDist DEF Known
  <2>4. Len(path') = 0
    BY <1>1
  <2>5. Dist(start, leaf') = Dist(start, cp'.board) + Len(path')
    BY <2>1, <2>3, <2>4
  <2>6. outcome' \in {"searching", "rejected"} => path' = <<>>
    BY <1>1
  <2> QED
    BY <1>1, <2>1, <2>2, <2>3, <2>5, <2>6 DEF WInv
<1> QED
  BY <1>1, <1>2, <1>3

LEMMA FindParentWInv == IInv /\ WInv /\ FindParent => WInv'
<1> SUFFICES ASSUME IInv, WInv, FindParent, strategy = "bfs" PROVE WInv'
  BY DEF WInv, FindParent, args
<1> DEFINE b  == Undo(cp.board, cp.dir)
           cl == Undone(b)
           m  == CHOOSE j \in DOMAIN cl : IsFirstMatch(cl, b, j)
<1>1. /\ pc = "path" /\ cp.board # start
      /\ cp' = cl[m]
      /\ closed' = IF outcome = "exhausted" THEN [cl EXCEPT ![Len(cl)] = cp'] ELSE cl
      /\ path' = Append(path, cp.dir)
      /\ start' = start /\ leaf' = leaf /\ outcome' = outcome /\ strategy' = strategy
      /\ outcome \in {"found", "exhausted"} /\ path \in Seq(Dir) /\ cp \in Node
      /\ closed \in Seq(Node)
  BY DEF FindParent, args, IInv, TypeOK, Phases, WalkHasParent
<1>2. /\ cl \in Seq(Node) /\ Len(cl) = Len(closed)
      /\ \A i \in Intact : i \in DOMAIN cl /\ cl[i] = closed[i]
      /\ m \in Intact /\ closed[m].board = b
  BY <1>1, ParentFound
<1>3. /\ Known(start, cp) /\ \A i \in Intact : Known(start, closed[i])
      /\ Reachable(start, leaf) /\ Dist(start, leaf) = Dist(start, cp.board) + Len(path)
  BY <1>1 DEF WInv
<1>4. Reachable(start, b) /\ Dist(start, cp.board) = Dist(start, b) + 1
  BY <1>1, <1>3 DEF Known
<1> HIDE DEF b, cl, m
<1>5. cp' = closed[m] /\ cp'.board = b
  BY <1>1, <1>2
<1>6. Intact' = Intact /\ \A i \in Intact : closed'[i] = closed[i]
  <2>1. CASE outcome = "exhausted"
    <3>1. closed' = [cl EXCEPT ![Len(cl)] = cp']
      BY <1>1, <2>1
    <3>2. Len(closed') = Len(closed) /\ Intact = 1 .. (Len(closed) - 1) /\ Len(closed) \in Nat
      BY <1>1, <1>2, <2>1, <3>1 DEF Intact
    <3>3. Intact' = Intact
      BY <1>1, <2>1, <3>2 DEF Intact
    <3>4. \A i \in Intact : i # Len(cl)
      BY <1>2, <3>2
    <3> QED
      BY <1>2, <3>1, <3>3, <3>4
  <2>2. CASE outcome = "found"
    <3>1. closed' = cl /\ Intact = DOMAIN closed /\ Intact' = DOMAIN closed'
      BY <1>1, <2>2 DEF Intact
    <3>2. DOMAIN closed' = DOMAIN closed
      BY <1>1, <1>2, <3>1
    <3> QED
      BY <1>2, <3>1, <3>2
  <2> QED
    BY <1>1, <2>1, <2>2
<1>7. Known(start, cp') /\ \A i \in Intact' : Known(start, closed'[i])
  BY <1>2, <1>3, <1>5, <1>6
<1>8. Dist(start, b) \in Nat /\ Len(path) \in Nat /\ Len(path') = Len(path) + 1
  BY <1>1, <1>4, DistIsLeast
<1>9. Dist(start, leaf') = Dist(start, cp'.board) + Len(path')
  BY <1>1, <1>3, <1>4, <1>5, <1>8
<1> QED
  BY <1>1, <1>3, <1>7, <1>9 DEF WInv

LEMMA NextWInv == IInv /\ PInv /\ QInv /\ WInv /\ [Next]_vars => WInv'
<1> SUFFICES ASSUME IInv, PInv, QInv, WInv, [Next]_vars PROVE WInv'
  OBVIOUS
<1>1. CASE \/ Accept \/ Reject \/ StartSearch
           \/ Expand \/ MergeFront \/ MergeBack \/ MergeSmart
  <2>1. strategy' = strategy /\ path' = path /\ path = <<>> /\ outcome' \in {"searching", "rejected"}
    BY <1>1 DEF Accept, Reject, StartSearch, Expand, MergeFront, MergeBack, MergeSmart, args,
                IInv, Phases
  <2> QED
    BY <2>1 DEF WInv
<1>2. CASE StartIsGoal
  <2>1. /\ start' = start /\ cp'.board = start /\ closed' = <<>> /\ path' = <<>> /\ outcome' = "found"
        /\ strategy' = strategy /\ leaf' = start
    <3>1. leaf = start
      BY <1>2 DEF StartIsGoal, PInv, LeafIs
    <3> QED
      BY <1>2, <3>1 DEF StartIsGoal, StartNode, goal_found, args, IInv, Phases
  <2>2. Reachable(start, start) /\ Dist(start, start) = 0
    BY DistStart
  <2>3. Len(path') = 0 /\ DOMAIN closed' = {}
    BY <2>1
  <2>4. Intact' = {}
    BY <2>1, <2>3 DEF Intact
  <2>5. Known(start, cp')
    BY <2>1, <2>2 DEF Known
  <2>6. Dist(start, leaf') = Dist(start, cp'.board) + Len(path')
    BY <2>1, <2>2, <2>3
  <2>7. Reachable(start, leaf')
    BY <2>1, <2>2
  <2> QED
    BY <2>1, <2>4, <2>5, <2>6, <2>7 DEF WInv
<1>3. CASE PathEnds
  BY <1>3 DEF PathEnds, args, WInv, Intact
<1>4. CASE UNCHANGED vars
  BY <1>4 DEF vars, WInv, Intact
<1> QED
  BY <1>1, <1>2, <1>3, <1>4, CloseWInv, FindParentWInv DEF Next, Stopped

\* Under bfs the path that is printed is a shortest one: append (main.c:430)
\* keeps open a queue, so boards are visited by distance from the start, and
\* find_path goes back one distance at a time.
THEOREM BfsIsShortest == Spec => []BfsPathIsShortest
<1>1. Init => QInv /\ WInv
  BY DEF Init, QInv, WInv, Looping, Holding
<1>2. IInv /\ WInv => BfsPathIsShortest
  <2> SUFFICES ASSUME IInv, WInv, pc = "done", strategy = "bfs", path # <<>>,
                      leaf \in Ball(cp.board, Len(path) - 1)
               PROVE  FALSE
    BY DEF BfsPathIsShortest
  <2>1. outcome \in {"found", "exhausted"} /\ path \in Seq(Dir)
    BY DEF IInv, TypeOK, WInv
  <2>2. Len(path) \in Nat /\ Len(path) - 1 \in Nat
    BY <2>1
  <2>3. Known(start, cp) /\ Dist(start, leaf) = Dist(start, cp.board) + Len(path)
    BY <2>1 DEF WInv
  <2>4. Reachable(start, cp.board) /\ Dist(start, cp.board) \in Nat
    BY <2>3, KnownDist DEF Known
  <2>5. Dist(start, leaf) <= Dist(start, cp.board) + (Len(path) - 1)
    BY <2>2, <2>4, DistAdds
  <2> QED
    BY <2>2, <2>3, <2>4, <2>5
<1> QED
  BY <1>1, <1>2, IInvHolds, PInvHolds, InitGoalAhead, NextGoalAhead, LoopLosesNothing, NextQInv, NextWInv, PTL DEF Spec
=============================================================================
