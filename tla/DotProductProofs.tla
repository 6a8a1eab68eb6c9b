--------------------------- MODULE DotProductProofs ---------------------------
(***************************************************************************)
(* The dot product program gives the same sum for every number of          *)
(* processes, every length, every choice of buffering and every schedule.  *)
(***************************************************************************)
EXTENDS DotProduct, SequenceTheorems, TLAPS

-----------------------------------------------------------------------------
(* Arithmetic of the slices.                                               *)

LEMMA RankFacts ==
  /\ MASTER \in Rank /\ MASTER \notin Workers
  /\ Rank = Workers \cup {MASTER}
  /\ Workers \subseteq Rank /\ Rank \subseteq Nat
BY NProcsAssumption DEF Rank, Workers, MASTER

LEMMA DivisionIsNat ==
  ASSUME NEW a \in Nat, NEW b \in Nat, b >= 1
  PROVE  a \div b \in Nat
BY SMT

LEMMA ProductIsNat ==
  ASSUME NEW a \in Nat, NEW b \in Nat
  PROVE  a * b \in Nat
BY SMT

\* The product of the own slices of a rank.
LEMMA OwnProducts ==
  ASSUME NEW r \in Nat, size \in Nat
  PROVE  Products(<<"x", r>>, <<"y", r>>) = PS!Slice(r, size)
<1> DEFINE b == r * size
<1>1. b \in Nat
  BY ProductIsNat
<1>2. Products(<<"x", r>>, <<"y", r>>) = {PS!Product(b + k) : k \in 0 .. (size - 1)}
  BY DEF Products, PS!Product
<1>3. PS!Slice(r, size) = {PS!Product(j) : j \in b .. (b + size - 1)}
  BY DEF PS!Slice
<1> HIDE DEF b
<1>4. \A j \in b .. (b + size - 1) : j - b \in 0 .. (size - 1) /\ b + (j - b) = j
  BY <1>1
<1>5. \A k \in 0 .. (size - 1) : b + k \in b .. (b + size - 1)
  BY <1>1
<1> QED
  BY <1>2, <1>3, <1>4, <1>5

\* The products of the first m slices.
First(m) == {PS!Product(j) : j \in 0 .. (m * size - 1)}

LEMMA FirstOne ==
  ASSUME size \in Nat
  PROVE  First(1) = PS!Slice(0, size)
<1>1. 1 * size = size /\ 0 * size = 0
  OBVIOUS
<1> QED
  BY <1>1 DEF First, PS!Slice

LEMMA FirstNext ==
  ASSUME NEW m \in Nat, size \in Nat
  PROVE  /\ First(m) \cup PS!Slice(m, size) = First(m + 1)
         /\ First(m) \cap PS!Slice(m, size) = {}
<1> DEFINE b == m * size
<1>1. b \in Nat /\ (m + 1) * size = b + size
  BY ProductIsNat
<1>2. First(m + 1) = {PS!Product(j) : j \in 0 .. (b + size - 1)}
  BY <1>1 DEF First
<1>3. First(m) = {PS!Product(j) : j \in 0 .. (b - 1)}
  BY DEF First
<1>4. PS!Slice(m, size) = {PS!Product(j) : j \in b .. (b + size - 1)}
  BY DEF PS!Slice
<1>5. 0 .. (b + size - 1) = (0 .. (b - 1)) \cup (b .. (b + size - 1))
  BY <1>1
<1>6. \A j, k \in Nat : PS!Product(j) = PS!Product(k) => j = k
  BY DEF PS!Product
<1> HIDE DEF b
<1>7. First(m) \cup PS!Slice(m, size) = First(m + 1)
  BY <1>2, <1>3, <1>4, <1>5
<1>8. ASSUME NEW j \in 0 .. (b - 1), NEW k \in b .. (b + size - 1)
      PROVE  PS!Product(j) # PS!Product(k)
  BY <1>1, <1>6
<1> QED
  BY <1>3, <1>4, <1>7, <1>8

-----------------------------------------------------------------------------
(* The inductive invariant.                                                *)

\* How many slices the master has sent to p, and how many p has received.
Sent(p) == CASE pc[MASTER] \in {"start", "exit"} -> 0
             [] pc[MASTER] = "sendX" -> IF p < i THEN 2 ELSE 0
             [] pc[MASTER] = "sendY" -> IF p < i THEN 2 ELSE IF p = i THEN 1 ELSE 0
             [] OTHER -> 2

Received(p) == CASE pc[p] \in {"start", "recvX", "exit"} -> 0
                 [] pc[p] = "recvY" -> 1
                 [] OTHER -> 2

\* The slices under way: those sent and not received, x before y.
UnderWay(s, r, p) ==
  CASE s = 1 /\ r = 0 -> << <<"x", p>> >>
    [] s = 2 /\ r = 0 -> << <<"x", p>>, <<"y", p>> >>
    [] s = 2 /\ r = 1 -> << <<"y", p>> >>
    [] OTHER -> <<>>

\* Where each process can be.
MasterAt == {"start", "sendX", "sendY", "dot", "collect", "print", "done", "exit"}
WorkerAt == {"start", "recvX", "recvY", "dot", "send", "done", "exit"}

Positions ==
  /\ pc \in [Rank -> Location]
  /\ pc[MASTER] \in MasterAt
  /\ \A p \in Workers : pc[p] \in WorkerAt
  /\ i \in 1 .. NProcs
  /\ pc[MASTER] = "start" => i = 1
  /\ pc[MASTER] \in {"sendX", "sendY", "collect"} => i \in Workers

Channels ==
  /\ down \in [Workers -> Seq({"x", "y", "garbage"} \X Rank)]
  /\ \A p \in Workers : /\ Received(p) <= Sent(p)
                        /\ down[p] = UnderWay(Sent(p), Received(p), p)

Slices ==
  /\ x \in [Rank -> SliceOf] /\ y \in [Rank -> SliceOf]
  /\ pc[MASTER] \notin {"start", "exit"} => x[MASTER] = <<"x", MASTER>> /\ y[MASTER] = <<"y", MASTER>>
  /\ \A p \in Workers : /\ Received(p) >= 1 => x[p] = <<"x", p>>
                        /\ Received(p) = 2 => y[p] = <<"y", p>>

\* p has sent its sum and the master has not taken it yet.
SumUnderWay(p) == /\ pc[p] = "done"
                  /\ pc[MASTER] \notin {"print", "done"}
                  /\ pc[MASTER] = "collect" => i <= p

Sums ==
  /\ prod \in [Rank -> SUBSET (Element \X Element)]
  /\ up \in [Workers -> Seq(SUBSET (Element \X Element))]
  /\ \A p \in Workers :
       /\ pc[p] \in {"send", "done"} => prod[p] = PS!Slice(p, size)
       /\ up[p] = IF SumUnderWay(p) THEN <<PS!Slice(p, size)>> ELSE <<>>
       /\ pc[MASTER] = "collect" /\ p < i => pc[p] = "done"
       /\ pc[MASTER] \in {"print", "done"} => pc[p] = "done"
  /\ pc[MASTER] \in {"start", "sendX", "sendY", "dot"} => prod[MASTER] = {}
  /\ pc[MASTER] = "collect" => prod[MASTER] = First(i)
  /\ pc[MASTER] \in {"print", "done"} => prod[MASTER] = First(NProcs)
  /\ printed = IF pc[MASTER] = "done" THEN First(NProcs) ELSE {}

DInv == /\ n \in Ns /\ eager \subseteq {"slice", "prod"}
        /\ Positions /\ Channels /\ Slices /\ Sums

LEMMA SizeIsNat ==
  ASSUME n \in Ns
  PROVE  size \in Nat
BY LengthAssumption, NProcsAssumption, DivisionIsNat DEF size

LEMMA InitDInv == Init => DInv
<1> SUFFICES ASSUME Init PROVE DInv
  OBVIOUS
<1> USE RankFacts, NProcsAssumption DEF Init
<1>1. Positions
  BY DEF Positions, Location, MasterAt, WorkerAt
<1>2. Channels
  <2>1. \A p \in Workers : Sent(p) = 0 /\ Received(p) = 0
    BY DEF Sent, Received
  <2>2. \A p \in Workers : UnderWay(0, 0, p) = <<>>
    BY DEF UnderWay
  <2>3. down \in [Workers -> Seq({"x", "y", "garbage"} \X Rank)]
    OBVIOUS
  <2> QED
    BY <2>1, <2>2, <2>3 DEF Channels
<1>3. Slices
  BY DEF Slices, Received, SliceOf
<1>4. Sums
  BY DEF Sums, SumUnderWay
<1> QED
  BY <1>1, <1>2, <1>3, <1>4 DEF DInv

-----------------------------------------------------------------------------
(* The steps.                                                              *)

LEMMA RefuseDInv == ASSUME NEW p \in Rank, DInv, Refuse(p) PROVE DInv'
<1> USE RankFacts, NProcsAssumption
<1>1. /\ pc[p] = "start" /\ pc' = [pc EXCEPT ![p] = "exit"] /\ n' = n /\ eager' = eager /\ i' = i
      /\ down' = down /\ up' = up /\ x' = x /\ y' = y /\ prod' = prod /\ printed' = printed
  BY DEF Refuse, Goto
<1>2. Positions'
  BY <1>1 DEF DInv, Positions, Location, MasterAt, WorkerAt
<1>3. \A q \in Workers : Sent(q)' = Sent(q) /\ Received(q)' = Received(q)
  BY <1>1 DEF Sent, Received, DInv, Positions
<1>4. Channels'
  BY <1>1, <1>3 DEF DInv, Channels
<1>5. Slices'
  BY <1>1, <1>3 DEF DInv, Slices, Positions
<1>6. \A q \in Workers : SumUnderWay(q)' = SumUnderWay(q)
  BY <1>1 DEF SumUnderWay, DInv, Positions
<1>7. Sums'
  BY <1>1, <1>6 DEF DInv, Sums, Positions, size, First
<1> QED
  BY <1>1, <1>2, <1>4, <1>5, <1>7 DEF DInv

LEMMA BeginMasterDInv == ASSUME DInv, BeginMaster PROVE DInv'
<1> USE RankFacts, NProcsAssumption
<1>1. /\ pc[MASTER] = "start" /\ i = 1 /\ pc \in [Rank -> Location]
      /\ pc' = [pc EXCEPT ![MASTER] = IF 1 < NProcs THEN "sendX" ELSE "dot"]
      /\ x' = [x EXCEPT ![MASTER] = <<"x", MASTER>>] /\ y' = [y EXCEPT ![MASTER] = <<"y", MASTER>>]
      /\ n' = n /\ eager' = eager /\ i' = i /\ down' = down /\ up' = up
      /\ prod' = prod /\ printed' = printed
  BY DEF BeginMaster, Goto, DInv, Positions
<1>2. /\ pc'[MASTER] \in {"sendX", "dot"} /\ (pc'[MASTER] = "sendX" <=> 1 < NProcs)
      /\ \A q \in Workers : pc'[q] = pc[q]
  BY <1>1
<1>3. Positions'
  BY <1>1, <1>2 DEF DInv, Positions, Location, MasterAt, WorkerAt, Workers
<1>4. \A q \in Workers : Sent(q)' = Sent(q) /\ Received(q)' = Received(q)
  BY <1>1, <1>2 DEF Sent, Received, Workers
<1>5. Channels'
  BY <1>1, <1>4 DEF DInv, Channels
<1>6. Slices'
  BY <1>1, <1>2, <1>4 DEF DInv, Slices, SliceOf
<1>7. \A q \in Workers : SumUnderWay(q)' = SumUnderWay(q)
  BY <1>1, <1>2 DEF SumUnderWay
<1>8. Sums'
  BY <1>1, <1>2, <1>7 DEF DInv, Sums, size, First
<1> QED
  BY <1>1, <1>3, <1>5, <1>6, <1>8 DEF DInv

LEMMA BeginWorkerDInv == ASSUME NEW p \in Workers, DInv, BeginWorker(p) PROVE DInv'
<1> USE RankFacts, NProcsAssumption
<1>1. /\ pc[p] = "start" /\ pc \in [Rank -> Location] /\ pc' = [pc EXCEPT ![p] = "recvX"]
      /\ n' = n /\ eager' = eager /\ i' = i /\ down' = down /\ up' = up
      /\ x' = x /\ y' = y /\ prod' = prod /\ printed' = printed
  BY DEF BeginWorker, Goto, DInv, Positions
<1>2. pc'[MASTER] = pc[MASTER] /\ \A q \in Workers : pc'[q] = IF q = p THEN "recvX" ELSE pc[q]
  BY <1>1
<1>3. Positions'
  BY <1>1, <1>2 DEF DInv, Positions, Location, WorkerAt
<1>4. \A q \in Workers : Sent(q)' = Sent(q) /\ Received(q)' = Received(q)
  BY <1>1, <1>2 DEF Sent, Received
<1>5. Channels'
  BY <1>1, <1>4 DEF DInv, Channels
<1>6. Slices'
  BY <1>1, <1>2, <1>4 DEF DInv, Slices
<1>7. \A q \in Workers : SumUnderWay(q)' = SumUnderWay(q)
  BY <1>1, <1>2 DEF SumUnderWay
<1>8. Sums'
  BY <1>1, <1>2, <1>7 DEF DInv, Sums, size, First
<1> QED
  BY <1>1, <1>3, <1>5, <1>6, <1>8 DEF DInv

\* One more slice under way.
LEMMA UnderWaySend ==
  ASSUME NEW p
  PROVE  /\ UnderWay(1, 0, p) = Append(UnderWay(0, 0, p), <<"x", p>>)
         /\ UnderWay(2, 0, p) = Append(UnderWay(1, 0, p), <<"y", p>>)
         /\ UnderWay(2, 1, p) = Append(UnderWay(1, 1, p), <<"y", p>>)
<1>1. /\ UnderWay(0, 0, p) = <<>> /\ UnderWay(1, 1, p) = <<>>
      /\ UnderWay(1, 0, p) = << <<"x", p>> >>
      /\ UnderWay(2, 0, p) = << <<"x", p>>, <<"y", p>> >>
      /\ UnderWay(2, 1, p) = << <<"y", p>> >>
  BY DEF UnderWay
<1>2. ASSUME NEW S, NEW e \in S, NEW f \in S
      PROVE  Append(<<>>, e) = <<e>> /\ Append(<<e>>, f) = <<e, f>>
  <2>1. <<>> \in Seq(S) /\ <<e>> \in Seq(S) /\ <<e, f>> \in Seq(S)
    OBVIOUS
  <2>2. /\ Append(<<>>, e) \in Seq(S) /\ Len(Append(<<>>, e)) = 1
        /\ Append(<<>>, e)[1] = e
    BY <2>1, AppendProperties
  <2>3. /\ Append(<<e>>, f) \in Seq(S) /\ Len(Append(<<e>>, f)) = 2
        /\ Append(<<e>>, f)[1] = e /\ Append(<<e>>, f)[2] = f
    BY <2>1, AppendProperties
  <2>4. Append(<<>>, e) = <<e>>
    BY <2>1, <2>2, SeqEqual
  <2>5. Append(<<e>>, f) = <<e, f>>
    <3>1. Len(<<e, f>>) = 2 /\ \A k \in 1 .. 2 : Append(<<e>>, f)[k] = <<e, f>>[k]
      BY <2>3
    <3> QED
      BY <2>1, <2>3, <3>1, SeqEqual
  <2> QED
    BY <2>4, <2>5
<1>3. <<"x", p>> \in {"x", "y"} \X {p} /\ <<"y", p>> \in {"x", "y"} \X {p}
  OBVIOUS
<1>4. /\ Append(<<>>, <<"x", p>>) = << <<"x", p>> >>
      /\ Append(<<>>, <<"y", p>>) = << <<"y", p>> >>
      /\ Append(<< <<"x", p>> >>, <<"y", p>>) = << <<"x", p>>, <<"y", p>> >>
  BY <1>2, <1>3
<1> QED
  BY <1>1, <1>4

\* The first slice under way is taken.
LEMMA UnderWayReceive ==
  ASSUME NEW p, NEW s \in {0, 1, 2}
  PROVE  /\ UnderWay(s, 0, p) # <<>> => /\ s >= 1 /\ Head(UnderWay(s, 0, p)) = <<"x", p>>
                                        /\ UnderWay(s, 1, p) = Tail(UnderWay(s, 0, p))
         /\ UnderWay(s, 1, p) # <<>> => /\ s = 2 /\ Head(UnderWay(s, 1, p)) = <<"y", p>>
                                        /\ UnderWay(s, 2, p) = Tail(UnderWay(s, 1, p))
BY DEF UnderWay

LEMMA CountFacts ==
  ASSUME NEW p
  PROVE  Sent(p) \in {0, 1, 2} /\ Received(p) \in {0, 1, 2}
BY DEF Sent, Received

LEMMA SendXDInv == ASSUME DInv, SendX PROVE DInv'
<1> USE RankFacts, NProcsAssumption
<1>1. /\ pc[MASTER] = "sendX" /\ i \in Workers /\ pc \in [Rank -> Location]
      /\ pc' = [pc EXCEPT ![MASTER] = "sendY"]
      /\ down' = [down EXCEPT ![i] = Append(down[i], <<"x", i>>)]
      /\ n' = n /\ eager' = eager /\ i' = i /\ up' = up
      /\ x' = x /\ y' = y /\ prod' = prod /\ printed' = printed
  BY DEF SendX, Goto, DInv, Positions
<1>2. pc'[MASTER] = "sendY" /\ \A q \in Workers : pc'[q] = pc[q]
  BY <1>1
<1>3. Positions'
  BY <1>1, <1>2 DEF DInv, Positions, Location, MasterAt
<1>4. /\ Sent(i) = 0 /\ Sent(i)' = 1
      /\ \A q \in Workers : q # i => Sent(q)' = Sent(q)
      /\ \A q \in Workers : Received(q)' = Received(q)
  BY <1>1, <1>2 DEF Sent, Received, Workers
<1>5. Channels'
  <2>1. down' \in [Workers -> Seq({"x", "y", "garbage"} \X Rank)]
    BY <1>1 DEF DInv, Channels
  <2>2. Received(i) = 0 /\ down'[i] = UnderWay(1, 0, i)
    <3>1. Received(i) = 0 /\ down[i] = UnderWay(0, 0, i)
      BY <1>1, <1>4, CountFacts DEF DInv, Channels
    <3> QED
      BY <1>1, <3>1, UnderWaySend DEF DInv, Channels
  <2>3. \A q \in Workers : /\ Received(q)' <= Sent(q)'
                           /\ down'[q] = UnderWay(Sent(q)', Received(q)', q)
    BY <1>1, <1>4, <2>2 DEF DInv, Channels
  <2> QED
    BY <2>1, <2>3 DEF Channels
<1>6. Slices'
  BY <1>1, <1>2, <1>4 DEF DInv, Slices
<1>7. \A q \in Workers : SumUnderWay(q)' = SumUnderWay(q)
  BY <1>1, <1>2 DEF SumUnderWay
<1>8. Sums'
  BY <1>1, <1>2, <1>7 DEF DInv, Sums, size, First
<1> QED
  BY <1>1, <1>3, <1>5, <1>6, <1>8 DEF DInv

LEMMA SendYDInv == ASSUME DInv, SendY PROVE DInv'
<1> USE RankFacts, NProcsAssumption
<1>1. /\ pc[MASTER] = "sendY" /\ i \in Workers /\ pc \in [Rank -> Location]
      /\ pc' = [pc EXCEPT ![MASTER] = IF i + 1 < NProcs THEN "sendX" ELSE "dot"]
      /\ down' = [down EXCEPT ![i] = Append(down[i], <<"y", i>>)]
      /\ n' = n /\ eager' = eager /\ i' = i + 1 /\ up' = up
      /\ x' = x /\ y' = y /\ prod' = prod /\ printed' = printed
  BY DEF SendY, Goto, DInv, Positions
<1>2. /\ pc'[MASTER] = IF i + 1 < NProcs THEN "sendX" ELSE "dot"
      /\ \A q \in Workers : pc'[q] = pc[q]
  BY <1>1
<1>3. Positions'
  BY <1>1, <1>2 DEF DInv, Positions, Location, MasterAt, Workers
<1>4. /\ Sent(i) = 1 /\ \A q \in Workers : Sent(q)' = IF q = i THEN 2 ELSE Sent(q)
      /\ \A q \in Workers : Received(q)' = Received(q)
  <2>1. Sent(i) = 1
    BY <1>1 DEF Sent, Workers
  <2>2. \A q \in Workers : Received(q)' = Received(q)
    BY <1>2 DEF Received
  <2>3. ASSUME NEW q \in Workers PROVE Sent(q)' = IF q = i THEN 2 ELSE Sent(q)
    <3>1. q \in Int /\ i \in Int /\ q < NProcs /\ NProcs \in Int
      BY <1>1 DEF Workers
    <3>2. Sent(q) = IF q < i THEN 2 ELSE IF q = i THEN 1 ELSE 0
      BY <1>1 DEF Sent
    <3>3. Sent(q)' = IF i + 1 < NProcs THEN IF q < i + 1 THEN 2 ELSE 0 ELSE 2
      BY <1>1, <1>2 DEF Sent
    <3> QED
      BY <3>1, <3>2, <3>3
  <2> QED
    BY <2>1, <2>2, <2>3
<1>5. Channels'
  <2>1. down' \in [Workers -> Seq({"x", "y", "garbage"} \X Rank)]
    BY <1>1 DEF DInv, Channels
  <2>2. Received(i) <= 1 /\ down'[i] = UnderWay(2, Received(i), i)
    <3>1. Received(i) <= 1 /\ down[i] = UnderWay(1, Received(i), i)
      BY <1>1, <1>4 DEF DInv, Channels
    <3>2. Received(i) \in {0, 1}
      BY <3>1, CountFacts
    <3>3. down'[i] = Append(down[i], <<"y", i>>)
      BY <1>1 DEF DInv, Channels
    <3>4. UnderWay(2, Received(i), i) = Append(UnderWay(1, Received(i), i), <<"y", i>>)
      <4>1. CASE Received(i) = 0
        BY <4>1, UnderWaySend
      <4>2. CASE Received(i) = 1
        BY <4>2, UnderWaySend
      <4> QED
        BY <3>2, <4>1, <4>2
    <3> QED
      BY <3>1, <3>3, <3>4
  <2>3. ASSUME NEW q \in Workers
        PROVE  /\ Received(q)' <= Sent(q)'
               /\ down'[q] = UnderWay(Sent(q)', Received(q)', q)
    <3>1. CASE q = i
      BY <3>1, <1>1, <1>4, <2>2, CountFacts
    <3>2. CASE q # i
      <4>1. down'[q] = down[q] /\ Sent(q)' = Sent(q) /\ Received(q)' = Received(q)
        BY <3>2, <1>1, <1>4 DEF DInv, Channels
      <4> QED
        BY <4>1 DEF DInv, Channels
    <3> QED
      BY <3>1, <3>2
  <2> QED
    BY <2>1, <2>3 DEF Channels
<1>6. Slices'
  BY <1>1, <1>2, <1>4 DEF DInv, Slices
<1>7. \A q \in Workers : SumUnderWay(q)' = SumUnderWay(q)
  BY <1>1, <1>2 DEF SumUnderWay
<1>8. Sums'
  BY <1>1, <1>2, <1>7 DEF DInv, Sums, size, First
<1> QED
  BY <1>1, <1>3, <1>5, <1>6, <1>8 DEF DInv

LEMMA RecvXDInv == ASSUME NEW p \in Workers, DInv, RecvX(p) PROVE DInv'
<1> USE RankFacts, NProcsAssumption
<1>1. /\ pc[p] = "recvX" /\ down[p] # <<>> /\ pc \in [Rank -> Location]
      /\ pc' = [pc EXCEPT ![p] = "recvY"]
      /\ x' = [x EXCEPT ![p] = Head(down[p])]
      /\ down' = [down EXCEPT ![p] = Tail(down[p])]
      /\ n' = n /\ eager' = eager /\ i' = i /\ up' = up
      /\ y' = y /\ prod' = prod /\ printed' = printed
  BY DEF RecvX, Goto, DInv, Positions
<1>2. pc'[MASTER] = pc[MASTER] /\ \A q \in Workers : pc'[q] = IF q = p THEN "recvY" ELSE pc[q]
  BY <1>1
<1>3. Positions'
  BY <1>1, <1>2 DEF DInv, Positions, Location, WorkerAt
<1>4. /\ Received(p) = 0
      /\ \A q \in Workers : Sent(q)' = Sent(q) /\ Received(q)' = IF q = p THEN 1 ELSE Received(q)
  BY <1>1, <1>2 DEF Sent, Received
<1>5. /\ Sent(p) \in {1, 2} /\ Head(down[p]) = <<"x", p>>
      /\ Tail(down[p]) = UnderWay(Sent(p), 1, p)
  <2>1. down[p] = UnderWay(Sent(p), 0, p)
    BY <1>4 DEF DInv, Channels
  <2> QED
    BY <1>1, <2>1, CountFacts, UnderWayReceive
<1>6. Channels'
  <2>1. down' \in [Workers -> Seq({"x", "y", "garbage"} \X Rank)]
    BY <1>1 DEF DInv, Channels
  <2>2. ASSUME NEW q \in Workers
        PROVE  /\ Received(q)' <= Sent(q)'
               /\ down'[q] = UnderWay(Sent(q)', Received(q)', q)
    <3>1. CASE q = p
      BY <3>1, <1>1, <1>4, <1>5 DEF DInv, Channels
    <3>2. CASE q # p
      <4>1. down'[q] = down[q] /\ Sent(q)' = Sent(q) /\ Received(q)' = Received(q)
        BY <3>2, <1>1, <1>4 DEF DInv, Channels
      <4> QED
        BY <4>1 DEF DInv, Channels
    <3> QED
      BY <3>1, <3>2
  <2> QED
    BY <2>1, <2>2 DEF Channels
<1>7. Slices'
  <2>1. x' \in [Rank -> SliceOf] /\ x'[MASTER] = x[MASTER]
    BY <1>1, <1>5 DEF DInv, Slices, SliceOf
  <2>2. ASSUME NEW q \in Workers
        PROVE  /\ Received(q)' >= 1 => x'[q] = <<"x", q>>
               /\ Received(q)' = 2 => y'[q] = <<"y", q>>
    <3>1. CASE q = p
      BY <3>1, <1>1, <1>4, <1>5 DEF DInv, Slices
    <3>2. CASE q # p
      BY <3>2, <1>1, <1>4 DEF DInv, Slices
    <3> QED
      BY <3>1, <3>2
  <2> QED
    BY <1>1, <1>2, <2>1, <2>2 DEF DInv, Slices
<1>8. \A q \in Workers : SumUnderWay(q)' = SumUnderWay(q)
  BY <1>1, <1>2 DEF SumUnderWay
<1>9. Sums'
  BY <1>1, <1>2, <1>8 DEF DInv, Sums, size, First
<1> QED
  BY <1>1, <1>3, <1>6, <1>7, <1>9 DEF DInv

LEMMA RecvYDInv == ASSUME NEW p \in Workers, DInv, RecvY(p) PROVE DInv'
<1> USE RankFacts, NProcsAssumption
<1>1. /\ pc[p] = "recvY" /\ down[p] # <<>> /\ pc \in [Rank -> Location]
      /\ pc' = [pc EXCEPT ![p] = "dot"]
      /\ y' = [y EXCEPT ![p] = Head(down[p])]
      /\ down' = [down EXCEPT ![p] = Tail(down[p])]
      /\ n' = n /\ eager' = eager /\ i' = i /\ up' = up
      /\ x' = x /\ prod' = prod /\ printed' = printed
  BY DEF RecvY, Goto, DInv, Positions
<1>2. pc'[MASTER] = pc[MASTER] /\ \A q \in Workers : pc'[q] = IF q = p THEN "dot" ELSE pc[q]
  BY <1>1
<1>3. Positions'
  BY <1>1, <1>2 DEF DInv, Positions, Location, WorkerAt
<1>4. /\ Received(p) = 1
      /\ \A q \in Workers : Sent(q)' = Sent(q) /\ Received(q)' = IF q = p THEN 2 ELSE Received(q)
  BY <1>1, <1>2 DEF Sent, Received
<1>5. /\ Sent(p) = 2 /\ Head(down[p]) = <<"y", p>>
      /\ Tail(down[p]) = UnderWay(Sent(p), 2, p)
  <2>1. down[p] = UnderWay(Sent(p), 1, p)
    BY <1>4 DEF DInv, Channels
  <2> QED
    BY <1>1, <2>1, CountFacts, UnderWayReceive
<1>6. Channels'
  <2>1. down' \in [Workers -> Seq({"x", "y", "garbage"} \X Rank)]
    BY <1>1 DEF DInv, Channels
  <2>2. ASSUME NEW q \in Workers
        PROVE  /\ Received(q)' <= Sent(q)'
               /\ down'[q] = UnderWay(Sent(q)', Received(q)', q)
    <3>1. CASE q = p
      BY <3>1, <1>1, <1>4, <1>5 DEF DInv, Channels
    <3>2. CASE q # p
      <4>1. down'[q] = down[q] /\ Sent(q)' = Sent(q) /\ Received(q)' = Received(q)
        BY <3>2, <1>1, <1>4 DEF DInv, Channels
      <4> QED
        BY <4>1 DEF DInv, Channels
    <3> QED
      BY <3>1, <3>2
  <2> QED
    BY <2>1, <2>2 DEF Channels
<1>7. Slices'
  BY <1>1, <1>2, <1>4, <1>5 DEF DInv, Slices, SliceOf
<1>8. \A q \in Workers : SumUnderWay(q)' = SumUnderWay(q)
  BY <1>1, <1>2 DEF SumUnderWay
<1>9. Sums'
  BY <1>1, <1>2, <1>8 DEF DInv, Sums, size, First
<1> QED
  BY <1>1, <1>3, <1>6, <1>7, <1>9 DEF DInv

LEMMA SliceIsSet ==
  ASSUME NEW r \in Nat, size \in Nat
  PROVE  PS!Slice(r, size) \in SUBSET (Element \X Element)
<1> DEFINE b == r * size
<1>1. b \in Nat
  BY ProductIsNat
<1>2. \A j \in b .. (b + size - 1) : PS!Product(j) \in Element \X Element
  BY <1>1 DEF PS!Product, Element
<1> QED
  BY <1>2 DEF PS!Slice

\* What a process adds up once both slices are in.
LEMMA OwnSum ==
  ASSUME NEW p \in Rank, DInv, pc[p] = "dot"
  PROVE  Products(x[p], y[p]) = PS!Slice(p, size)
<1>1. size \in Nat /\ p \in Nat
  BY SizeIsNat, RankFacts DEF DInv
<1>2. x[p] = <<"x", p>> /\ y[p] = <<"y", p>>
  <2>1. CASE p = MASTER
    BY <2>1 DEF DInv, Slices
  <2>2. CASE p \in Workers
    <3>1. Received(p) = 2
      BY DEF Received
    <3> QED
      BY <2>2, <3>1 DEF DInv, Slices
  <2> QED
    BY <2>1, <2>2, RankFacts
<1> QED
  BY <1>1, <1>2, OwnProducts

LEMMA WorkerDotDInv == ASSUME NEW p \in Workers, DInv, dot_product(p) PROVE DInv'
<1> USE RankFacts, NProcsAssumption
<1>1. /\ pc[p] = "dot" /\ pc \in [Rank -> Location] /\ pc' = [pc EXCEPT ![p] = "send"]
      /\ prod' = [prod EXCEPT ![p] = Products(x[p], y[p])]
      /\ n' = n /\ eager' = eager /\ i' = i /\ down' = down /\ up' = up
      /\ x' = x /\ y' = y /\ printed' = printed
  BY DEF dot_product, Goto, DInv, Positions
<1>2. pc'[MASTER] = pc[MASTER] /\ \A q \in Workers : pc'[q] = IF q = p THEN "send" ELSE pc[q]
  BY <1>1
<1>3. Positions'
  BY <1>1, <1>2 DEF DInv, Positions, Location, WorkerAt
<1>4. \A q \in Workers : Sent(q)' = Sent(q) /\ Received(q)' = Received(q)
  BY <1>1, <1>2 DEF Sent, Received
<1>5. Channels'
  BY <1>1, <1>4 DEF DInv, Channels
<1>6. Slices'
  BY <1>1, <1>2, <1>4 DEF DInv, Slices
<1>7. \A q \in Workers : SumUnderWay(q)' = SumUnderWay(q)
  BY <1>1, <1>2 DEF SumUnderWay
<1>8. Products(x[p], y[p]) = PS!Slice(p, size) /\ size' = size
  BY <1>1, OwnSum DEF size
<1>9. PS!Slice(p, size) \in SUBSET (Element \X Element)
  BY SliceIsSet, SizeIsNat DEF DInv
<1>10. Sums'
  BY <1>1, <1>2, <1>7, <1>8, <1>9 DEF DInv, Sums, First
<1> QED
  BY <1>1, <1>3, <1>5, <1>6, <1>10 DEF DInv

LEMMA MasterDotDInv == ASSUME DInv, dot_product(MASTER) PROVE DInv'
<1> USE RankFacts, NProcsAssumption
<1>1. /\ pc[MASTER] = "dot" /\ pc \in [Rank -> Location]
      /\ pc' = [pc EXCEPT ![MASTER] = IF 1 < NProcs THEN "collect" ELSE "print"]
      /\ prod' = [prod EXCEPT ![MASTER] = Products(x[MASTER], y[MASTER])]
      /\ n' = n /\ eager' = eager /\ i' = 1 /\ down' = down /\ up' = up
      /\ x' = x /\ y' = y /\ printed' = printed
  BY DEF dot_product, Goto, DInv, Positions
<1>2. /\ pc'[MASTER] = IF 1 < NProcs THEN "collect" ELSE "print"
      /\ \A q \in Workers : pc'[q] = pc[q]
  BY <1>1
<1>3. Positions'
  BY <1>1, <1>2 DEF DInv, Positions, Location, MasterAt, Workers
<1>4. \A q \in Workers : Sent(q)' = Sent(q) /\ Received(q)' = Received(q)
  BY <1>1, <1>2 DEF Sent, Received
<1>5. Channels'
  BY <1>1, <1>4 DEF DInv, Channels
<1>6. Slices'
  BY <1>1, <1>2, <1>4 DEF DInv, Slices
<1>7. \A q \in Workers : SumUnderWay(q)' = SumUnderWay(q)
  <2>1. ASSUME NEW q \in Workers PROVE q \in Int /\ 1 <= q /\ 1 < NProcs
    BY DEF Workers
  <2> QED
    BY <1>1, <1>2, <2>1 DEF SumUnderWay
<1>8. Products(x[MASTER], y[MASTER]) = First(1) /\ size' = size
  <2>1. size \in Nat
    BY SizeIsNat DEF DInv
  <2>2. Products(x[MASTER], y[MASTER]) = PS!Slice(0, size)
    BY <1>1, OwnSum DEF MASTER
  <2> QED
    BY <1>1, <2>1, <2>2, FirstOne DEF size
<1>9. First(1) \in SUBSET (Element \X Element)
  BY SliceIsSet, FirstOne, SizeIsNat DEF DInv
<1>10. Sums'
  <2>1. prod' \in [Rank -> SUBSET (Element \X Element)] /\ prod'[MASTER] = First(1)
    BY <1>1, <1>8, <1>9 DEF DInv, Sums
  <2>2. up' \in [Workers -> Seq(SUBSET (Element \X Element))]
    BY <1>1 DEF DInv, Sums
  <2>3. \A m : First(m)' = First(m)
    BY <1>8 DEF First
  <2>4. ASSUME NEW q \in Workers
        PROVE  /\ pc'[q] \in {"send", "done"} => prod'[q] = PS!Slice(q, size)'
               /\ up'[q] = IF SumUnderWay(q)' THEN <<PS!Slice(q, size)'>> ELSE <<>>
               /\ ~(pc'[MASTER] = "collect" /\ q < i')
               /\ pc'[MASTER] = "collect"
    <3>1. q \in Int /\ 1 <= q /\ 1 < NProcs
      BY DEF Workers
    <3>2. prod'[q] = prod[q] /\ pc'[q] = pc[q]
      BY <1>1, <1>2 DEF DInv, Sums
    <3>3. PS!Slice(q, size)' = PS!Slice(q, size)
      BY <1>8
    <3> QED
      BY <1>1, <1>2, <1>7, <3>1, <3>2, <3>3 DEF DInv, Sums
  <2>5. pc'[MASTER] = "collect" => i' = 1
    BY <1>1
  <2>6. pc'[MASTER] = "print" => NProcs = 1
    BY <1>2
  <2>7. pc'[MASTER] \in {"collect", "print"} /\ printed' = {}
    BY <1>1, <1>2 DEF DInv, Sums
  <2> QED
    BY <2>1, <2>2, <2>3, <2>4, <2>5, <2>6, <2>7 DEF Sums
<1> QED
  BY <1>1, <1>3, <1>5, <1>6, <1>10 DEF DInv

LEMMA SendProdDInv == ASSUME NEW p \in Workers, DInv, SendProd(p) PROVE DInv'
<1> USE RankFacts, NProcsAssumption
<1>1. /\ pc[p] = "send" /\ pc \in [Rank -> Location] /\ pc' = [pc EXCEPT ![p] = "done"]
      /\ up' = [up EXCEPT ![p] = Append(up[p], prod[p])]
      /\ n' = n /\ eager' = eager /\ i' = i /\ down' = down /\ prod' = prod
      /\ x' = x /\ y' = y /\ printed' = printed
  BY DEF SendProd, Goto, DInv, Positions
<1>2. pc'[MASTER] = pc[MASTER] /\ \A q \in Workers : pc'[q] = IF q = p THEN "done" ELSE pc[q]
  BY <1>1
<1>3. Positions'
  BY <1>1, <1>2 DEF DInv, Positions, Location, WorkerAt
<1>4. \A q \in Workers : Sent(q)' = Sent(q) /\ Received(q)' = Received(q)
  BY <1>1, <1>2 DEF Sent, Received
<1>5. Channels'
  BY <1>1, <1>4 DEF DInv, Channels
<1>6. Slices'
  BY <1>1, <1>2, <1>4 DEF DInv, Slices
<1>7. /\ ~SumUnderWay(p) /\ SumUnderWay(p)'
      /\ \A q \in Workers : q # p => SumUnderWay(q)' = SumUnderWay(q)
  <2>1. pc[MASTER] \notin {"print", "done"} /\ (pc[MASTER] = "collect" => ~(p < i))
    BY <1>1 DEF DInv, Sums
  <2>2. p \in Int /\ i \in Int
    BY DEF DInv, Positions
  <2> QED
    BY <1>1, <1>2, <2>1, <2>2 DEF SumUnderWay
<1>8. up[p] = <<>> /\ prod[p] = PS!Slice(p, size)
  BY <1>1, <1>7 DEF DInv, Sums
<1>9. /\ up' \in [Workers -> Seq(SUBSET (Element \X Element))]
      /\ up'[p] = <<PS!Slice(p, size)>>
      /\ \A q \in Workers : q # p => up'[q] = up[q]
  <2>1. prod[p] \in SUBSET (Element \X Element) /\ up \in [Workers -> Seq(SUBSET (Element \X Element))]
    BY DEF DInv, Sums
  <2> HIDE DEF DInv
  <2>2. Append(<<>>, prod[p]) = <<prod[p]>> /\ <<prod[p]>> \in Seq(SUBSET (Element \X Element))
    BY <2>1
  <2> QED
    BY <1>1, <1>8, <2>1, <2>2
<1>10. Sums'
  <2>1. \A m : First(m)' = First(m)
    BY <1>1 DEF First, size
  <2>2. ASSUME NEW q \in Workers
        PROVE  /\ pc'[q] \in {"send", "done"} => prod'[q] = PS!Slice(q, size)'
               /\ up'[q] = IF SumUnderWay(q)' THEN <<PS!Slice(q, size)'>> ELSE <<>>
               /\ pc'[MASTER] = "collect" /\ q < i' => pc'[q] = "done"
               /\ pc'[MASTER] \in {"print", "done"} => pc'[q] = "done"
    <3>1. PS!Slice(q, size)' = PS!Slice(q, size)
      BY <1>1 DEF size
    <3>2. CASE q = p
      BY <1>1, <1>2, <1>7, <1>8, <1>9, <3>1, <3>2
    <3>3. CASE q # p
      BY <1>1, <1>2, <1>7, <1>9, <3>1, <3>3 DEF DInv, Sums
    <3> QED
      BY <3>2, <3>3
  <2> QED
    BY <1>1, <1>2, <1>9, <2>1, <2>2 DEF DInv, Sums
<1> QED
  BY <1>1, <1>3, <1>5, <1>6, <1>10 DEF DInv

\* The sum the master takes is the slice of rank i, and it is a new one.
LEMMA CollectFacts ==
  ASSUME DInv, pc[MASTER] = "collect", up[i] # <<>>
  PROVE  /\ i \in Workers /\ pc[i] = "done" /\ up[i] = <<PS!Slice(i, size)>>
         /\ prod[MASTER] \cup Head(up[i]) = First(i + 1)
         /\ prod[MASTER] \cap Head(up[i]) = {}
<1>1. i \in Workers /\ i \in Nat /\ size \in Nat
  BY RankFacts, SizeIsNat DEF DInv, Positions
<1>2. SumUnderWay(i) /\ up[i] = <<PS!Slice(i, size)>>
  BY <1>1 DEF DInv, Sums
<1>3. prod[MASTER] = First(i)
  BY DEF DInv, Sums
<1>4. Head(up[i]) = PS!Slice(i, size)
  BY <1>2
<1> QED
  BY <1>1, <1>2, <1>3, <1>4, FirstNext DEF SumUnderWay

LEMMA CollectDInv == ASSUME DInv, Collect PROVE DInv'
<1> USE RankFacts, NProcsAssumption
<1>1. /\ pc[MASTER] = "collect" /\ pc \in [Rank -> Location] /\ i \in Workers /\ i \in Nat
      /\ pc' = [pc EXCEPT ![MASTER] = IF i + 1 < NProcs THEN "collect" ELSE "print"]
      /\ prod' = [prod EXCEPT ![MASTER] = prod[MASTER] \cup Head(up[i])]
      /\ up' = [up EXCEPT ![i] = Tail(up[i])]
      /\ n' = n /\ eager' = eager /\ i' = i + 1 /\ down' = down
      /\ x' = x /\ y' = y /\ printed' = printed
  BY DEF Collect, Goto, DInv, Positions
<1>2. /\ pc'[MASTER] = IF i + 1 < NProcs THEN "collect" ELSE "print"
      /\ \A q \in Workers : pc'[q] = pc[q]
  BY <1>1
<1>3. Positions'
  BY <1>1, <1>2 DEF DInv, Positions, Location, MasterAt, Workers
<1>4. \A q \in Workers : Sent(q)' = Sent(q) /\ Received(q)' = Received(q)
  BY <1>1, <1>2 DEF Sent, Received
<1>5. Channels'
  BY <1>1, <1>4 DEF DInv, Channels
<1>6. Slices'
  BY <1>1, <1>2, <1>4 DEF DInv, Slices
<1>7. /\ pc[i] = "done" /\ up[i] = <<PS!Slice(i, size)>>
      /\ prod[MASTER] \cup Head(up[i]) = First(i + 1)
  BY CollectFacts DEF Collect
<1>8. ASSUME NEW q \in Workers
      PROVE  /\ q \in Int /\ q < NProcs
             /\ SumUnderWay(q) <=> pc[q] = "done" /\ i <= q
             /\ SumUnderWay(q)' <=> pc[q] = "done" /\ i + 1 < NProcs /\ i + 1 <= q
  <2>1. q \in Int /\ q < NProcs
    BY DEF Workers
  <2>2. SumUnderWay(q) <=> pc[q] = "done" /\ i <= q
    BY <1>1 DEF SumUnderWay
  <2>3. SumUnderWay(q)' <=> pc[q] = "done" /\ i + 1 < NProcs /\ i + 1 <= q
    BY <1>1, <1>2 DEF SumUnderWay
  <2> QED
    BY <2>1, <2>2, <2>3
<1>9. /\ up' \in [Workers -> Seq(SUBSET (Element \X Element))]
      /\ up'[i] = <<>> /\ \A q \in Workers : q # i => up'[q] = up[q]
  BY <1>1, <1>7 DEF DInv, Sums
<1>10. /\ prod' \in [Rank -> SUBSET (Element \X Element)]
       /\ prod'[MASTER] = First(i + 1) /\ \A q \in Workers : prod'[q] = prod[q]
  <2>1. PS!Slice(i, size) \in SUBSET (Element \X Element)
    BY <1>1, SliceIsSet, SizeIsNat DEF DInv
  <2>2. Head(up[i]) \in SUBSET (Element \X Element)
    BY <1>7, <2>1
  <2> QED
    BY <1>1, <1>7, <2>2 DEF DInv, Sums
<1>11. Sums'
  <2>1. \A m : First(m)' = First(m)
    BY <1>1 DEF First, size
  <2>2. ASSUME NEW q \in Workers
        PROVE  /\ pc'[q] \in {"send", "done"} => prod'[q] = PS!Slice(q, size)'
               /\ up'[q] = IF SumUnderWay(q)' THEN <<PS!Slice(q, size)'>> ELSE <<>>
               /\ pc'[MASTER] = "collect" /\ q < i' => pc'[q] = "done"
               /\ pc'[MASTER] \in {"print", "done"} => pc'[q] = "done"
    <3>1. PS!Slice(q, size)' = PS!Slice(q, size)
      BY <1>1 DEF size
    <3>2. q < i => pc[q] = "done"
      BY <1>1 DEF DInv, Sums
    <3>3. q <= i => pc'[q] = "done"
      BY <1>1, <1>2, <1>7, <1>8, <3>2
    <3>4. up'[q] = IF SumUnderWay(q)' THEN <<PS!Slice(q, size)>> ELSE <<>>
      <4>1. CASE q = i
        BY <1>1, <1>8, <1>9, <4>1
      <4>2. CASE q # i
        <5>1. SumUnderWay(q)' <=> SumUnderWay(q)
          BY <1>1, <1>8, <4>2
        <5>2. up[q] = IF SumUnderWay(q) THEN <<PS!Slice(q, size)>> ELSE <<>>
          BY DEF DInv, Sums
        <5> QED
          BY <1>9, <4>2, <5>1, <5>2
      <4> QED
        BY <4>1, <4>2
    <3>5. pc'[MASTER] \in {"print", "done"} => q <= i
      BY <1>1, <1>2, <1>8
    <3>6. q < i + 1 => q <= i
      BY <1>1, <1>8
    <3>7. pc[q] \in {"send", "done"} => prod[q] = PS!Slice(q, size)
      BY DEF DInv, Sums
    <3> QED
      BY <1>1, <1>2, <1>10, <3>1, <3>3, <3>4, <3>5, <3>6, <3>7
  <2>3. i' = i + 1 /\ (pc'[MASTER] = "print" => i + 1 = NProcs)
    BY <1>1, <1>2 DEF Workers
  <2>4. printed' = {} /\ pc'[MASTER] \in {"collect", "print"}
    BY <1>1, <1>2 DEF DInv, Sums
  <2> QED
    BY <1>9, <1>10, <2>1, <2>2, <2>3, <2>4 DEF Sums
<1> QED
  BY <1>1, <1>3, <1>5, <1>6, <1>11 DEF DInv

LEMMA PrintSumDInv == ASSUME DInv, PrintSum PROVE DInv'
<1> USE RankFacts, NProcsAssumption
<1>1. /\ pc[MASTER] = "print" /\ pc \in [Rank -> Location]
      /\ pc' = [pc EXCEPT ![MASTER] = "done"] /\ printed' = prod[MASTER]
      /\ n' = n /\ eager' = eager /\ i' = i /\ down' = down /\ up' = up
      /\ x' = x /\ y' = y /\ prod' = prod
  BY DEF PrintSum, Goto, DInv, Positions
<1>2. pc'[MASTER] = "done" /\ \A q \in Workers : pc'[q] = pc[q]
  BY <1>1
<1>3. Positions'
  BY <1>1, <1>2 DEF DInv, Positions, Location, MasterAt
<1>4. \A q \in Workers : Sent(q)' = Sent(q) /\ Received(q)' = Received(q)
  BY <1>1, <1>2 DEF Sent, Received
<1>5. Channels'
  BY <1>1, <1>4 DEF DInv, Channels
<1>6. Slices'
  BY <1>1, <1>2, <1>4 DEF DInv, Slices
<1>7. \A q \in Workers : SumUnderWay(q)' = SumUnderWay(q)
  BY <1>1, <1>2 DEF SumUnderWay
<1>8. Sums'
  BY <1>1, <1>2, <1>7 DEF DInv, Sums, size, First
<1> QED
  BY <1>1, <1>3, <1>5, <1>6, <1>8 DEF DInv

LEMMA StutterDInv == ASSUME DInv, UNCHANGED vars PROVE DInv'
<1>1. \A q \in Workers : /\ Sent(q)' = Sent(q) /\ Received(q)' = Received(q)
                         /\ SumUnderWay(q)' = SumUnderWay(q)
  BY DEF vars, Sent, Received, SumUnderWay
<1>2. Positions' /\ Channels' /\ Slices'
  BY <1>1 DEF vars, DInv, Positions, Channels, Slices
<1>3. Sums'
  BY <1>1 DEF vars, DInv, Sums, size, First
<1> QED
  BY <1>2, <1>3 DEF vars, DInv

\* The steps of the processes, one by one.
LEMMA StepCases ==
  ASSUME Next
  PROVE  \/ BeginMaster \/ SendX \/ SendY \/ dot_product(MASTER) \/ Collect \/ PrintSum
         \/ UNCHANGED vars
         \/ \E p \in Rank : Refuse(p)
         \/ \E p \in Workers : \/ BeginWorker(p) \/ RecvX(p) \/ RecvY(p) \/ dot_product(p)
                               \/ SendProd(p)
BY RankFacts DEF Next, MasterStep, WorkerStep, Stopped

LEMMA NextDInv == DInv /\ [Next]_vars => DInv'
<1> SUFFICES ASSUME DInv, [Next]_vars PROVE DInv'
  OBVIOUS
<1>1. CASE UNCHANGED vars
  BY <1>1, StutterDInv
<1>2. CASE Next
  BY <1>2, StepCases, StutterDInv, RefuseDInv, BeginMasterDInv, BeginWorkerDInv, SendXDInv,
     SendYDInv, RecvXDInv, RecvYDInv, MasterDotDInv, WorkerDotDInv, SendProdDInv, CollectDInv,
     PrintSumDInv
<1> QED
  BY <1>1, <1>2

-----------------------------------------------------------------------------
(* The processes agree on the length, which none of them changes: either   *)
(* all of them refuse it or none does.                                     *)

Agreed == /\ \A p \in Rank : /\ pc[p] = "exit" => n > NELMS
                             /\ pc[p] \notin {"start", "exit"} => n <= NELMS

LEMMA NextAgreed ==
  ASSUME DInv, Agreed, [Next]_vars
  PROVE  Agreed'
<1> USE RankFacts
<1>1. n' = n
  BY DEF vars, Next, MasterStep, WorkerStep, Stopped, Refuse, BeginMaster, SendX, SendY,
     dot_product, Collect, PrintSum, BeginWorker, RecvX, RecvY, SendProd
<1>2. pc \in [Rank -> Location] /\ n \in Int /\ NELMS \in Int
  BY LengthAssumption DEF DInv, Positions
<1>3. ASSUME NEW p \in Rank, NEW l, pc' = [pc EXCEPT ![p] = l],
             \/ l = "exit" /\ n > NELMS
             \/ l # "exit" /\ n <= NELMS
      PROVE  Agreed'
  BY <1>1, <1>2, <1>3 DEF Agreed
<1>4. CASE UNCHANGED vars
  BY <1>4 DEF vars, Agreed
<1>5. ASSUME NEW p \in Rank, Refuse(p) PROVE Agreed'
  BY <1>3, <1>5 DEF Refuse, Goto
<1>6. CASE BeginMaster
  BY <1>3, <1>6 DEF BeginMaster, Goto
<1>7. CASE SendX \/ SendY \/ dot_product(MASTER) \/ Collect \/ PrintSum
  <2>1. n <= NELMS
    BY <1>7 DEF Agreed, SendX, SendY, dot_product, Collect, PrintSum
  <2>2. PICK l \in Location \ {"exit"} : pc' = [pc EXCEPT ![MASTER] = l]
    BY <1>7 DEF SendX, SendY, dot_product, Collect, PrintSum, Goto, Location
  <2> QED
    BY <1>3, <2>1, <2>2
<1>8. ASSUME NEW p \in Workers, BeginWorker(p) PROVE Agreed'
  BY <1>3, <1>8 DEF BeginWorker, Goto
<1>9. ASSUME NEW p \in Workers, RecvX(p) \/ RecvY(p) \/ dot_product(p) \/ SendProd(p)
      PROVE  Agreed'
  <2>1. n <= NELMS
    BY <1>9 DEF Agreed, RecvX, RecvY, dot_product, SendProd
  <2>2. PICK l \in Location \ {"exit"} : pc' = [pc EXCEPT ![p] = l]
    BY <1>9 DEF RecvX, RecvY, dot_product, SendProd, Goto, Location
  <2> QED
    BY <1>3, <2>1, <2>2
<1> QED
  BY StepCases, <1>4, <1>5, <1>6, <1>7, <1>8, <1>9

\* The inductive invariant.
THEOREM Invariant == Spec => [](DInv /\ Agreed)
<1>1. Init => DInv /\ Agreed
  BY InitDInv DEF Init, Agreed
<1>2. DInv /\ Agreed /\ [Next]_vars => (DInv /\ Agreed)'
  BY NextDInv, NextAgreed
<1> QED
  BY <1>1, <1>2, PTL DEF Spec

-----------------------------------------------------------------------------
(* Theorems.                                                               *)

\* Every variable keeps its type: no index runs past the last rank
\* (hw10.c:43, 57).
THEOREM TypeCorrect == Spec => []TypeOK
<1>1. DInv => TypeOK
  <2> SUFFICES ASSUME DInv PROVE TypeOK
    OBVIOUS
  <2>1. printed \subseteq Element \X Element
    BY RankFacts DEF DInv, Sums
  <2> QED
    BY <2>1 DEF DInv, Positions, Channels, Slices, Sums, TypeOK, SliceOf
<1> QED
  BY <1>1, Invariant, PTL

\* Each process holds the slices cut for it before it sums them (hw10.c:54).
THEOREM SlicesAreOwn == Spec => []OwnSlices
<1>1. DInv => OwnSlices
  <2> SUFFICES ASSUME DInv, NEW p \in Rank, pc[p] \in {"dot", "send", "collect", "print", "done"}
               PROVE  x[p] = <<"x", p>> /\ y[p] = <<"y", p>>
    BY DEF OwnSlices
  <2>1. CASE p = MASTER
    BY <2>1 DEF DInv, Slices
  <2>2. CASE p \in Workers
    <3>1. Received(p) = 2
      BY DEF Received
    <3> QED
      BY <2>2, <3>1 DEF DInv, Slices
  <2> QED
    BY <2>1, <2>2, RankFacts
<1> QED
  BY <1>1, Invariant, PTL

\* The sum printed (hw10.c:69) is the dot product of the first NProcs * size
\* elements.
THEOREM SumCorrect == Spec => []SumIsExact
<1>1. DInv => SumIsExact
  BY DEF DInv, Sums, SumIsExact, First
<1> QED
  BY <1>1, Invariant, PTL

\* The sum taken by the master (hw10.c:58) is always a new one.
THEOREM NothingAddedTwice == Spec => []AddedOnce
<1>1. DInv => AddedOnce
  BY CollectFacts DEF AddedOnce
<1> QED
  BY <1>1, Invariant, PTL

\* No message is left behind by MPI_Finalize (hw10.c:72).
THEOREM NothingLeft == Spec => []NoMessageLeft
<1>1. DInv /\ Agreed => NoMessageLeft
  <2> SUFFICES ASSUME DInv, Agreed, \A p \in Rank : pc[p] \in {"done", "exit"},
                      NEW p \in Workers
               PROVE  down[p] = <<>> /\ up[p] = <<>>
    BY DEF NoMessageLeft
  <2> USE RankFacts
  <2>1. n \in Int /\ NELMS \in Int
    BY LengthAssumption DEF DInv
  <2>2. down[p] = UnderWay(Sent(p), Received(p), p)
    BY DEF DInv, Channels
  <2>3. up[p] = IF SumUnderWay(p) THEN <<PS!Slice(p, size)>> ELSE <<>>
    BY DEF DInv, Sums
  <2>4. CASE n > NELMS
    <3>1. pc[p] = "exit" /\ pc[MASTER] = "exit"
      BY <2>1, <2>4 DEF Agreed
    <3>2. Sent(p) = 0 /\ Received(p) = 0 /\ ~SumUnderWay(p)
      BY <3>1 DEF Sent, Received, SumUnderWay
    <3> QED
      BY <2>2, <2>3, <3>2 DEF UnderWay
  <2>5. CASE ~(n > NELMS)
    <3>1. pc[p] = "done" /\ pc[MASTER] = "done"
      BY <2>1, <2>5 DEF Agreed
    <3>2. Sent(p) = 2 /\ Received(p) = 2 /\ ~SumUnderWay(p)
      BY <3>1 DEF Sent, Received, SumUnderWay
    <3> QED
      BY <2>2, <2>3, <3>2 DEF UnderWay
  <2> QED
    BY <2>4, <2>5
<1> QED
  BY <1>1, Invariant, PTL

\* The program implements the abstract sum: every step of hw10.c:38-69 adds
\* one slice, answers, or changes nothing of it.
THEOREM DotImplementsPartialSums == Spec => ImplementsPartialSums
<1> USE RankFacts, NProcsAssumption
<1>1. Init => PS!Init
  <2> SUFFICES ASSUME Init PROVE PS!Init
    OBVIOUS
  <2>1. size \in Nat
    BY SizeIsNat DEF Init
  <2> QED
    BY <2>1 DEF Init, PS!Init, Added
<1>2. DInv /\ [Next]_vars => [PS!Next]_PS!vars
  <2> SUFFICES ASSUME DInv, [Next]_vars PROVE [PS!Next]_PS!vars
    OBVIOUS
  <2>1. pc \in [Rank -> Location] /\ prod \in [Rank -> SUBSET (Element \X Element)] /\ size \in Nat
    BY SizeIsNat DEF DInv, Positions, Sums
  <2>2. CASE UNCHANGED vars
    BY <2>2 DEF vars, PS!vars, size, Added
  <2>3. CASE dot_product(MASTER)
    <3>1. pc[MASTER] = "dot" /\ prod[MASTER] = {} /\ size' = size /\ printed' = printed /\ i' = 1
      BY <2>3 DEF DInv, Sums, dot_product, size
    <3>2. Added = {} /\ Added' = {0}
      <4>1. CASE 1 < NProcs
        BY <2>1, <2>3, <3>1, <4>1 DEF dot_product, Goto, Added
      <4>2. CASE ~(1 < NProcs)
        BY <2>1, <2>3, <3>1, <4>2 DEF dot_product, Goto, Added, Rank
      <4> QED
        BY <4>1, <4>2
    <3>3. prod'[MASTER] = PS!Slice(0, size)
      BY <2>1, <2>3, <3>1, OwnSum DEF dot_product, MASTER
    <3>4. PS!Add(0)
      BY <3>1, <3>2, <3>3 DEF PS!Add
    <3> QED
      BY <3>4 DEF PS!Next, PS!Rank, Rank, MASTER
  <2>4. CASE Collect
    <3>1. /\ i \in Workers /\ i \in Nat /\ up[i] = <<PS!Slice(i, size)>>
          /\ size' = size /\ printed' = printed /\ i' = i + 1 /\ pc[MASTER] = "collect"
      BY <2>4, CollectFacts DEF Collect, size
    <3>2. Added = 0 .. (i - 1) /\ Added' = 0 .. i
      <4>1. CASE i + 1 < NProcs
        BY <2>1, <2>4, <3>1, <4>1 DEF Collect, Goto, Added
      <4>2. CASE ~(i + 1 < NProcs)
        <5>1. i = NProcs - 1
          BY <3>1, <4>2 DEF Workers
        <5> QED
          BY <2>1, <2>4, <3>1, <4>2, <5>1 DEF Collect, Goto, Added, Rank
      <4> QED
        BY <4>1, <4>2
    <3>3. prod'[MASTER] = prod[MASTER] \cup PS!Slice(i, size)
      BY <2>1, <2>4, <3>1 DEF Collect
    <3>4. i \notin Added /\ Added' = Added \cup {i}
      BY <3>1, <3>2
    <3>5. PS!Add(i)
      BY <3>1, <3>3, <3>4 DEF PS!Add
    <3> QED
      BY <3>1, <3>5 DEF PS!Next, PS!Rank, Rank
  <2>5. CASE PrintSum
    <3>1. /\ Added = Rank /\ Added' = Rank /\ size' = size
          /\ printed' = prod[MASTER] /\ prod' = prod
      BY <2>1, <2>5 DEF PrintSum, Goto, Added, size
    <3>2. PS!Answer
      BY <3>1 DEF PS!Answer, PS!Rank, Rank
    <3> QED
      BY <3>2 DEF PS!Next
  <2>6. ASSUME pc'[MASTER] \notin {"collect", "print", "done"},
               pc[MASTER] \notin {"collect", "print", "done"},
               n' = n, prod'[MASTER] = prod[MASTER], printed' = printed
        PROVE  [PS!Next]_PS!vars
    BY <2>6 DEF PS!vars, Added, size
  <2>7. CASE BeginMaster \/ SendX \/ SendY \/ Refuse(MASTER)
    BY <2>1, <2>6, <2>7 DEF BeginMaster, SendX, SendY, Refuse, Goto
  <2>8. ASSUME NEW p \in Workers, WorkerStep(p) PROVE [PS!Next]_PS!vars
    <3>1. /\ n' = n /\ i' = i /\ printed' = printed
          /\ pc'[MASTER] = pc[MASTER] /\ prod'[MASTER] = prod[MASTER]
      BY <2>1, <2>8 DEF WorkerStep, Refuse, BeginWorker, RecvX, RecvY, dot_product, SendProd, Goto
    <3> QED
      BY <3>1 DEF PS!vars, Added, size
  <2> QED
    BY <2>2, <2>3, <2>4, <2>5, <2>7, <2>8 DEF Next, MasterStep, Stopped
<1> QED
  BY <1>1, <1>2, Invariant, PTL DEF Spec, ImplementsPartialSums, PS!Spec
=============================================================================
