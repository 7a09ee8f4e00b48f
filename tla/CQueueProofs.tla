----------------------------- MODULE CQueueProofs -----------------------------
(***************************************************************************)
(* CQueue for every size of ring: its types, its count, and that it is a   *)
(* bounded FIFO.                                                           *)
(***************************************************************************)
EXTENDS CQueue, SequenceTheorems, TLAPS

\* What the producer has put into the ring, and the consumer has taken out,
\* without having counted it yet.
pLag == IF pPc = "idle" THEN 0 ELSE pNum - pLeft
cLag == CASE cPc = "index" -> cNum - Len(cItem)
          [] cPc = "count" -> cNum
          [] OTHER -> 0

\* The slot of the k-th item in the ring.
Slot(k) == (m_rdIdx + k - 1) % S

\* The producer has room for what it has not stored yet.
ProducerInv ==
  /\ pNum <= S - 1
  /\ pPc \in {"store", "index"} => pLeft \in 1..pNum /\ pLeft <= S - 1 - Held
  /\ pPc = "count" => pLeft = 0

\* What the consumer has read are the first items in the ring.
ConsumerInv ==
  /\ cNum <= S - 1
  /\ cPc \in {"idle", "count"} => cItem = <<>>
  /\ cPc = "read" => Len(cItem) < cNum /\ cNum <= Held
  /\ cPc = "index" => Len(cItem) \in 1..cNum /\ Len(cItem) <= Held
  /\ \A k \in 1..Len(cItem) : cItem[k] = m_que[Slot(k)]

\* The count is what is in the ring, but for what is not counted yet.
CountInv == m_Cnt = (Held + cLag - pLag) % CntMod

IInv == TypeOK /\ ProducerInv /\ ConsumerInv /\ CountInv

\* Going round the ring by at most one turn.
LEMMA RingStep ==
  ASSUME RingAssumption, NEW i \in Idx, NEW k \in 0..S-1
  PROVE  /\ (i + k) % S = IF i + k < S THEN i + k ELSE i + k - S
         /\ (i + k) % S \in Idx
<1>1. S \in Nat /\ S > 1 /\ i \in 0..S-1
  BY DEF RingAssumption, Idx
<1>2. CASE i + k < S
  <2>1. (i + k) % S = i + k
    BY <1>1, <1>2
  <2> QED BY <1>1, <1>2, <2>1 DEF Idx
<1>3. CASE i + k >= S
  <2>1. i + k - S \in 0..S-1
    BY <1>1, <1>3
  <2>2. (i + k) % S = i + k - S
    BY <1>1, <1>3, <2>1
  <2> QED BY <1>1, <1>3, <2>1, <2>2 DEF Idx
<1> QED BY <1>1, <1>2, <1>3

\* An index moves on by one slot, or from the last to the first.
LEMMA SuccStep ==
  ASSUME RingAssumption, NEW i \in Idx
  PROVE  Succ(i) \in Idx /\ Succ(i) = IF i = S - 1 THEN 0 ELSE i + 1
<1>1. 1 \in 0..S-1 /\ S \in Nat
  BY DEF RingAssumption
<1>2. (i + 1) % S = IF i + 1 < S THEN i + 1 ELSE i + 1 - S
  BY <1>1, RingStep
<1> QED BY <1>1, <1>2 DEF Succ, Idx

\* Between 0 and S - 1 items are in the ring; the slots of the items are all
\* of the ring but the one the producer fills next and those after it.
LEMMA HeldType ==
  ASSUME RingAssumption, TypeOK
  PROVE  /\ Held \in 0..S-1
         /\ \A k \in 1..Held : Slot(k) \in Idx /\ Slot(k) # m_wrIdx
         /\ ~IsEmpty => Held >= 1
         /\ ~IsFull => Held <= S - 2
<1>1. S \in Nat /\ S > 1 /\ m_wrIdx \in 0..S-1 /\ m_rdIdx \in 0..S-1
  BY DEF RingAssumption, TypeOK, Idx
<1>2. Held \in 0..S-1
  BY <1>1 DEF Held
<1>3. ASSUME NEW k \in 1..Held PROVE Slot(k) \in Idx /\ Slot(k) # m_wrIdx
  <2>1. k - 1 \in 0..S-1 /\ m_rdIdx \in Idx /\ m_rdIdx + (k - 1) = m_rdIdx + k - 1
    BY <1>1, <1>2 DEF Idx
  <2>2. Slot(k) \in Idx /\ Slot(k) = IF m_rdIdx + (k - 1) < S THEN m_rdIdx + (k - 1)
                                      ELSE m_rdIdx + (k - 1) - S
    BY <2>1, RingStep DEF Slot
  <2> QED BY <1>1, <2>1, <2>2 DEF Held, Idx
<1>4. ~IsEmpty => Held >= 1
  BY <1>1 DEF IsEmpty, Held
<1>5. ~IsFull => Held <= S - 2
  BY <1>1, SuccStep DEF IsFull, Held, Idx
<1> QED BY <1>2, <1>3, <1>4, <1>5

\* The lags are at most what is in one call, so the count never wraps twice
\* and Size is exact up to the lags.
LEMMA SizeIs ==
  ASSUME RingAssumption, IInv
  PROVE  /\ Size = Held + cLag - pLag
         /\ cLag \in 0..S-1 /\ pLag \in 0..S-1
<1>1. S \in Nat /\ S > 1 /\ CntMod \in Nat /\ CntMod > 4 * S
  BY DEF RingAssumption
<1>2. Held \in 0..S-1
  BY HeldType DEF IInv
<1>3. Len(cItem) \in Nat
  BY DEF IInv, TypeOK
<1>4. cLag \in 0..S-1
  BY <1>1, <1>3 DEF IInv, TypeOK, ConsumerInv, cLag
<1>5. pLag \in 0..S-1
  BY <1>1 DEF IInv, TypeOK, ProducerInv, pLag
<1> DEFINE d == Held + cLag - pLag
<1>6. d \in Int /\ d >= 0 - S /\ d < 2 * S /\ m_Cnt = d % CntMod
  BY <1>1, <1>2, <1>4, <1>5 DEF IInv, CountInv
<1> HIDE DEF d
<1>7. CASE d >= 0
  <2>1. d % CntMod = d
    BY <1>1, <1>6, <1>7
  <2>2. d < CntMod \div 2
    BY <1>1, <1>6
  <2> QED BY <1>4, <1>5, <1>6, <2>1, <2>2 DEF Size, d
<1>8. CASE d < 0
  <2>1. d % CntMod = d + CntMod
    <3>1. d + CntMod \in 0..CntMod-1
      BY <1>1, <1>6, <1>8
    <3> QED BY <1>1, <1>6, <3>1
  <2>2. ~(d + CntMod < CntMod \div 2)
    BY <1>1, <1>6
  <2>3. d + CntMod - CntMod = d
    BY <1>1, <1>6
  <2> QED BY <1>4, <1>5, <1>6, <2>1, <2>2, <2>3 DEF Size, d
<1> QED BY <1>6, <1>7, <1>8

\* Adding to a wrapped count is wrapping the sum.
LEMMA WrapSum ==
  ASSUME NEW n \in Nat, n > 0, NEW a \in Int, NEW b \in Int
  PROVE  ((a % n) + b) % n = (a + b) % n
<1> DEFINE r == a % n
           t == a \div n
           u == (r + b) % n
           w == (r + b) \div n
<1>1. r \in 0..n-1 /\ t \in Int /\ a = n * t + r
  OBVIOUS
<1> HIDE DEF r, t
<1>2. u \in 0..n-1 /\ w \in Int /\ r + b = n * w + u
  BY <1>1
<1> HIDE DEF u, w
<1>3. a + b = n * (t + w) + u
  BY <1>1, <1>2
<1>4. \A x \in Int, y \in 0..n-1 : (n * x + y) % n = y
  OBVIOUS
<1>5. (a + b) % n = u
  BY <1>1, <1>2, <1>3, <1>4, SMTT(30)
<1> QED BY <1>5 DEF u, r

\* When the producer's index moves on there is one more item in the ring.
LEMMA HeldMore ==
  ASSUME RingAssumption, TypeOK, Held <= S - 2,
         m_wrIdx' = Succ(m_wrIdx), m_rdIdx' = m_rdIdx
  PROVE  Held' = Held + 1
<1>1. S \in Nat /\ S > 1 /\ m_rdIdx \in 0..S-1 /\ m_wrIdx \in 0..S-1
  BY DEF RingAssumption, TypeOK, Idx
<1>2. m_wrIdx' \in 0..S-1 /\ m_wrIdx' = IF m_wrIdx = S - 1 THEN 0 ELSE m_wrIdx + 1
  BY <1>1, SuccStep DEF Idx
<1> QED BY <1>1, <1>2 DEF Held

\* When the consumer's index moves on there is one less, and the items start
\* one slot further on.
LEMMA HeldLess ==
  ASSUME RingAssumption, TypeOK, Held >= 1,
         m_rdIdx' = Succ(m_rdIdx), m_wrIdx' = m_wrIdx
  PROVE  /\ Held' = Held - 1
         /\ \A k \in 1..Held-1 : Slot(k)' = Slot(k + 1)
<1>1. S \in Nat /\ S > 1 /\ m_rdIdx \in 0..S-1 /\ m_wrIdx \in 0..S-1
  BY DEF RingAssumption, TypeOK, Idx
<1>2. m_rdIdx' \in 0..S-1 /\ m_rdIdx' = IF m_rdIdx = S - 1 THEN 0 ELSE m_rdIdx + 1
  BY <1>1, SuccStep DEF Idx
<1>3. Held' = Held - 1
  BY <1>1, <1>2 DEF Held
<1>4. ASSUME NEW k \in 1..Held-1 PROVE Slot(k)' = Slot(k + 1)
  <2>1. Held \in 0..S-1
    BY HeldType
  <2>2. k - 1 \in 0..S-1 /\ k \in 0..S-1
    BY <1>1, <2>1
  <2>3. (m_rdIdx' + (k - 1)) % S = IF m_rdIdx' + (k - 1) < S THEN m_rdIdx' + (k - 1)
                                   ELSE m_rdIdx' + (k - 1) - S
    BY <1>2, <2>2, RingStep DEF Idx
  <2>4. (m_rdIdx + k) % S = IF m_rdIdx + k < S THEN m_rdIdx + k ELSE m_rdIdx + k - S
    BY <1>1, <2>2, RingStep DEF Idx
  <2>5. Slot(k)' = (m_rdIdx' + (k - 1)) % S
    BY <1>1, <1>2 DEF Slot
  <2>6. Slot(k + 1) = (m_rdIdx + k) % S
    BY <1>1 DEF Slot
  <2> QED BY <1>1, <1>2, <2>2, <2>3, <2>4, <2>5, <2>6
<1> QED BY <1>3, <1>4

\* The ring starts empty and the count right.
LEMMA InitIInv == RingAssumption /\ Init => IInv
<1> SUFFICES ASSUME RingAssumption, Init PROVE IInv
  OBVIOUS
<1>1. S \in Nat /\ S > 1 /\ CntMod \in Nat /\ CntMod > 4 * S
  BY DEF RingAssumption
<1>2. TypeOK
  BY <1>1 DEF Init, TypeOK, Idx
<1>3. ProducerInv /\ ConsumerInv
  BY <1>1 DEF Init, ProducerInv, ConsumerInv
<1>4. CountInv
  <2>1. Held = 0 /\ cLag = 0 /\ pLag = 0 /\ m_Cnt = 0
    BY DEF Init, Held, cLag, pLag
  <2>2. 0 % CntMod = 0 /\ 0 + 0 - 0 = 0
    BY <1>1
  <2> QED BY <2>1, <2>2 DEF CountInv
<1> QED BY <1>2, <1>3, <1>4 DEF IInv

\* A call of the producer begins when there is room for all of it.
LEMMA ProducerBegins ==
  ASSUME RingAssumption, IInv, Push \/ PushN
  PROVE  IInv'
<1>1. S \in Nat /\ S > 1
  BY DEF RingAssumption
<1>2. UNCHANGED <<ring, consumer>> /\ pPc = "idle" /\ pPc' = "store" /\ pLeft' = pNum'
  BY DEF Push, PushN
<1>3. Held' = Held /\ cLag' = cLag /\ pLag = 0
  BY <1>2 DEF ring, consumer, Held, cLag, pLag
<1>4. pNum' \in 1..(S - 1 - Held)
  <2>1. CASE Push
    BY <1>1, <2>1, HeldType DEF Push, IInv
  <2>2. CASE PushN
    BY <1>1, <1>3, <2>2, HeldType, SizeIs DEF PushN, IInv, Space
  <2> QED BY <2>1, <2>2
<1>5. pNum' \in 1..S-1
  BY <1>1, <1>4, HeldType DEF IInv
<1>6. TypeOK'
  BY <1>1, <1>2, <1>5 DEF IInv, TypeOK, ring, consumer
<1>7. ProducerInv'
  BY <1>1, <1>2, <1>3, <1>4, <1>5 DEF ProducerInv
<1>8. ConsumerInv'
  BY <1>2, <1>3 DEF IInv, ConsumerInv, Slot, ring, consumer
<1>9. pLag' = 0
  <2>1. pPc' # "idle" /\ pNum' \in Int /\ pLeft' \in Int /\ pLeft' = pNum'
    BY <1>1, <1>2, <1>5
  <2>2. \A x, y \in Int : x = y => x - y = 0
    OBVIOUS
  <2>3. pNum' - pLeft' = 0
    BY <2>1, <2>2
  <2> QED BY <2>1, <2>3 DEF pLag
<1>10. CountInv'
  BY <1>2, <1>3, <1>9 DEF IInv, CountInv, ring
<1> QED BY <1>6, <1>7, <1>8, <1>10 DEF IInv

\* The producer fills a slot no item is in.
LEMMA ProducerStores ==
  ASSUME RingAssumption, IInv, StoreItem
  PROVE  IInv' /\ \A k \in 1..Held : m_que'[Slot(k)] = m_que[Slot(k)]
<1>1. UNCHANGED <<m_Cnt, m_wrIdx, m_rdIdx, pNum, pLeft, consumer>>
      /\ pPc = "store" /\ pPc' = "index"
  BY DEF StoreItem
<1>2. Held' = Held /\ cLag' = cLag /\ pLag' = pLag
  BY <1>1 DEF consumer, Held, cLag, pLag
<1>3. PICK v \in Val : m_que' = [m_que EXCEPT ![m_wrIdx] = v]
  BY DEF StoreItem
<1>4. \A k \in 1..Held : m_que'[Slot(k)] = m_que[Slot(k)]
  BY <1>3, HeldType DEF IInv, TypeOK
<1>5. TypeOK'
  BY <1>1, <1>3 DEF IInv, TypeOK, consumer
<1>6. ProducerInv'
  BY <1>1, <1>2 DEF IInv, ProducerInv
<1>7. ConsumerInv'
  <2>1. \A k \in 1..Len(cItem) : k \in 1..Held
    BY HeldType DEF IInv, ConsumerInv, TypeOK
  <2>2. \A k : Slot(k)' = Slot(k)
    BY <1>1 DEF Slot
  <2>3. \A k \in 1..Len(cItem) : cItem'[k] = m_que'[Slot(k)']
    BY <1>1, <1>4, <2>1, <2>2 DEF IInv, ConsumerInv, consumer
  <2> QED BY <1>1, <1>2, <2>3 DEF IInv, ConsumerInv, consumer
<1>8. CountInv'
  BY <1>1, <1>2 DEF IInv, CountInv
<1> QED BY <1>4, <1>5, <1>6, <1>7, <1>8 DEF IInv

\* The producer's index moves on: an item is in the ring that is not counted.
LEMMA ProducerAdvances ==
  ASSUME RingAssumption, IInv, AdvanceWr
  PROVE  IInv' /\ Held' = Held + 1
<1>1. S \in Nat /\ S > 1 /\ m_wrIdx \in Idx /\ Held \in 0..S-1
  BY HeldType DEF RingAssumption, IInv, TypeOK
<1>2. UNCHANGED <<m_que, m_Cnt, m_rdIdx, pNum, consumer>>
      /\ m_wrIdx' = Succ(m_wrIdx) /\ pPc = "index" /\ pLeft' = pLeft - 1
      /\ pPc' = IF pLeft = 1 THEN "count" ELSE "store"
  BY DEF AdvanceWr
<1>3. pLeft \in 1..pNum /\ pLeft <= S - 1 - Held /\ pNum \in 0..S
  BY <1>2 DEF IInv, ProducerInv, TypeOK
<1>4. Held <= S - 2
  BY <1>1, <1>3
<1>5. Held' = Held + 1
  BY <1>2, <1>4, HeldMore DEF IInv
<1>6. cLag' = cLag /\ pLag' = pLag + 1 /\ cLag \in 0..S-1 /\ pLag \in 0..S-1
  BY <1>2, <1>3, SizeIs DEF cLag, pLag, consumer
<1>7. TypeOK'
  BY <1>1, <1>2, <1>3, SuccStep DEF IInv, TypeOK, consumer
<1>8. ProducerInv'
  BY <1>1, <1>2, <1>3, <1>5 DEF IInv, ProducerInv
<1>9. ConsumerInv'
  <2>1. \A k : Slot(k)' = Slot(k)
    BY <1>2 DEF Slot
  <2>2. Len(cItem) \in Nat /\ cNum \in 0..S
    BY DEF IInv, TypeOK
  <2> QED BY <1>1, <1>2, <1>5, <2>1, <2>2 DEF IInv, ConsumerInv, consumer
<1>10. CountInv'
  <2>1. Held' + cLag' - pLag' = Held + cLag - pLag
    BY <1>1, <1>5, <1>6
  <2> QED BY <1>2, <2>1 DEF IInv, CountInv
<1> QED BY <1>5, <1>7, <1>8, <1>9, <1>10 DEF IInv

\* The producer counts what it has put in.
LEMMA ProducerCounts ==
  ASSUME RingAssumption, IInv, AddCnt
  PROVE  IInv' /\ Held' = Held
<1>1. S \in Nat /\ S > 1 /\ CntMod \in Nat /\ CntMod > 4 * S /\ Held \in 0..S-1
  BY HeldType DEF RingAssumption, IInv
<1>2. UNCHANGED <<m_que, m_wrIdx, m_rdIdx, pNum, pLeft, consumer>>
      /\ pPc = "count" /\ pPc' = "idle" /\ m_Cnt' = (m_Cnt + pNum) % CntMod
  BY DEF AddCnt
<1>3. Held' = Held /\ cLag' = cLag
  BY <1>2 DEF Held, cLag, consumer
<1>4. pLag = pNum /\ pLag' = 0 /\ pNum \in 0..S
  BY <1>2 DEF IInv, TypeOK, ProducerInv, pLag
<1>5. cLag \in 0..S-1
  BY SizeIs
<1>6. CountInv'
  <2> DEFINE d == Held + cLag - pLag
  <2>1. d \in Int /\ pNum \in Int
    BY <1>1, <1>4, <1>5
  <2>4. m_Cnt' = ((d % CntMod) + pNum) % CntMod
    BY <1>2 DEF IInv, CountInv
  <2>2. m_Cnt' = (d + pNum) % CntMod
    <3> HIDE DEF d
    <3>1. CntMod \in Nat /\ CntMod > 0
      BY <1>1
    <3>2. ((d % CntMod) + pNum) % CntMod = (d + pNum) % CntMod
      BY <3>1, <2>1, WrapSum
    <3> QED BY <3>2, <2>4
  <2>3. Held + cLag - pLag + pNum = Held' + cLag' - pLag'
    BY <1>1, <1>3, <1>4, <1>5
  <2> QED BY <2>2, <2>3 DEF CountInv
<1>7. TypeOK'
  <2>1. m_Cnt' \in 0..CntMod-1
    BY <1>1, <1>2, <1>4 DEF IInv, TypeOK
  <2> QED BY <1>2, <2>1 DEF IInv, TypeOK, consumer
<1>8. ProducerInv'
  BY <1>2, <1>3 DEF IInv, ProducerInv
<1>9. ConsumerInv'
  <2>1. \A k : Slot(k)' = Slot(k)
    BY <1>2 DEF Slot
  <2> QED BY <1>2, <1>3, <2>1 DEF IInv, ConsumerInv, consumer
<1> QED BY <1>3, <1>6, <1>7, <1>8, <1>9 DEF IInv

\* A call of the consumer begins when there are items for all of it.
LEMMA ConsumerBegins ==
  ASSUME RingAssumption, IInv, Front \/ FrontN
  PROVE  IInv'
<1>1. S \in Nat /\ S > 1 /\ Held \in 0..S-1
  BY HeldType DEF RingAssumption, IInv
<1>2. UNCHANGED <<ring, producer, cItem, out>> /\ cPc = "idle" /\ cPc' = "read"
  BY DEF Front, FrontN
<1>3. Held' = Held /\ pLag' = pLag /\ cLag = 0 /\ cLag' = 0
  BY <1>2 DEF ring, producer, Held, cLag, pLag
<1>4. cNum' \in 1..Held
  <2>1. CASE Front
    BY <1>1, <2>1, HeldType DEF Front, IInv
  <2>2. CASE FrontN
    BY <1>1, <1>3, <2>2, SizeIs DEF FrontN
  <2> QED BY <2>1, <2>2
<1>5. cItem = <<>>
  BY <1>2 DEF IInv, ConsumerInv
<1>6. TypeOK'
  BY <1>1, <1>2, <1>4 DEF IInv, TypeOK, ring, producer
<1>7. ProducerInv'
  BY <1>2, <1>3 DEF IInv, ProducerInv, producer
<1>8. ConsumerInv'
  BY <1>1, <1>2, <1>3, <1>4, <1>5 DEF ConsumerInv
<1>9. CountInv'
  BY <1>2, <1>3 DEF IInv, CountInv, ring
<1> QED BY <1>6, <1>7, <1>8, <1>9 DEF IInv

\* The consumer reads the next item of those in the ring.
LEMMA ConsumerReads ==
  ASSUME RingAssumption, IInv, ReadItem
  PROVE  IInv'
<1>1. S \in Nat /\ S > 1 /\ Held \in 0..S-1 /\ m_rdIdx \in 0..S-1
  BY HeldType DEF RingAssumption, IInv, TypeOK, Idx
<1> DEFINE n == Len(cItem)
           x == m_que[(m_rdIdx + n) % S]
<1>2. /\ UNCHANGED <<ring, producer, cNum, out>> /\ cPc = "read"
      /\ cItem' = Append(cItem, x) /\ cPc' = IF n + 1 = cNum THEN "index" ELSE "read"
  BY DEF ReadItem
<1>3. n \in Nat /\ n < cNum /\ cNum <= Held /\ cNum \in 0..S /\ cItem \in Seq(Val)
  BY <1>2 DEF IInv, ConsumerInv, TypeOK
<1>4. Slot(n + 1) = (m_rdIdx + n) % S
  BY <1>1, <1>3 DEF Slot
<1>5. n + 1 \in 1..Held
  BY <1>1, <1>3
<1>6. x \in Val
  BY <1>4, <1>5, HeldType DEF IInv, TypeOK
<1>7. cItem' \in Seq(Val) /\ Len(cItem') = n + 1
      /\ \A k \in 1..n+1 : cItem'[k] = IF k = n + 1 THEN x ELSE cItem[k]
  <2> HIDE DEF x
  <2> QED BY <1>2, <1>3, <1>6
<1>8. Held' = Held /\ pLag' = pLag /\ cLag = 0 /\ cLag' = 0
  BY <1>2, <1>3, <1>7 DEF ring, producer, Held, cLag, pLag
<1>9. TypeOK'
  BY <1>2, <1>7 DEF IInv, TypeOK, ring, producer
<1>10. ProducerInv'
  BY <1>2, <1>8 DEF IInv, ProducerInv, producer
<1>11. ConsumerInv'
  <2>1. \A k : Slot(k)' = Slot(k)
    BY <1>2 DEF Slot, ring
  <2>2. \A k \in 1..Len(cItem') : cItem'[k] = m_que'[Slot(k)']
    <3>1. \A k \in 1..n : cItem[k] = m_que[Slot(k)]
      BY DEF IInv, ConsumerInv
    <3> QED BY <1>2, <1>3, <1>4, <1>7, <2>1, <3>1 DEF ring
  <2>3. /\ cNum' <= S - 1
        /\ cPc' = "read" => n + 1 < cNum /\ cNum <= Held
        /\ cPc' = "index" => n + 1 \in 1..cNum /\ n + 1 <= Held
        /\ cPc' \notin {"idle", "count"}
    BY <1>1, <1>2, <1>3
  <2> QED BY <1>2, <1>7, <1>8, <2>2, <2>3 DEF ConsumerInv
<1>12. CountInv'
  BY <1>2, <1>8 DEF IInv, CountInv, ring
<1> QED BY <1>9, <1>10, <1>11, <1>12 DEF IInv

\* The consumer's index moves on: the first item, which the consumer has read,
\* is out of the ring.
LEMMA ConsumerAdvances ==
  ASSUME RingAssumption, IInv, AdvanceRd
  PROVE  /\ IInv' /\ Held >= 1 /\ Held' = Held - 1
         /\ out' = m_que[Slot(1)] /\ m_que' = m_que
         /\ \A k \in 1..Held-1 : Slot(k)' = Slot(k + 1)
<1>1. S \in Nat /\ S > 1 /\ Held \in 0..S-1 /\ m_rdIdx \in Idx
  BY HeldType DEF RingAssumption, IInv, TypeOK
<1>2. /\ UNCHANGED <<m_que, m_Cnt, m_wrIdx, producer, cNum>> /\ cPc = "index"
      /\ m_rdIdx' = Succ(m_rdIdx) /\ out' = Head(cItem) /\ cItem' = Tail(cItem)
      /\ cPc' = IF Len(cItem) = 1 THEN "count" ELSE "index"
  BY DEF AdvanceRd
<1>3. /\ Len(cItem) \in 1..cNum /\ Len(cItem) <= Held /\ cNum \in 0..S-1
      /\ cItem \in Seq(Val) /\ \A k \in 1..Len(cItem) : cItem[k] = m_que[Slot(k)]
  BY <1>1, <1>2 DEF IInv, ConsumerInv, TypeOK
<1>4. Held >= 1
  BY <1>1, <1>3
<1>5. Held' = Held - 1 /\ \A k \in 1..Held-1 : Slot(k)' = Slot(k + 1)
  BY <1>2, <1>4, HeldLess DEF IInv
<1>6. /\ Tail(cItem) \in Seq(Val) /\ Len(Tail(cItem)) = Len(cItem) - 1
      /\ \A k \in 1..Len(cItem)-1 : Tail(cItem)[k] = cItem[k + 1]
      /\ Head(cItem) = cItem[1] /\ cItem[1] \in Val
  BY <1>3
<1>7. out' = m_que[Slot(1)]
  BY <1>2, <1>3, <1>6
<1>8. Len(cItem) = 1 => Tail(cItem) = <<>>
  <2>1. ASSUME Len(cItem) = 1 PROVE Len(Tail(cItem)) = 0
    BY <1>6, <2>1
  <2>2. \A s \in Seq(Val) : Len(s) = 0 => s = <<>>
    BY EmptySeq
  <2> QED BY <1>6, <2>1, <2>2
<1>9. TypeOK'
  BY <1>1, <1>2, <1>6, SuccStep DEF IInv, TypeOK, producer
<1>10. ProducerInv'
  BY <1>1, <1>2, <1>5 DEF IInv, ProducerInv, TypeOK, producer
<1>11. ConsumerInv'
  <2>1. \A k \in 1..Len(cItem') : cItem'[k] = m_que'[Slot(k)']
    <3>1. \A k \in 1..Len(cItem)-1 : k \in 1..Held-1 /\ k + 1 \in 1..Len(cItem)
      BY <1>1, <1>3
    <3> QED BY <1>2, <1>3, <1>5, <1>6, <3>1
  <2>2. /\ cNum' <= S - 1
        /\ cPc' = "count" => cItem' = <<>>
        /\ cPc' = "index" => Len(cItem') \in 1..cNum' /\ Len(cItem') <= Held'
        /\ cPc' \in {"count", "index"}
    BY <1>1, <1>2, <1>3, <1>5, <1>6, <1>8
  <2> QED BY <2>1, <2>2 DEF ConsumerInv
<1>12. CountInv'
  <2>1. cLag' = cLag + 1 /\ pLag' = pLag
    BY <1>2, <1>3, <1>6, SMTT(30) DEF cLag, pLag, producer
  <2>2. Held' + cLag' - pLag' = Held + cLag - pLag
    BY <1>1, <1>5, <2>1, SizeIs
  <2> QED BY <1>2, <2>2 DEF IInv, CountInv
<1> QED BY <1>2, <1>4, <1>5, <1>7, <1>9, <1>10, <1>11, <1>12 DEF IInv

\* The consumer counts what it has taken out.
LEMMA ConsumerCounts ==
  ASSUME RingAssumption, IInv, SubCnt
  PROVE  IInv' /\ Held' = Held
<1>1. S \in Nat /\ S > 1 /\ CntMod \in Nat /\ CntMod > 4 * S /\ Held \in 0..S-1
  BY HeldType DEF RingAssumption, IInv
<1>2. UNCHANGED <<m_que, m_wrIdx, m_rdIdx, producer, cNum, cItem, out>>
      /\ cPc = "count" /\ cPc' = "idle" /\ m_Cnt' = (m_Cnt - cNum) % CntMod
  BY DEF SubCnt
<1>3. Held' = Held /\ pLag' = pLag
  BY <1>2 DEF Held, pLag, producer
<1>4. cLag = cNum /\ cLag' = 0 /\ cNum \in 0..S
  BY <1>2 DEF IInv, TypeOK, cLag
<1>5. pLag \in 0..S-1
  BY SizeIs
<1>6. CountInv'
  <2> DEFINE d == Held + cLag - pLag
             e == 0 - cNum
  <2>1. d \in Int /\ e \in Int /\ m_Cnt \in Int
    BY <1>1, <1>4, <1>5 DEF IInv, TypeOK
  <2>2. m_Cnt' = (m_Cnt + e) % CntMod /\ m_Cnt = d % CntMod
    BY <1>1, <1>2, <1>4, <2>1 DEF IInv, CountInv
  <2>3. d + e = Held' + cLag' - pLag'
    BY <1>1, <1>3, <1>4, <1>5
  <2> HIDE DEF d, e
  <2>5. CntMod \in Nat /\ CntMod > 0
    BY <1>1
  <2>4. ((d % CntMod) + e) % CntMod = (d + e) % CntMod
    BY <2>1, <2>5, WrapSum
  <2> QED BY <2>2, <2>3, <2>4 DEF CountInv
<1>7. TypeOK'
  <2>1. m_Cnt' \in 0..CntMod-1
    BY <1>1, <1>2, <1>4 DEF IInv, TypeOK
  <2> QED BY <1>2, <2>1 DEF IInv, TypeOK, producer
<1>8. ProducerInv'
  BY <1>2, <1>3 DEF IInv, ProducerInv, producer
<1>9. ConsumerInv'
  <2>1. \A k : Slot(k)' = Slot(k)
    BY <1>2 DEF Slot
  <2> QED BY <1>2, <1>3, <2>1 DEF IInv, ConsumerInv
<1> QED BY <1>3, <1>6, <1>7, <1>8, <1>9 DEF IInv

\* Every step keeps the invariant.
LEMMA NextIInv == RingAssumption /\ IInv /\ [Next]_vars => IInv'
<1> SUFFICES ASSUME RingAssumption, IInv, [Next]_vars PROVE IInv'
  OBVIOUS
<1>1. CASE UNCHANGED vars
  <2>1. UNCHANGED <<ring, producer, consumer>>
    BY <1>1 DEF vars
  <2>2. \A k : Slot(k)' = Slot(k)
    BY <2>1 DEF Slot, ring
  <2> QED BY <2>1, <2>2
      DEF ring, producer, consumer, IInv, TypeOK, ProducerInv, ConsumerInv,
          CountInv, Held, cLag, pLag
<1> QED
  BY <1>1, ProducerBegins, ProducerStores, ProducerAdvances, ProducerCounts,
     ConsumerBegins, ConsumerReads, ConsumerAdvances, ConsumerCounts
  DEF Next, Producer, Consumer

\* The inductive invariant holds in every state: room and items are there for
\* the calls in progress, and the count is right but for the two lags.
THEOREM Invariance == Spec => []IInv
<1>1. Init => IInv
  BY RingAssumption, InitIInv
<1>2. IInv /\ [Next]_vars => IInv'
  BY RingAssumption, NextIInv
<1> QED BY <1>1, <1>2, PTL DEF Spec

\* Both indices stay in the ring and m_Cnt in its width, for every size.
THEOREM TypeCorrect == Spec => []TypeOK
<1>1. IInv => TypeOK
  BY DEF IInv
<1> QED BY <1>1, Invariance, PTL

\* Size and Space, read between two calls while the other thread may be
\* anywhere in its own, never promise items or room that is not there.
THEOREM CountSafe == Spec => []NeverOverReports
<1>1. IInv => NeverOverReports
  <2> SUFFICES ASSUME IInv PROVE NeverOverReports
    OBVIOUS
  <2>1. S \in Nat /\ Held \in 0..S-1
    BY RingAssumption, HeldType DEF RingAssumption, IInv
  <2>2. Size = Held + cLag - pLag /\ cLag \in 0..S-1 /\ pLag \in 0..S-1
    BY RingAssumption, SizeIs
  <2>3. pPc = "idle" => pLag = 0
    BY DEF pLag
  <2>4. cPc = "idle" => cLag = 0
    BY DEF cLag
  <2> QED BY <2>1, <2>2, <2>3, <2>4 DEF NeverOverReports, Space
<1> QED BY <1>1, Invariance, PTL

\* With neither thread inside a call Size is exact.
THEOREM CountExact == Spec => []CountSettles
<1>1. IInv => CountSettles
  <2> SUFFICES ASSUME IInv, pPc = "idle", cPc = "idle" PROVE Size = Held
    BY DEF CountSettles
  <2>1. Held \in Int
    BY RingAssumption, HeldType DEF RingAssumption, IInv
  <2>2. Size = Held + cLag - pLag
    BY RingAssumption, SizeIs
  <2>3. pLag = 0 /\ cLag = 0
    BY DEF pLag, cLag
  <2> QED BY <2>1, <2>2, <2>3
<1> QED BY <1>1, Invariance, PTL

----------------------------------------------------------------------------
\* The items in the ring are a sequence, one for each slot held.
LEMMA ItemsType ==
  ASSUME RingAssumption, TypeOK
  PROVE  /\ Items \in Seq(Val) /\ Len(Items) = Held
         /\ \A k \in 1..Held : Items[k] = m_que[Slot(k)]
<1>1. Held \in Nat /\ \A k \in 1..Held : m_que[Slot(k)] \in Val
  BY HeldType DEF TypeOK, RingAssumption
<1>2. Items = [k \in 1..Held |-> m_que[Slot(k)]]
  BY DEF Items, Slot
<1> QED BY <1>1, <1>2

\* The producer's index step is the Put of the item it stored.
LEMMA AdvanceWrPuts ==
  ASSUME RingAssumption, IInv, AdvanceWr
  PROVE  Fifo!Put(m_que[m_wrIdx]) /\ m_que[m_wrIdx] \in Val
<1>1. S \in Nat /\ S > 1 /\ Held \in 0..S-1 /\ m_rdIdx \in 0..S-1 /\ m_wrIdx \in 0..S-1
  BY HeldType DEF RingAssumption, IInv, TypeOK, Idx
<1>2. IInv' /\ Held' = Held + 1 /\ m_que' = m_que /\ m_rdIdx' = m_rdIdx /\ out' = out
  BY ProducerAdvances DEF AdvanceWr, consumer
<1>3. Held < S - 1
  BY <1>1, <1>2, HeldType DEF IInv, AdvanceWr, ProducerInv, TypeOK
<1>4. Slot(Held + 1) = m_wrIdx
  <2>1. Slot(Held + 1) = (m_rdIdx + Held) % S
    BY <1>1 DEF Slot
  <2>2. (m_rdIdx + Held) % S = IF m_rdIdx + Held < S THEN m_rdIdx + Held
                               ELSE m_rdIdx + Held - S
    BY <1>1, RingStep DEF Idx
  <2> QED BY <1>1, <2>1, <2>2 DEF Held
<1>5. m_que[m_wrIdx] \in Val
  BY DEF IInv, TypeOK
<1>6. /\ Items \in Seq(Val) /\ Len(Items) = Held
      /\ \A k \in 1..Held : Items[k] = m_que[Slot(k)]
  BY ItemsType DEF IInv
<1>7. Items' = [k \in 1..Held+1 |-> m_que[Slot(k)]]
  BY <1>2 DEF Items, Slot
<1>8. Append(Items, m_que[m_wrIdx]) = [k \in 1..Held+1 |-> m_que[Slot(k)]]
  <2> DEFINE a == Append(Items, m_que[m_wrIdx])
  <2>1. /\ a \in Seq(Val) /\ Len(a) = Held + 1
        /\ \A k \in 1..Held : a[k] = Items[k]
        /\ a[Held + 1] = m_que[m_wrIdx]
    BY <1>1, <1>5, <1>6, AppendProperties
  <2> HIDE DEF a
  <2>2. a = [k \in 1..Held+1 |-> a[k]]
    BY <2>1
  <2>3. \A k \in 1..Held+1 : a[k] = m_que[Slot(k)]
    BY <1>1, <1>4, <1>6, <2>1
  <2> QED BY <2>2, <2>3 DEF a
<1> QED BY <1>2, <1>3, <1>5, <1>6, <1>7, <1>8 DEF Fifo!Put

\* The tail of a sequence, element by element.
LEMMA TailIs ==
  ASSUME NEW s \in Seq(Val), s # <<>>
  PROVE  Tail(s) = [k \in 1..Len(s)-1 |-> s[k + 1]]
<1>1. /\ Tail(s) \in Seq(Val) /\ Len(Tail(s)) = Len(s) - 1
      /\ \A k \in 1..Len(s)-1 : Tail(s)[k] = s[k + 1]
  BY HeadTailProperties
<1> DEFINE t == Tail(s)
           n == Len(s) - 1
<1>2. t \in Seq(Val) /\ Len(t) = n /\ \A k \in 1..n : t[k] = s[k + 1]
  BY <1>1
<1> HIDE DEF t, n
<1>3. t = [k \in 1..n |-> t[k]]
  BY <1>2
<1>4. t = [k \in 1..n |-> s[k + 1]]
  BY <1>2, <1>3
<1> QED BY <1>4 DEF t, n

\* The consumer's index step is the Take of the item it read.
LEMMA AdvanceRdTakes ==
  ASSUME RingAssumption, IInv, AdvanceRd
  PROVE  Fifo!Take
<1>1. /\ IInv' /\ Held >= 1 /\ Held' = Held - 1 /\ Held \in 0..S-1
      /\ out' = m_que[Slot(1)] /\ m_que' = m_que
      /\ \A k \in 1..Held-1 : Slot(k)' = Slot(k + 1)
  BY ConsumerAdvances, HeldType DEF IInv
<1>2. /\ Items \in Seq(Val) /\ Len(Items) = Held
      /\ \A k \in 1..Held : Items[k] = m_que[Slot(k)]
  BY ItemsType DEF IInv
<1>3. S \in Nat
  BY DEF RingAssumption
<1>4. Items # <<>> /\ Head(Items) = Items[1]
  BY <1>1, <1>2, <1>3
<1>5. Items' = [k \in 1..Held-1 |-> m_que[Slot(k + 1)]]
  <2>1. Items' = [k \in 1..Held' |-> m_que'[Slot(k)']]
    BY DEF Items, Slot
  <2> QED BY <1>1, <2>1
<1>6. Tail(Items) = [k \in 1..Held-1 |-> m_que[Slot(k + 1)]]
  <2>1. Tail(Items) = [k \in 1..Held-1 |-> Items[k + 1]]
    BY <1>1, <1>2, <1>3, <1>4, TailIs
  <2>2. \A k \in 1..Held-1 : Items[k + 1] = m_que[Slot(k + 1)]
    BY <1>1, <1>2, <1>3
  <2> QED BY <2>1, <2>2
<1> QED BY <1>1, <1>2, <1>3, <1>4, <1>5, <1>6 DEF Fifo!Take

\* Every other step leaves the items and the item taken last alone.
LEMMA OthersStutter ==
  ASSUME RingAssumption, IInv, [Next]_vars, ~AdvanceWr, ~AdvanceRd
  PROVE  UNCHANGED <<Items, out>>
<1>1. UNCHANGED <<m_wrIdx, m_rdIdx, out>> /\ (m_que' = m_que \/ StoreItem)
  BY DEF Next, Producer, Consumer, vars, ring, producer, consumer,
         Push, PushN, StoreItem, AddCnt, Front, FrontN, ReadItem, SubCnt
<1>2. Held' = Held /\ \A k \in 1..Held : Slot(k)' = Slot(k)
  BY <1>1 DEF Held, Slot
<1>3. \A k \in 1..Held : m_que'[Slot(k)] = m_que[Slot(k)]
  BY <1>1, ProducerStores
<1>4. Items = [k \in 1..Held |-> m_que[Slot(k)]]
      /\ Items' = [k \in 1..Held' |-> m_que'[Slot(k)']]
  BY DEF Items, Slot
<1> QED BY <1>1, <1>2, <1>3, <1>4

\* The ring is a queue of S - 1 items, for every S: single items and batches
\* come out once each and in order, whatever the two threads interleave.
THEOREM FifoCorrect == Spec => ImplementsFifo
<1>1. Init => Fifo!Init
  <2> SUFFICES ASSUME Init PROVE Fifo!Init
    OBVIOUS
  <2>1. IInv /\ Held = 0 /\ out \in Val
    BY RingAssumption, InitIInv DEF Init, Held
  <2>2. Items \in Seq(Val) /\ Len(Items) = 0
    BY <2>1, RingAssumption, ItemsType DEF IInv
  <2>3. Items = <<>>
    BY <2>2, EmptySeq
  <2> QED BY <2>1, <2>3 DEF Fifo!Init
<1>2. IInv /\ [Next]_vars => [Fifo!Next]_(Fifo!fifoVars)
  BY RingAssumption, AdvanceWrPuts, AdvanceRdTakes, OthersStutter
  DEF Fifo!Next, Fifo!fifoVars
<1> QED BY <1>1, <1>2, Invariance, PTL DEF Spec, ImplementsFifo, Fifo!Spec
=============================================================================
