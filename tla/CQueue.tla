------------------------------- MODULE CQueue -------------------------------
(***************************************************************************)
(* The "thread safe queue - fixed size" of HtPlatform.h: a ring of S slots *)
(* between a producer and a consumer thread, without a lock.  Each index   *)
(* is written by one thread only; m_Cnt is updated atomically by both, but *)
(* after the index, so it lags behind: between a consumer's Pop and a      *)
(* producer's Push it can even be -1, which is 2^32 - 1 in the unsigned    *)
(* m_Cnt and -1 again in the int that Size returns.                        *)
(*                                                                         *)
(* Push and Pop check the indices themselves; for PushN and PopN it is the *)
(* caller who asks Space, or Size, first (SpaceN never says more).         *)
(***************************************************************************)
EXTENDS Integers, Sequences

CONSTANTS
  S,          \* slots of the ring
  Val,        \* the items
  CntMod      \* m_Cnt wraps around here (2^32)

ASSUME RingAssumption ==
  /\ S \in Nat /\ S > 1
  /\ CntMod \in Nat /\ CntMod > 4 * S

VARIABLES
  m_que, m_Cnt, m_wrIdx, m_rdIdx,
  pPc, pNum, pLeft,   \* producer: where it is, the items of this call, still to do
  cPc, cNum, cItem,   \* consumer: where it is, the items of this call, those read
  out                 \* the item popped last

ring     == <<m_que, m_Cnt, m_wrIdx, m_rdIdx>>
producer == <<pPc, pNum, pLeft>>
consumer == <<cPc, cNum, cItem, out>>
vars     == <<ring, producer, consumer>>

Idx == 0..S-1
Succ(i) == (i + 1) % S

\* int Size(): the unsigned count as an int.
Size  == IF m_Cnt < CntMod \div 2 THEN m_Cnt ELSE m_Cnt - CntMod
Space == S - 1 - Size

IsEmpty == m_rdIdx = m_wrIdx
IsFull  == Succ(m_wrIdx) = m_rdIdx

Init ==
  /\ m_que \in [Idx -> Val] /\ m_Cnt = 0 /\ m_wrIdx = 0 /\ m_rdIdx = 0
  /\ pPc = "idle" /\ pNum = 0 /\ pLeft = 0
  /\ cPc = "idle" /\ cNum = 0 /\ cItem = <<>>
  /\ out \in Val

----------------------------------------------------------------------------
\* The producer.

\* Mutant of Push: room is taken from the count alone.
Push_ByCount ==
  /\ pPc = "idle" /\ Size < S
  /\ pPc' = "store" /\ pNum' = 1 /\ pLeft' = 1
  /\ UNCHANGED <<ring, consumer>>

\* Push waits while the ring is full; nothing is written before.
Push ==
  /\ pPc = "idle" /\ ~IsFull
  /\ pPc' = "store" /\ pNum' = 1 /\ pLeft' = 1
  /\ UNCHANGED <<ring, consumer>>

\* PushN of what Space said there is room for.
PushN ==
  /\ pPc = "idle"
  /\ \E n \in 1..S : n <= Space /\ pNum' = n /\ pLeft' = n
  /\ pPc' = "store"
  /\ UNCHANGED <<ring, consumer>>

StoreItem ==
  /\ pPc = "store" /\ pPc' = "index"
  /\ \E v \in Val : m_que' = [m_que EXCEPT ![m_wrIdx] = v]
  /\ UNCHANGED <<m_Cnt, m_wrIdx, m_rdIdx, pNum, pLeft, consumer>>

AdvanceWr ==
  /\ pPc = "index"
  /\ m_wrIdx' = Succ(m_wrIdx) /\ pLeft' = pLeft - 1
  /\ pPc' = IF pLeft = 1 THEN "count" ELSE "store"
  /\ UNCHANGED <<m_que, m_Cnt, m_rdIdx, pNum, consumer>>

\* Mutants of AddCnt: the count does not wrap; it takes one for the call.
AddCnt_NoWrap ==
  /\ pPc = "count" /\ pPc' = "idle"
  /\ m_Cnt' = m_Cnt + pNum
  /\ UNCHANGED <<m_que, m_wrIdx, m_rdIdx, pNum, pLeft, consumer>>
AddCnt_One ==
  /\ pPc = "count" /\ pPc' = "idle"
  /\ m_Cnt' = (m_Cnt + 1) % CntMod
  /\ UNCHANGED <<m_que, m_wrIdx, m_rdIdx, pNum, pLeft, consumer>>

AddCnt ==
  /\ pPc = "count" /\ pPc' = "idle"
  /\ m_Cnt' = (m_Cnt + pNum) % CntMod
  /\ UNCHANGED <<m_que, m_wrIdx, m_rdIdx, pNum, pLeft, consumer>>

----------------------------------------------------------------------------
\* The consumer.

\* Front waits while the ring is empty, and Pop takes what Front showed.
Front ==
  /\ cPc = "idle" /\ ~IsEmpty
  /\ cPc' = "read" /\ cNum' = 1
  /\ UNCHANGED <<ring, producer, cItem, out>>

\* FrontN and PopN of what Size said there is.
FrontN ==
  /\ cPc = "idle" /\ ~IsEmpty
  /\ \E n \in 1..S : n <= Size /\ cNum' = n
  /\ cPc' = "read"
  /\ UNCHANGED <<ring, producer, cItem, out>>

ReadItem ==
  /\ cPc = "read"
  /\ cItem' = Append(cItem, m_que[(m_rdIdx + Len(cItem)) % S])
  /\ cPc' = IF Len(cItem) + 1 = cNum THEN "index" ELSE "read"
  /\ UNCHANGED <<ring, producer, cNum, out>>

AdvanceRd ==
  /\ cPc = "index"
  /\ m_rdIdx' = Succ(m_rdIdx)
  /\ out' = Head(cItem) /\ cItem' = Tail(cItem)
  /\ cPc' = IF Len(cItem) = 1 THEN "count" ELSE "index"
  /\ UNCHANGED <<m_que, m_Cnt, m_wrIdx, producer, cNum>>

\* Mutant of SubCnt: it takes one off for the call.
SubCnt_One ==
  /\ cPc = "count" /\ cPc' = "idle"
  /\ m_Cnt' = (m_Cnt - 1) % CntMod
  /\ UNCHANGED <<m_que, m_wrIdx, m_rdIdx, producer, cNum, cItem, out>>

SubCnt ==
  /\ cPc = "count" /\ cPc' = "idle"
  /\ m_Cnt' = (m_Cnt - cNum) % CntMod
  /\ UNCHANGED <<m_que, m_wrIdx, m_rdIdx, producer, cNum, cItem, out>>

----------------------------------------------------------------------------
Producer == StoreItem \/ AdvanceWr \/ AddCnt
Consumer == Front \/ ReadItem \/ AdvanceRd \/ SubCnt

Next == Push \/ PushN \/ FrontN \/ Producer \/ Consumer

Spec == Init /\ [][Next]_vars

----------------------------------------------------------------------------
TypeOK ==
  /\ m_que \in [Idx -> Val] /\ m_Cnt \in 0..CntMod-1
  /\ m_wrIdx \in Idx /\ m_rdIdx \in Idx
  /\ pPc \in {"idle", "store", "index", "count"}
  /\ pNum \in 0..S /\ pLeft \in 0..S
  /\ cPc \in {"idle", "read", "index", "count"}
  /\ cNum \in 0..S /\ cItem \in Seq(Val) /\ out \in Val

\* Items in the ring, by the indices.
Held == IF m_rdIdx <= m_wrIdx THEN m_wrIdx - m_rdIdx
                              ELSE m_wrIdx + S - m_rdIdx

\* The producer, between two of its calls, never gets more room from Space
\* than there is, whatever the consumer is doing; nor does the consumer get
\* more items from Size than there are (the count is updated after the index:
\* Pop, PopN, Push, PushN).
NeverOverReports ==
  /\ pPc = "idle" => Space <= S - 1 - Held
  /\ cPc = "idle" => Size <= Held

\* With neither inside a call the count is exact.
CountSettles == pPc = "idle" /\ cPc = "idle" => Size = Held

\* The items in the ring, the oldest first.
Items == [k \in 1..Held |-> m_que[(m_rdIdx + k - 1) % S]]

\* The ring implements a queue of S - 1 items, though the producer fills
\* slots while the consumer empties others.
Fifo == INSTANCE BoundedFifo WITH Cap <- S - 1, q <- Items
ImplementsFifo == Fifo!Spec
=============================================================================
