--------------------------- MODULE PersOrderProofs ---------------------------
(***************************************************************************)
(* A unit in hardware takes what the host sends once and in order, for     *)
(* every number of blocks, of lines and of buffers that lines are fetched  *)
(* into, whichever way the memory orders its answers.                      *)
(* The items the host has sent lie, from the last to the first,            *)
(* - in blocks that are announced, by a message in the ring or in the      *)
(*   queue of the IBK state machine (Coming);                              *)
(* - in the block being fetched: in words not requested, requested, or in  *)
(*   a buffer (InBlock);                                                   *)
(* - in HTI's queue (Delivered).                                           *)
(* With this and the credits, the queues to HTI have room for what is      *)
(* pushed, but for three blocks without data in a row (QueuesFitCorrect),  *)
(* and all registers keep to their values (TypeCorrect).                   *)
(***************************************************************************)
EXTENDS PersUnitProofs

----------------------------------------------------------------------------
\* Numbers of words and of lines: a number and its rest.
LEMMA LineRest ==
  ASSUME NEW L \in Nat \ {0}, NEW a \in Nat
  PROVE  /\ a % L \in 0..L-1 /\ a % L <= a /\ a - (a % L) \in Nat
         /\ (a - (a % L)) % L = 0
<1>1. a % L \in 0..L-1 /\ a = L * (a \div L) + (a % L) /\ a \div L \in Nat
  BY SMTT(30)
<1> DEFINE k == a \div L
           r == a % L
<1>2. a - r = L * k + 0 /\ L * k \in Nat
  BY <1>1
<1>3. (L * k + 0) % L = 0
  <2>1. k \in Nat
    BY <1>1
  <2> HIDE DEF k
  <2> QED BY <2>1, SMTT(30)
<1> HIDE DEF k
<1> QED BY <1>1, <1>2, <1>3

\* A word of a line.
LEMMA LineWord ==
  ASSUME NEW L \in Nat \ {0}, NEW a \in Nat, a % L = 0, NEW j \in 0..L-1
  PROVE  (a + j) % L = j
BY SMTT(30)

\* The word after a word, and the line after a line.
LEMMA LineNext ==
  ASSUME NEW L \in Nat \ {0}, NEW a \in Nat
  PROVE  /\ a % L < L - 1 => (a + 1) % L = (a % L) + 1
         /\ a % L = L - 1 => (a + 1) % L = 0
         /\ a % L = 0 => (a + L) % L = 0
<1> DEFINE r == a % L
           b == a - r
<1>1. r \in 0..L-1 /\ b \in Nat /\ b % L = 0 /\ a = b + r
  <2>1. r \in 0..L-1 /\ r <= a /\ b \in Nat /\ b % L = 0
    BY LineRest
  <2> HIDE DEF r
  <2> QED BY <2>1
<1>2. ASSUME NEW c \in Nat, c % L = 0 PROVE (c + L) % L = 0
  <2>1. c = L * (c \div L) /\ c \div L \in Nat
    BY <1>2, SMTT(30)
  <2> DEFINE k == c \div L
  <2>2. k + 1 \in Nat /\ c + L = L * (k + 1) + 0
    BY <2>1
  <2>3. ASSUME NEW d \in Nat PROVE (L * d + 0) % L = 0
    BY SMTT(30)
  <2> HIDE DEF k
  <2> QED BY <2>2, <2>3
<1> HIDE DEF r, b
<1>3. r < L - 1 => (b + (r + 1)) % L = r + 1
  <2> SUFFICES ASSUME r < L - 1 PROVE (b + (r + 1)) % L = r + 1
    OBVIOUS
  <2>1. r + 1 \in 0..L-1
    BY <1>1
  <2> QED BY <1>1, <2>1, LineWord
<1>4. r = L - 1 => a + 1 = b + L
  BY <1>1
<1>5. a + 1 = b + (r + 1)
  BY <1>1
<1> QED BY <1>1, <1>2, <1>3, <1>4, <1>5 DEF r

----------------------------------------------------------------------------
\* Rings: the place i of a ring of N, when i may be one turn too far, and how
\* far place i is after place x.
Round(N, i) == IF i >= N THEN i - N ELSE i
Dist(N, x, i) == IF i < x THEN i - x + N ELSE i - x

(* The next entry of a ring of N: counting modulo N is Round, and it is another entry. *)
LEMMA RingNext ==
  ASSUME NEW N \in Nat \ {0, 1}, NEW x \in 0..N-1
  PROVE  /\ (x + 1) % N = Round(N, x + 1) /\ Round(N, x + 1) \in 0..N-1
         /\ Round(N, x + 1) # x /\ Round(N, x + N) = x
<1>1. CASE x = N - 1
  BY <1>1 DEF Round
<1>2. CASE x # N - 1
  <2>1. x + 1 \in 0..N-1
    BY <1>2
  <2>2. (x + 1) % N = x + 1
    BY <2>1
  <2> QED BY <2>1, <2>2 DEF Round
<1> QED BY <1>1, <1>2

(* How far an entry of a ring is ahead of its read index, and what a step of that index does to it. *)
LEMMA RingDist ==
  ASSUME NEW N \in Nat \ {0, 1}, NEW x \in 0..N-1
  PROVE  /\ \A i \in 0..N-1 : /\ Dist(N, x, i) \in 0..N-1 /\ Round(N, x + Dist(N, x, i)) = i
                              /\ Dist(N, x, i) = 0 <=> i = x
                              /\ Dist(N, x, i) + 1 < N =>
                                   Dist(N, x, Round(N, i + 1)) = Dist(N, x, i) + 1
                              /\ Dist(N, Round(N, x + 1), i) =
                                   IF i = x THEN N - 1 ELSE Dist(N, x, i) - 1
         /\ \A k \in 0..N-1 : /\ Round(N, x + k) \in 0..N-1 /\ Dist(N, x, Round(N, x + k)) = k
                              /\ Round(N, Round(N, x + 1) + k) = Round(N, x + k + 1)
BY DEF Round, Dist

----------------------------------------------------------------------------
\* What has been handed to HTI, in words and empty blocks; the block k after
\* the next to be taken; the blocks announced in the ring.
Handed   == Len(inRcvd) + Len(iDatQue)
Place(k) == Round(IBlkCnt, iBlkRdIdx + k)
Rdys     == {s \in Unread : ctlIn[s].cmd = "rdy"}

FlowTypes ==
  /\ inSent \in Seq(Items) /\ inRcvd \in Seq(Items) /\ usrIn \in Nat
  /\ iBlk \in [0..IBlkCnt-1 -> [0..BlkQw-1 -> Nat]]
  /\ iBlkRdIdx \in 0..IBlkCnt-1 /\ hInIdx \in 0..IBlkCnt-1

\* The items HTI has or had are the first that were sent.
Delivered ==
  /\ Handed <= Len(inSent)
  /\ \A i \in 1..Len(iDatQue) : iDatQue[i] = inSent[Len(inRcvd) + i]

\* Message m announces the items after the a-th up to the z-th; of words it
\* says how many there are in block blk.
Carries(m, a, z, sent, blk) ==
  IF m.ctl = "DATA"
  THEN /\ m.arg \in 1..BlkQw /\ z = a + m.arg
       /\ \A w \in 0..m.arg-1 : sent[a + w + 1] = Item("DATA", blk[w])
  ELSE z = a + 1 /\ sent[z] = Item(m.ctl, m.arg)

\* The blocks are numbered as they are handed over: those before T have been
\* taken, those before Q are in the queue, those before H in the ring.  Block n
\* begins after the from[n]-th item; the X-th is the last of those taken.
Sizes(X, T, Q, H, from) ==
  /\ T <= Q /\ Q <= H /\ Len(iBlkRdyQue) = Q - T /\ NotTaken("rdy") = H - Q
  /\ hInIdx = Place(H - T)
  /\ from[T] = X /\ from[H] = Len(inSent) /\ \A n \in T..H : from[n] <= Len(inSent)
InQue(T, Q, from) ==
  \A n \in T..Q-1 :
    Carries(iBlkRdyQue[n - T + 1], from[n], from[n + 1], inSent, iBlk[Place(n - T)])

\* num[s] is the number of the block that slot s announces.
InSlots(T, Q, H, from, num) ==
  /\ \A s \in Rdys :
       /\ num[s] \in Q..H-1
       /\ Carries(ctlIn[s], from[num[s]], from[num[s] + 1], inSent, iBlk[Place(num[s] - T)])
  /\ \A s, t \in Rdys : Ahead(s) < Ahead(t) => num[s] < num[t]
  /\ \A n \in Q..H-1 : \E s \in Rdys : num[s] = n

Coming(X) ==
  \E T, Q, H \in Nat, from \in [Nat -> Nat], num \in [Slots -> Nat] :
    Sizes(X, T, Q, H, from) /\ InQue(T, Q, from) /\ InSlots(T, Q, H, from, num)

----------------------------------------------------------------------------
\* The block being fetched.  The words of a line that has been fetched in part;
\* how many words of the block, which has n, are in lines fetched or begun.
Part == IF iBlkRdCnt = 0 THEN 0 ELSE iBlkRdAdr[2] % LineQw
LineStart(n) == IF iBlkRdCnt = 0 THEN n ELSE iBlkRdAdr[2] - Part

\* The buffers in use, the words requested for one and those taken from it,
\* and how far a buffer is after that which is being pushed.
Held(i)   == fetch[i].val # 0 \/ (i = iBlkFetchIdx /\ iBlkRdCnt # 0)
Got(i)    == IF fetch[i].val # 0 THEN fetch[i].val ELSE IF i = iBlkFetchIdx THEN Part ELSE 0
Given(i)  == IF i = iBlkPushIdx THEN iBlkPushCnt ELSE 0
FAhead(i) == Dist(FetchCnt, iBlkPushIdx, i)
Bufs      == 0..FetchCnt-1

FetchTypes ==
  /\ DOMAIN fetch = Bufs /\ iBlkPushIdx \in Bufs /\ iBlkFetchIdx \in Bufs /\ iBlkPushCnt \in Nat
  /\ \A i \in Bufs : /\ DOMAIN fetch[i] = {"pend", "val", "dat"} /\ fetch[i].val \in Nat
                     /\ fetch[i].pend \subseteq Nat \X Nat /\ DOMAIN fetch[i].dat = 0..LineQw-1

\* It has the n items after the P-th, up to the X-th.
Block(X, P, n) ==
  /\ P + n = X /\ X <= Len(inSent)
  /\ iBlkRdAdr[1] \in 0..IBlkCnt-1 /\ Round(IBlkCnt, iBlkRdAdr[1] + 1) = iBlkRdIdx
  /\ \A w \in 0..n-1 : inSent[P + w + 1] = Item("DATA", iBlk[iBlkRdAdr[1]][w])
ToRead(n) ==
  /\ iBlkRdCnt \in Nat /\ iBlkRdAdr[2] \in Nat /\ iBlkRdAdr = <<iBlkRdAdr[1], iBlkRdAdr[2]>>
  /\ iBlkRdCnt # 0 => iBlkRdAdr[2] + iBlkRdCnt = n /\ (B64 => Part = 0)
  /\ iBlkState = "WAIT" => iBlkRdCnt = 0

\* m buffers are full or being filled.
InUse(m) ==
  /\ iBlkFetchIdx = Round(FetchCnt, iBlkPushIdx + m)
  /\ \A i \in Bufs : fetch[i].val # 0 <=> FAhead(i) < m
  /\ m = 0 => iBlkPushCnt = 0
  /\ m = FetchCnt => Part = 0

\* The line in buffer i begins with word beg[i] of the block: a line follows
\* the line before, and the last of them is followed by what is to be fetched.
Starts(n, m, beg) ==
  /\ \A i \in Bufs : FAhead(i) + 1 < m => beg[Round(FetchCnt, i + 1)] = beg[i] + fetch[i].val
  /\ \A i \in Bufs : FAhead(i) + 1 = m => beg[i] + fetch[i].val = LineStart(n)
  /\ m < FetchCnt => beg[iBlkFetchIdx] = LineStart(n)
  /\ \A i \in Bufs : /\ Held(i) => beg[i] % LineQw = 0
                     /\ fetch[i].val # 0 => beg[i] + fetch[i].val <= n

\* A word of a buffer is as in the block, or is still to come.
Contents(beg) ==
  \A i \in Bufs :
    /\ fetch[i].val # 0 => Given(i) < fetch[i].val /\ fetch[i].val <= LineQw
    /\ \A a \in fetch[i].pend :
         Held(i) /\ a[1] = iBlkRdAdr[1] /\ a[2] \in beg[i]..beg[i]+LineQw-1
    /\ \A j \in Given(i)..Got(i)-1 : <<iBlkRdAdr[1], beg[i] + j>> \notin fetch[i].pend =>
         fetch[i].dat[j] = iBlk[iBlkRdAdr[1]][beg[i] + j]

Fetching(X, P, n, m, beg) ==
  /\ Block(X, P, n) /\ ToRead(n) /\ InUse(m) /\ Starts(n, m, beg) /\ Contents(beg)
  /\ Handed = P + beg[iBlkPushIdx] + iBlkPushCnt

InBlock(X) ==
  /\ FetchTypes
  /\ IF iBlkState = "IDLE"
     THEN Handed = X /\ iBlkFetchIdx = iBlkPushIdx /\ iBlkPushCnt = 0
     ELSE \E P \in Nat, n \in 1..BlkQw, m \in 0..FetchCnt, beg \in [Bufs -> Nat] :
            Fetching(X, P, n, m, beg)

InFlow ==
  /\ FlowTypes /\ Delivered
  /\ busy => \E X \in Nat : Coming(X) /\ InBlock(X)

----------------------------------------------------------------------------
\* What depends on the announced blocks, in any state: nothing else does.
LEMMA ComingStays ==
  ASSUME NEW X, Coming(X), Rdys' = Rdys, \A s \in Rdys : ctlIn'[s] = ctlIn[s],
         NotTaken("rdy")' = NotTaken("rdy"),
         \A s, t \in Rdys : Ahead(s)' < Ahead(t)' => Ahead(s) < Ahead(t),
         UNCHANGED <<iBlkRdyQue, iBlkRdIdx, hInIdx, inSent, iBlk>>
  PROVE  Coming(X)'
<1>1. PICK T \in Nat, Q \in Nat, H \in Nat, from \in [Nat -> Nat], num \in [Slots -> Nat] :
        Sizes(X, T, Q, H, from) /\ InQue(T, Q, from) /\ InSlots(T, Q, H, from, num)
  BY DEF Coming
<1>2. Sizes(X, T, Q, H, from)'
  BY <1>1 DEF Sizes, Place
<1>3. InQue(T, Q, from)'
  BY <1>1 DEF InQue, Place
<1>4. InSlots(T, Q, H, from, num)'
  BY <1>1 DEF InSlots, Place
<1>5. Slots' = Slots
  BY DEF Slots
<1> QED BY <1>2, <1>3, <1>4, <1>5 DEF Coming

\* The items that are sent later, and the words of another block, do not matter
\* to a message.
LEMMA CarriesStays ==
  ASSUME NEW m, NEW a \in Nat, NEW z \in Nat, NEW sent, NEW more, NEW L \in Nat, z <= L,
         \A k \in 1..L : more[k] = sent[k], NEW blk, Carries(m, a, z, sent, blk)
  PROVE  Carries(m, a, z, more, blk) /\ a < z
<1>1. CASE m.ctl = "DATA"
  <2>1. m.arg \in 1..BlkQw /\ z = a + m.arg /\ m.arg \in Nat /\ m.arg > 0
    BY <1>1 DEF Carries
  <2>2. ASSUME NEW w \in 0..m.arg-1 PROVE more[a + w + 1] = Item("DATA", blk[w])
    <3>1. a + w + 1 \in 1..L
      BY <2>1
    <3> QED BY <1>1, <3>1 DEF Carries
  <2> QED BY <1>1, <2>1, <2>2 DEF Carries
<1>2. CASE m.ctl # "DATA"
  <2>1. z = a + 1 /\ z \in 1..L
    BY <1>2 DEF Carries
  <2> QED BY <1>2, <2>1 DEF Carries
<1> QED BY <1>1, <1>2

\* At first nothing has been sent.
LEMMA ComingInit ==
  ASSUME Init
  PROVE  Coming(0)
<1>1. /\ ctlIn = [s \in Slots |-> IF s < OBlkCnt THEN AvlMsg ELSE NoMsg]
      /\ iBlkRdyQue = <<>> /\ iBlkRdIdx = 0 /\ hInIdx = 0 /\ inSent = <<>>
  BY DEF Init, HifInit, HifReset, Slots
<1>2. Rdys = {} /\ NotTaken("rdy") = 0
  <2>1. \A s \in Unread : ctlIn[s].cmd # "rdy"
    BY <1>1, MsgCmds DEF Unread
  <2>2. {s \in Unread : ctlIn[s].cmd = "rdy"} = {}
    BY <2>1
  <2> QED BY <2>2, FS_EmptySet DEF Rdys, NotTaken, SlotsWith
<1>3. IBlkCnt \in Nat /\ IBlkCnt > 0
  BY PersAssumption DEF PersAssumption
<1> DEFINE from == [n \in Nat |-> 0]
           num  == [s \in Slots |-> 0]
<1>4. Sizes(0, 0, 0, 0, from)
  BY <1>1, <1>2, <1>3 DEF Sizes, Place, Round
<1>5. InQue(0, 0, from)
  BY <1>1 DEF InQue
<1>6. InSlots(0, 0, 0, from, num)
  BY <1>1, <1>2 DEF InSlots
<1>7. from \in [Nat -> Nat] /\ num \in [Slots -> Nat] /\ 0 \in Nat
  OBVIOUS
<1> HIDE DEF from, num
<1> QED BY <1>4, <1>5, <1>6, <1>7 DEF Coming

\* Queue r is q with one more entry, e; q is r with the first entry gone.
Longer(r, q, e) ==
  /\ Len(q) \in Nat /\ Len(r) = Len(q) + 1 /\ r[Len(q) + 1] = e
  /\ \A i \in 1..Len(q) : r[i] = q[i]
Shorter(q, r) ==
  /\ Len(r) \in Nat \ {0} /\ Len(q) = Len(r) - 1 /\ Head(r) = r[1]
  /\ \A i \in 1..Len(q) : q[i] = r[i + 1]

\* The message at the reader's place is the next one: it is put at the end of
\* the queue.
LEMMA ComingTaken ==
  ASSUME InRing, NEW X, Coming(X), iCtlRdIdx \in Rdys,
         Longer(iBlkRdyQue', iBlkRdyQue, ctlIn[iCtlRdIdx]),
         Unread' = Unread \ {iCtlRdIdx}, \A s \in Unread : Ahead(s)' = Ahead(s),
         UNCHANGED <<ctlIn, iBlkRdIdx, hInIdx, inSent, iBlk>>
  PROVE  Coming(X)'
<1>1. PICK T \in Nat, Q \in Nat, H \in Nat, from \in [Nat -> Nat], num \in [Slots -> Nat] :
        Sizes(X, T, Q, H, from) /\ InQue(T, Q, from) /\ InSlots(T, Q, H, from, num)
  BY DEF Coming
<1> DEFINE r == iCtlRdIdx
<1>2. /\ Rdys \subseteq Unread /\ Unread \subseteq Slots /\ Rdys' = Rdys \ {r} /\ r \in Slots
      /\ NotTaken("rdy") = NotTaken("rdy")' + 1 /\ NotTaken("rdy")' \in Nat
      /\ Slots' = Slots
  <2>1. r \in Unread /\ ctlIn[r].cmd = "rdy" /\ ctlIn' = ctlIn
    BY DEF Rdys
  <2>2. Unread \subseteq Slots /\ Unread' \subseteq Slots /\ r \in Slots
    BY <2>1, UnreadType, PersAssumption
  <2>3. SlotsWith(ctlIn, Unread, "rdy") = SlotsWith(ctlIn, Unread, "rdy")' + 1
    BY <2>1, UnreadTaken, PersAssumption
  <2>4. SlotsWith(ctlIn', Unread', "rdy") \in Nat
    BY <2>2, SlotsFinite, PersAssumption
  <2>5. Rdys' = Rdys \ {r}
    BY <2>1 DEF Rdys
  <2> QED BY <2>2, <2>3, <2>4, <2>5 DEF NotTaken, Rdys, Slots
<1>3. NotTaken("rdy") = H - Q /\ T <= Q /\ Q <= H
  BY <1>1 DEF Sizes
<1>11. Len(iBlkRdyQue) = Q - T
  BY <1>1 DEF Sizes
<1>4. \A s \in Rdys : Ahead(s) \in Nat /\ (Ahead(s) = 0 <=> s = r) /\ num[s] \in Q..H-1
  BY <1>1, <1>2, AheadIs, PersAssumption DEF InSlots
<1>5. \A s \in Rdys : s # r => num[r] < num[s]
  <2>1. \A s \in Rdys : s # r => Ahead(r) < Ahead(s)
    BY <1>4
  <2> QED BY <1>1, <2>1 DEF InSlots
<1>6. num[r] = Q
  <2>1. PICK s \in Rdys : num[s] = Q
    <3>1. Q \in Q..H-1
      BY <1>2, <1>3
    <3> QED BY <1>1, <3>1 DEF InSlots
  <2>2. num[r] \in Q..H-1
    BY <1>4
  <2> QED BY <1>5, <2>1, <2>2
<1>7. Sizes(X, T, Q + 1, H, from)'
  <2>1. T <= Q + 1 /\ Q + 1 <= H /\ NotTaken("rdy")' = H - (Q + 1)
    BY <1>2, <1>3
  <2>2. Len(iBlkRdyQue') = (Q + 1) - T
    <3>1. Len(iBlkRdyQue') = (Q - T) + 1
      BY <1>11 DEF Longer
    <3> QED BY <3>1
  <2> QED BY <1>1, <2>1, <2>2 DEF Sizes, Place
<1>8. InQue(T, Q + 1, from)'
  <2> SUFFICES ASSUME NEW n \in T..Q
               PROVE  Carries(iBlkRdyQue'[n - T + 1], from[n], from[n + 1], inSent, iBlk[Place(n - T)])
    BY DEF InQue, Place
  <2>1. CASE n # Q
    <3>1. n \in T..Q-1 /\ n - T + 1 \in 1..(Q - T)
      BY <2>1
    <3>2. iBlkRdyQue'[n - T + 1] = iBlkRdyQue[n - T + 1]
      BY <1>11, <3>1 DEF Longer
    <3> QED BY <1>1, <3>1, <3>2 DEF InQue
  <2>2. CASE n = Q
    <3>1. iBlkRdyQue'[Q - T + 1] = ctlIn[r]
      BY <1>11 DEF Longer
    <3> QED BY <1>1, <1>6, <2>2, <3>1 DEF InSlots
  <2> QED BY <2>1, <2>2
<1>9. InSlots(T, Q + 1, H, from, num)'
  <2>1. \A s \in Rdys' : num[s] \in Q+1..H-1
    BY <1>2, <1>4, <1>5, <1>6
  <2>2. ASSUME NEW n \in Q+1..H-1 PROVE \E s \in Rdys' : num[s] = n
    <3>1. n \in Q..H-1 /\ n # Q
      OBVIOUS
    <3>2. PICK s \in Rdys : num[s] = n
      BY <1>1, <3>1 DEF InSlots
    <3> QED BY <1>2, <1>6, <3>1, <3>2
  <2>3. \A s \in Rdys' : Carries(ctlIn'[s], from[num[s]], from[num[s] + 1], inSent', iBlk'[Place(num[s] - T)'])
    BY <1>1, <1>2 DEF InSlots, Place
  <2>4. \A s, t \in Rdys' : Ahead(s)' < Ahead(t)' => num[s] < num[t]
    BY <1>1, <1>2 DEF InSlots, Rdys
  <2> QED BY <2>1, <2>2, <2>3, <2>4 DEF InSlots
<1>10. Q + 1 \in Nat
  OBVIOUS
<1> QED BY <1>2, <1>7, <1>8, <1>9, <1>10 DEF Coming

\* The blocks there can be lie in different places.
LEMMA Places ==
  ASSUME iBlkRdIdx \in 0..IBlkCnt-1
  PROVE  /\ \A k \in 0..IBlkCnt : Place(k) \in 0..IBlkCnt-1
         /\ \A j, k \in 0..IBlkCnt-1 : j # k => Place(j) # Place(k)
         /\ Place(0) = iBlkRdIdx
         /\ \A k \in 0..IBlkCnt-1 : Round(IBlkCnt, Place(k) + 1) = Place(k + 1)
<1>1. IBlkCnt \in Nat \ {0, 1}
  BY PersAssumption DEF PersAssumption
<1>2. \A k \in 0..IBlkCnt-1 : Place(k) \in 0..IBlkCnt-1 /\ Dist(IBlkCnt, iBlkRdIdx, Place(k)) = k
  BY <1>1, RingDist DEF Place
<1>3. Place(0) = iBlkRdIdx /\ Place(IBlkCnt) = iBlkRdIdx
  BY <1>1 DEF Place, Round
<1>4. \A k \in 0..IBlkCnt-1 : Round(IBlkCnt, Place(k) + 1) = Place(k + 1)
  BY <1>1 DEF Place, Round
<1>5. \A k \in 0..IBlkCnt : k \in 0..IBlkCnt-1 \/ k = IBlkCnt
  BY <1>1
<1> QED BY <1>2, <1>3, <1>4, <1>5

(* When the read index of the blocks moves on, every place ahead of it comes one nearer. *)
LEMMA PlaceNext ==
  ASSUME iBlkRdIdx \in 0..IBlkCnt-1, iBlkRdIdx' = Round(IBlkCnt, iBlkRdIdx + 1),
         NEW k \in 0..IBlkCnt-1
  PROVE  Place(k)' = Place(k + 1)
<1>1. IBlkCnt \in Nat \ {0, 1}
  BY PersAssumption DEF PersAssumption
<1>2. Round(IBlkCnt, Round(IBlkCnt, iBlkRdIdx + 1) + k) = Round(IBlkCnt, iBlkRdIdx + (k + 1))
  BY <1>1 DEF Round
<1> QED BY <1>2 DEF Place

\* The first block of the queue is taken: it begins after the X-th item.
LEMMA ComingTake ==
  ASSUME iBlkRdIdx \in 0..IBlkCnt-1, NEW X, Coming(X),
         Len(iBlkRdyQue) + NotTaken("rdy") <= IBlkCnt, Shorter(iBlkRdyQue', iBlkRdyQue),
         iBlkRdIdx' = Round(IBlkCnt, iBlkRdIdx + 1), Rdys' = Rdys, NotTaken("rdy")' = NotTaken("rdy"),
         \A s \in Rdys : Ahead(s)' = Ahead(s), UNCHANGED <<ctlIn, hInIdx, inSent, iBlk>>
  PROVE  \E Z \in Nat : /\ Coming(Z)' /\ Z <= Len(inSent)
                        /\ Carries(Head(iBlkRdyQue), X, Z, inSent, iBlk[iBlkRdIdx])
<1>1. PICK T \in Nat, Q \in Nat, H \in Nat, from \in [Nat -> Nat], num \in [Slots -> Nat] :
        Sizes(X, T, Q, H, from) /\ InQue(T, Q, from) /\ InSlots(T, Q, H, from, num)
  BY DEF Coming
<1>2. Len(iBlkRdyQue) = Q - T
  BY <1>1 DEF Sizes
<1>3. NotTaken("rdy") = H - Q /\ T <= Q /\ Q <= H
  BY <1>1 DEF Sizes
<1>4. T < Q /\ H - T <= IBlkCnt /\ T + 1 \in Nat
  <2>1. Q - T # 0 /\ (Q - T) + (H - Q) <= IBlkCnt /\ IBlkCnt \in Nat
    BY <1>2, <1>3, PersAssumption DEF Shorter, PersAssumption
  <2> QED BY <1>3, <2>1
<1>5. \A k \in 0..IBlkCnt-1 : Place(k)' = Place(k + 1)
  BY PlaceNext
<1>6. \A n \in T+1..H : Place(n - (T + 1))' = Place(n - T)
  <2> SUFFICES ASSUME NEW n \in T+1..H PROVE Place(n - (T + 1))' = Place(n - T)
    OBVIOUS
  <2>1. n - (T + 1) \in 0..IBlkCnt-1 /\ n - (T + 1) + 1 = n - T
    <3>1. IBlkCnt \in Nat /\ T + 1 <= H
      BY <1>3, <1>4, PersAssumption DEF PersAssumption
    <3>2. T \in Nat /\ H \in Nat /\ n \in Nat /\ T + 1 <= n /\ n <= H
      BY <3>1
    <3> QED BY <1>4, <3>1, <3>2
  <2> QED BY <1>5, <2>1
<1>7. Sizes(from[T + 1], T + 1, Q, H, from)'
  <2>1. T + 1 <= Q /\ Q <= H /\ H \in T+1..H /\ \A n \in T+1..H : n \in T..H
    BY <1>3, <1>4
  <2>2. Len(iBlkRdyQue') = Q - (T + 1)
    <3>1. Len(iBlkRdyQue') = (Q - T) - 1
      BY <1>2 DEF Shorter
    <3> QED BY <3>1
  <2>3. hInIdx' = Place(H - (T + 1))'
    BY <1>1, <1>6, <2>1 DEF Sizes
  <2> QED BY <1>1, <1>3, <2>1, <2>2, <2>3 DEF Sizes
<1>8. InQue(T + 1, Q, from)'
  <2> SUFFICES ASSUME NEW n \in T+1..Q-1
               PROVE  Carries(iBlkRdyQue'[n - (T + 1) + 1], from[n], from[n + 1], inSent,
                              iBlk[Place(n - (T + 1))'])
    BY DEF InQue
  <2>1. n \in T..Q-1 /\ n \in T+1..H
    BY <1>3
  <2>a. n - (T + 1) + 1 = n - T /\ n - T \in 1..(Q - T) - 1
    OBVIOUS
  <2>2. iBlkRdyQue'[n - T] = iBlkRdyQue[n - T + 1]
    BY <1>2, <2>a DEF Shorter
  <2> QED BY <1>1, <1>6, <2>1, <2>a, <2>2 DEF InQue
<1>9. InSlots(T + 1, Q, H, from, num)'
  <2>1. \A s \in Rdys : num[s] \in T+1..H
    <3>1. \A n \in Q..H-1 : n \in T+1..H
      BY <1>4
    <3> QED BY <1>1, <3>1 DEF InSlots
  <2> QED BY <1>1, <1>6, <2>1 DEF InSlots
<1>10. Coming(from[T + 1])'
  <2>1. Slots' = Slots
    BY DEF Slots
  <2> QED BY <1>4, <1>7, <1>8, <1>9, <2>1 DEF Coming
<1>11. Carries(Head(iBlkRdyQue), X, from[T + 1], inSent, iBlk[iBlkRdIdx])
  <2>1. Head(iBlkRdyQue) = iBlkRdyQue[1]
    BY DEF Shorter
  <2>2. T \in T..Q-1 /\ T - T = 0 /\ 0 + 1 = 1
    BY <1>4
  <2>3. Place(0) = iBlkRdIdx
    BY Places
  <2>4. from[T] = X
    BY <1>1 DEF Sizes
  <2> QED BY <1>1, <2>1, <2>2, <2>3, <2>4 DEF InQue
<1>12. from[T + 1] \in Nat /\ from[T + 1] <= Len(inSent)
  <2>1. T + 1 \in T..H
    BY <1>3, <1>4
  <2> QED BY <1>1, <1>4, <2>1 DEF Sizes
<1> QED BY <1>10, <1>11, <1>12

\* More has been sent.
Extends(more, sent) ==
  /\ Len(sent) \in Nat /\ Len(more) \in Nat /\ Len(sent) <= Len(more)
  /\ \A k \in 1..Len(sent) : more[k] = sent[k]

\* The host writes to slot s, the last in the order of the ring, and to the
\* block of its index.
PutLast(s) ==
  /\ Unread \subseteq Slots /\ s \in Slots /\ s \notin Unread /\ Unread' = Unread \cup {s}
  /\ \A t \in Unread : ctlIn'[t] = ctlIn[t] /\ Ahead(t) < Ahead(s)
  /\ \A t \in Slots : Ahead(t) \in Nat /\ Ahead(t)' = Ahead(t)
  /\ ctlIn'[s].cmd = "rdy"
PutBlk ==
  /\ hInIdx' = Round(IBlkCnt, hInIdx + 1)
  /\ \A b \in 0..IBlkCnt-1 : b # hInIdx => iBlk'[b] = iBlk[b]

\* The host hands a block over: it is the last.
LEMMA ComingPut ==
  ASSUME FlowTypes, NEW X, Coming(X), NEW s, PutLast(s), PutBlk, Extends(inSent', inSent),
         NotTaken("rdy")' = NotTaken("rdy") + 1, Len(iBlkRdyQue) + NotTaken("rdy") < IBlkCnt,
         UNCHANGED <<iBlkRdyQue, iBlkRdIdx>>,
         Carries(ctlIn'[s], Len(inSent), Len(inSent'), inSent', iBlk'[hInIdx])
  PROVE  Coming(X)'
<1>1. PICK T \in Nat, Q \in Nat, H \in Nat, from \in [Nat -> Nat], num \in [Slots -> Nat] :
        Sizes(X, T, Q, H, from) /\ InQue(T, Q, from) /\ InSlots(T, Q, H, from, num)
  BY DEF Coming
<1>2. PICK L \in Nat, M \in Nat : L = Len(inSent) /\ M = Len(inSent')
  BY DEF Extends
<1>3. L <= M /\ \A k \in 1..L : inSent'[k] = inSent[k]
  BY <1>2 DEF Extends
<1>4. NotTaken("rdy") = H - Q /\ T <= Q /\ Q <= H /\ hInIdx = Place(H - T) /\ from[H] = L
      /\ \A n \in T..H : from[n] <= L
  BY <1>1, <1>2 DEF Sizes
<1>13. T <= Q /\ Q <= H
  BY <1>4
<1>5. Len(iBlkRdyQue) = Q - T
  BY <1>1 DEF Sizes
<1>6. H - T \in 0..IBlkCnt-1 /\ H + 1 \in Nat /\ IBlkCnt \in Nat
  <2>1. (Q - T) + (H - Q) < IBlkCnt /\ IBlkCnt \in Nat
    BY <1>4, <1>5, PersAssumption DEF PersAssumption
  <2> QED BY <1>4, <2>1
<1> DEFINE fr == [from EXCEPT ![H + 1] = M]
           nm == [num EXCEPT ![s] = H]
<1>7. fr \in [Nat -> Nat] /\ nm \in [Slots -> Nat] /\ fr[H + 1] = M /\ nm[s] = H
      /\ (\A n \in Nat : n # H + 1 => fr[n] = from[n]) /\ (\A t \in Slots : t # s => nm[t] = num[t])
  BY <1>6 DEF PutLast
<1> HIDE DEF fr, nm
<1>8. Rdys \subseteq Slots /\ s \notin Rdys /\ Rdys' = Rdys \cup {s} /\ Slots' = Slots
  BY DEF Rdys, Slots, PutLast
<1>9. ASSUME NEW n \in T..H-1, NEW m, Carries(m, from[n], from[n + 1], inSent, iBlk[Place(n - T)])
      PROVE  Carries(m, fr[n], fr[n + 1], inSent', iBlk'[Place(n - T)'])
  <2>1. n \in Nat /\ n + 1 \in Nat /\ n # H + 1 /\ n + 1 # H + 1 /\ n + 1 \in T..H
        /\ n - T \in 0..IBlkCnt-1 /\ n - T # H - T
    BY <1>6
  <2>2. fr[n] = from[n] /\ fr[n + 1] = from[n + 1] /\ from[n] \in Nat /\ from[n + 1] \in Nat
        /\ from[n + 1] <= L
    BY <1>4, <1>7, <2>1
  <2>3. Place(n - T) \in 0..IBlkCnt-1 /\ Place(n - T) # hInIdx
    <3>1. H - T \in 0..IBlkCnt-1 /\ H - T \in 0..IBlkCnt
      BY <1>6
    <3>2. n - T \in 0..IBlkCnt
      BY <1>6, <2>1
    <3>3. hInIdx = Place(H - T)
      BY <1>4
    <3> QED BY <2>1, <3>1, <3>2, <3>3, Places, ZenonT(60) DEF FlowTypes
  <2>4. iBlk'[Place(n - T)] = iBlk[Place(n - T)] /\ Place(n - T)' = Place(n - T)
    BY <2>3 DEF Place, PutBlk
  <2>5. Carries(m, from[n], from[n + 1], inSent', iBlk[Place(n - T)])
    BY <1>3, <1>9, <2>2, CarriesStays
  <2> QED BY <2>2, <2>4, <2>5
<1>10. Sizes(X, T, Q, H + 1, fr)'
  <2>1. T <= Q /\ Q <= H + 1 /\ NotTaken("rdy")' = (H + 1) - Q
    BY <1>4
  <2>2. hInIdx' = Place((H + 1) - T)'
    <3>1. Round(IBlkCnt, Place(H - T) + 1) = Place((H - T) + 1) /\ (H - T) + 1 = (H + 1) - T
      BY <1>6, Places DEF FlowTypes
    <3> QED BY <1>4, <3>1 DEF Place, PutBlk
  <2>3. fr[T] = X /\ fr[H + 1] = Len(inSent')
    <3>1. T # H + 1
      BY <1>4
    <3> QED BY <1>1, <1>2, <1>7, <3>1 DEF Sizes
  <2>4. ASSUME NEW n \in T..H+1 PROVE fr[n] <= Len(inSent')
    <3>1. CASE n = H + 1
      BY <1>2, <1>7, <3>1, SMTT(30)
    <3>2. CASE n # H + 1
      <4>1. n \in T..H /\ n \in Nat
        BY <3>2
      <4>2. fr[n] = from[n] /\ from[n] \in Nat /\ from[n] <= L
        BY <1>4, <1>7, <3>2, <4>1
      <4> QED BY <1>2, <1>3, <4>2
    <3> QED BY <3>1, <3>2
  <2> QED BY <1>5, <2>1, <2>2, <2>3, <2>4 DEF Sizes
<1>11. InQue(T, Q, fr)'
  <2> SUFFICES ASSUME NEW n \in T..Q-1
               PROVE  Carries(iBlkRdyQue[n - T + 1], fr[n], fr[n + 1], inSent', iBlk'[Place(n - T)'])
    BY DEF InQue
  <2>1. n \in T..H-1
    BY <1>4
  <2> QED BY <1>1, <1>9, <2>1 DEF InQue
<1>12. InSlots(T, Q, H + 1, fr, nm)'
  <2>1. ASSUME NEW t \in Rdys
        PROVE  /\ nm[t] = num[t] /\ nm[t] \in Q..H-1 /\ t # s
               /\ Carries(ctlIn'[t], fr[nm[t]], fr[nm[t] + 1], inSent', iBlk'[Place(nm[t] - T)'])
    <3>1. t \in Slots /\ t # s /\ t \in Unread
      BY <1>8 DEF Rdys
    <3>2. nm[t] = num[t] /\ num[t] \in Q..H-1
      BY <1>1, <1>7, <3>1 DEF InSlots
    <3>3. num[t] \in T..H-1
      <4>1. \A i \in Q..H-1 : i \in T..H-1
        BY <1>13
      <4> QED BY <3>2, <4>1
    <3>4. ctlIn'[t] = ctlIn[t]
      BY <3>1 DEF PutLast
    <3> QED BY <1>1, <1>9, <3>1, <3>2, <3>3, <3>4 DEF InSlots
  <2>2. Carries(ctlIn'[s], fr[nm[s]], fr[nm[s] + 1], inSent', iBlk'[Place(nm[s] - T)'])
    <3>1. fr[H] = Len(inSent) /\ fr[H + 1] = Len(inSent') /\ nm[s] = H
      BY <1>2, <1>4, <1>7
    <3>2. Place(H - T)' = hInIdx
      BY <1>4 DEF Place
    <3> QED BY <3>1, <3>2
  <2>3. \A t \in Rdys' : /\ nm[t] \in Q..(H+1)-1
                         /\ Carries(ctlIn'[t], fr[nm[t]], fr[nm[t] + 1], inSent', iBlk'[Place(nm[t] - T)'])
    <3>1. H \in Q..(H+1)-1 /\ \A n \in Q..H-1 : n \in Q..(H+1)-1
      BY <1>4
    <3> QED BY <1>7, <1>8, <2>1, <2>2, <3>1
  <2>4. ASSUME NEW t \in Rdys', NEW u \in Rdys', Ahead(t)' < Ahead(u)' PROVE nm[t] < nm[u]
    <3>1. Ahead(t) < Ahead(u) /\ Ahead(s) \in Nat
      BY <1>8, <2>4 DEF PutLast
    <3>2. CASE u = s
      <4>1. t \in Rdys
        BY <1>8, <3>1, <3>2
      <4>2. nm[t] \in Q..H-1
        BY <2>1, <4>1
      <4>3. nm[u] = H
        BY <1>7, <3>2
      <4>4. \A i \in Q..H-1 : i < H
        OBVIOUS
      <4> QED BY <4>2, <4>3, <4>4
    <3>3. CASE u # s
      <4>1. u \in Rdys /\ u \in Unread
        BY <1>8, <3>3 DEF Rdys
      <4>2. Ahead(u) < Ahead(s) /\ Ahead(u) \in Nat
        BY <1>8, <4>1 DEF PutLast
      <4>3. t # s
        BY <3>1, <4>2
      <4>4. t \in Rdys
        BY <1>8, <4>3
      <4>5. num[t] < num[u]
        BY <1>1, <3>1, <4>1, <4>4 DEF InSlots
      <4> QED BY <2>1, <4>1, <4>4, <4>5
    <3> QED BY <3>2, <3>3
  <2>5. ASSUME NEW n \in Q..(H+1)-1 PROVE \E t \in Rdys' : nm[t] = n
    <3>1. CASE n = H
      BY <1>7, <1>8, <3>1
    <3>2. CASE n # H
      <4>1. n \in Q..H-1
        BY <3>2
      <4>2. PICK t \in Rdys : num[t] = n
        BY <1>1, <4>1 DEF InSlots
      <4> QED BY <1>8, <2>1, <4>2
    <3> QED BY <3>1, <3>2
  <2> QED BY <2>3, <2>4, <2>5 DEF InSlots
<1> QED BY <1>6, <1>7, <1>8, <1>10, <1>11, <1>12 DEF Coming

----------------------------------------------------------------------------
\* A step that leaves the state of the IBK state machine alone; the host may
\* send more, and write to other blocks.
fetchPart == <<iBlkState, iBlkRdCnt, iBlkRdAdr, iBlkRdIdx, iBlkFetchIdx, fetch, iBlkPushIdx,
               iBlkPushCnt>>
BlkStays == iBlkState # "IDLE" => iBlk'[iBlkRdAdr[1]] = iBlk[iBlkRdAdr[1]]

(* The block being read keeps its description when the machine that reads it, its memory and what
   is to be handed over are left alone. *)
LEMMA InBlockStays ==
  ASSUME NEW X, InBlock(X), UNCHANGED fetchPart, BlkStays, Extends(inSent', inSent),
         Handed' = Handed
  PROVE  InBlock(X)'
<1>1. FetchTypes'
  BY DEF InBlock, FetchTypes, Bufs, fetchPart
<1>2. CASE iBlkState = "IDLE"
  BY <1>1, <1>2 DEF InBlock, fetchPart
<1>3. CASE iBlkState # "IDLE"
  <2>1. PICK P \in Nat, n \in 1..BlkQw, m \in 0..FetchCnt, beg \in [Bufs -> Nat] :
          Fetching(X, P, n, m, beg)
    BY <1>3 DEF InBlock
  <2>2. iBlk'[iBlkRdAdr[1]] = iBlk[iBlkRdAdr[1]] /\ iBlkRdAdr' = iBlkRdAdr
    BY <1>3 DEF BlkStays, fetchPart
  <2>3. Block(X, P, n)'
    <3>1. Block(X, P, n)
      BY <2>1 DEF Fetching
    <3>2. P + n = X /\ X <= Len(inSent')
      <4>1. P + n = X /\ P + n <= Len(inSent)
        BY <3>1 DEF Block
      <4> QED BY <4>1 DEF Extends
    <3>3. ASSUME NEW w \in 0..n-1 PROVE inSent'[P + w + 1] = inSent[P + w + 1]
      <4>1. P + w + 1 \in 1..P+n
        OBVIOUS
      <4>2. P + n <= Len(inSent)
        BY <3>1 DEF Block
      <4>3. P + w + 1 \in 1..Len(inSent)
        BY <4>1, <4>2 DEF Extends
      <4> QED BY <4>3 DEF Extends
    <3>4. iBlkRdIdx' = iBlkRdIdx
      BY DEF fetchPart
    <3> QED BY <2>2, <3>1, <3>2, <3>3, <3>4 DEF Block
  <2>4. ToRead(n)' /\ InUse(m)' /\ Starts(n, m, beg)'
    BY <2>1 DEF Fetching, ToRead, InUse, Starts, Part, LineStart, Held, FAhead, Bufs, fetchPart
  <2>5. Contents(beg)'
    BY <2>1, <2>2, SMTT(30) DEF Fetching, Contents, Part, Held, Given, Got, Bufs, fetchPart
  <2>6. Handed' = P + beg[iBlkPushIdx'] + iBlkPushCnt'
    BY <2>1 DEF Fetching, fetchPart
  <2>7. iBlkState' # "IDLE" /\ Bufs' = Bufs
    BY <1>3 DEF fetchPart, Bufs
  <2> QED BY <1>1, <2>1, <2>3, <2>4, <2>5, <2>6, <2>7 DEF InBlock, Fetching
<1> QED BY <1>2, <1>3

\* At first, and between two blocks, nothing is fetched.
LEMMA InBlockInit ==
  ASSUME Init
  PROVE  InBlock(0)
<1>1. /\ fetch = [i \in 0..FetchCnt-1 |-> NoFetch] /\ iBlkState = "IDLE"
      /\ iBlkFetchIdx = 0 /\ iBlkPushIdx = 0 /\ iBlkPushCnt = 0
      /\ inRcvd = <<>> /\ iDatQue = <<>>
  BY DEF Init, HifInit, HifReset, HtiInit
<1>2. Handed = 0
  BY <1>1 DEF Handed
<1>3. 0 \in Bufs
  BY PersAssumption DEF PersAssumption, Bufs
<1>4. FetchTypes
  BY <1>1, <1>3 DEF FetchTypes, NoFetch, Bufs
<1> QED BY <1>1, <1>2, <1>4 DEF InBlock

\* An empty block is handed to HTI.
LEMMA InBlockEmpty ==
  ASSUME NEW X \in Nat, InBlock(X), iBlkState = "IDLE", Handed' = Handed + 1,
         UNCHANGED <<iBlkState, fetch, iBlkFetchIdx, iBlkPushIdx, iBlkPushCnt>>
  PROVE  InBlock(X + 1)'
<1>1. FetchTypes'
  BY DEF InBlock, FetchTypes, Bufs
<1> QED BY <1>1 DEF InBlock

\* A block of words is begun: nothing of it has been requested.
LEMMA InBlockBegin ==
  ASSUME NEW X \in Nat, NEW Z \in Nat, NEW c \in 1..BlkQw, InBlock(X), iBlkState = "IDLE",
         iBlkRdIdx \in 0..IBlkCnt-1, iBlkRdIdx' = Round(IBlkCnt, iBlkRdIdx + 1),
         iBlkState' = "READ", iBlkRdCnt' = c, iBlkRdAdr' = <<iBlkRdIdx, 0>>,
         Z = X + c, Z <= Len(inSent'),
         \A w \in 0..c-1 : inSent'[X + w + 1] = Item("DATA", iBlk'[iBlkRdIdx][w]),
         \A i \in Bufs : fetch[i].pend = {} /\ fetch[i].val = 0,
         UNCHANGED <<fetch, iBlkFetchIdx, iBlkPushIdx, iBlkPushCnt>>, Handed' = Handed
  PROVE  InBlock(Z)'
<1>1. /\ FetchTypes /\ FetchTypes' /\ Handed = X /\ iBlkFetchIdx = iBlkPushIdx
      /\ iBlkPushCnt = 0 /\ Bufs' = Bufs
  BY DEF InBlock, FetchTypes, Bufs
<1>2. FetchCnt \in Nat \ {0, 1} /\ LineQw \in Nat \ {0, 1}
  BY PersAssumption DEF PersAssumption
<1> DEFINE beg == [i \in Bufs |-> 0]
<1>3. beg \in [Bufs -> Nat] /\ \A i \in Bufs : beg[i] = 0
  OBVIOUS
<1> HIDE DEF beg
<1>4. 0 % LineQw = 0
  BY <1>2
<1>5. Part' = 0 /\ LineStart(c)' = 0 /\ iBlkRdAdr'[1] = iBlkRdIdx /\ iBlkRdAdr'[2] = 0
  BY <1>4 DEF Part, LineStart
<1>6. Block(Z, X, c)'
  BY <1>5 DEF Block
<1>7. ToRead(c)'
  BY <1>5 DEF ToRead
<1>8. /\ iBlkPushIdx' \in Bufs /\ iBlkFetchIdx' = iBlkPushIdx' /\ iBlkPushCnt' = 0
      /\ \A i \in Bufs : fetch'[i].pend = {} /\ fetch'[i].val = 0
  BY <1>1 DEF FetchTypes
<1>9. \A i \in Bufs : FAhead(i)' \in 0..FetchCnt-1
  BY <1>2, <1>8, RingDist DEF Bufs, FAhead
<1>10. InUse(0)'
  <2>1. Round(FetchCnt, iBlkPushIdx' + 0) = iBlkPushIdx'
    BY <1>2, <1>8 DEF Round, Bufs
  <2> QED BY <1>1, <1>2, <1>5, <1>8, <1>9, <2>1, SMTT(30) DEF InUse
<1>11. Starts(c, 0, beg)'
  <2>1. beg[iBlkFetchIdx'] = 0
    BY <1>3, <1>8
  <2>2. \A i \in Bufs : ~(FAhead(i)' + 1 < 0) /\ FAhead(i)' + 1 # 0
    BY <1>2, <1>9
  <2> QED BY <1>1, <1>3, <1>4, <1>5, <1>8, <2>1, <2>2 DEF Starts, Held
<1>12. Contents(beg)'
  BY <1>1, <1>5, <1>8, SMTT(30) DEF Contents, Got, Given
<1>13. Handed' = X + beg[iBlkPushIdx'] + iBlkPushCnt'
  BY <1>1, <1>3, <1>8
<1>14. 0 \in 0..FetchCnt
  BY <1>2
<1>15. Fetching(Z, X, c, 0, beg)'
  BY <1>6, <1>7, <1>10, <1>11, <1>12, <1>13 DEF Fetching
<1> QED BY <1>1, <1>3, <1>14, <1>15 DEF InBlock

\* The last word has been requested.
LEMMA InBlockRead ==
  ASSUME NEW X, InBlock(X), iBlkState = "READ", iBlkRdCnt = 0, iBlkState' = "WAIT",
         UNCHANGED <<iBlkRdCnt, iBlkRdAdr, iBlkRdIdx, iBlkFetchIdx, fetch, iBlkPushIdx, iBlkPushCnt>>,
         UNCHANGED <<iBlk, inSent>>, Handed' = Handed
  PROVE  InBlock(X)'
<1>1. FetchTypes' /\ Bufs' = Bufs
  BY DEF InBlock, FetchTypes, Bufs
<1>2. PICK P \in Nat, n \in 1..BlkQw, m \in 0..FetchCnt, beg \in [Bufs -> Nat] :
        Fetching(X, P, n, m, beg)
  BY DEF InBlock
<1>3. Block(X, P, n)'
  BY <1>2 DEF Fetching, Block
<1>4. ToRead(n)'
  BY <1>2 DEF Fetching, ToRead
<1>5. InUse(m)' /\ Starts(n, m, beg)'
  BY <1>2 DEF Fetching, InUse, Starts, Part, LineStart, Held, FAhead, Bufs
<1>6. Contents(beg)'
  BY <1>2 DEF Fetching, Contents, Part, Held, Given, Got, Bufs
<1>7. Fetching(X, P, n, m, beg)'
  BY <1>2, <1>3, <1>4, <1>5, <1>6 DEF Fetching
<1> QED BY <1>1, <1>2, <1>7 DEF InBlock

\* Every buffer is empty: all words have been handed to HTI.
LEMMA InBlockDone ==
  ASSUME NEW X, InBlock(X), iBlkState = "WAIT", iBlkState' = "IDLE",
         \A i \in DOMAIN fetch : fetch[i].val = 0,
         UNCHANGED <<iBlkFetchIdx, fetch, iBlkPushIdx, iBlkPushCnt>>, Handed' = Handed
  PROVE  InBlock(X)'
<1>1. FetchTypes /\ FetchTypes'
  BY DEF InBlock, FetchTypes, Bufs
<1>2. PICK P \in Nat, n \in 1..BlkQw, m \in 0..FetchCnt, beg \in [Bufs -> Nat] :
        Fetching(X, P, n, m, beg)
  BY DEF InBlock
<1>3. FetchCnt \in Nat \ {0, 1} /\ iBlkPushIdx \in 0..FetchCnt-1 /\ iBlkPushIdx \in Bufs
      /\ fetch[iBlkPushIdx].val = 0
  BY <1>1, PersAssumption DEF PersAssumption, FetchTypes, Bufs
<1>4. m = 0
  <2>1. FAhead(iBlkPushIdx) = 0
    BY <1>3 DEF FAhead, Dist
  <2>2. ~(0 < m)
    BY <1>2, <1>3, <2>1 DEF Fetching, InUse
  <2> QED BY <2>2
<1>5. iBlkFetchIdx = iBlkPushIdx /\ iBlkPushCnt = 0
  <2>1. Round(FetchCnt, iBlkPushIdx + 0) = iBlkPushIdx
    BY <1>3 DEF Round
  <2> QED BY <1>2, <1>4, <2>1 DEF Fetching, InUse
<1>6. beg[iBlkPushIdx] = n
  <2>1. iBlkRdCnt = 0
    BY <1>2 DEF Fetching, ToRead
  <2>2. m < FetchCnt
    BY <1>3, <1>4
  <2> QED BY <1>2, <1>5, <2>1, <2>2 DEF Fetching, Starts, LineStart
<1>7. Handed = X
  <2>1. Handed = P + n + 0 /\ P + n = X
    BY <1>2, <1>5, <1>6 DEF Fetching, Block
  <2> QED BY <2>1
<1> QED BY <1>1, <1>5, <1>7 DEF InBlock

\* A read is answered: the word goes where its address says.
LEMMA InBlockRsp ==
  ASSUME NEW X, InBlock(X), iBlkState # "IDLE", NEW i \in Bufs, NEW a \in fetch[i].pend,
         fetch' = [fetch EXCEPT ![i].pend = @ \ {a},
                                ![i].dat[a[2] % LineQw] = iBlk[a[1]][a[2]]],
         UNCHANGED <<iBlkState, iBlkRdCnt, iBlkRdAdr, iBlkRdIdx, iBlkFetchIdx, iBlkPushIdx, iBlkPushCnt>>,
         UNCHANGED <<iBlk, inSent>>, Handed' = Handed
  PROVE  InBlock(X)'
<1>1. FetchTypes /\ Bufs' = Bufs
  BY DEF InBlock, Bufs
<1>2. PICK P \in Nat, n \in 1..BlkQw, m \in 0..FetchCnt, beg \in [Bufs -> Nat] :
        Fetching(X, P, n, m, beg)
  BY DEF InBlock
<1> DEFINE b == iBlkRdAdr[1]
           j == a[2] - beg[i]
<1>3. a = <<a[1], a[2]>> /\ a[1] = b /\ a[2] \in beg[i]..beg[i]+LineQw-1 /\ Held(i)
      /\ beg[i] % LineQw = 0 /\ beg[i] \in Nat
  <2>1. a \in Nat \X Nat
    BY <1>1 DEF FetchTypes
  <2> QED BY <1>2, <2>1 DEF Fetching, Contents, Starts
<1>4. j \in 0..LineQw-1 /\ a[2] % LineQw = j /\ a = <<b, beg[i] + j>>
  <2>1. LineQw \in Nat \ {0}
    BY PersAssumption DEF PersAssumption
  <2>2. j \in 0..LineQw-1 /\ a[2] = beg[i] + j
    BY <1>3, <2>1
  <2> HIDE DEF j
  <2>3. (beg[i] + j) % LineQw = j
    BY <1>3, <2>1, <2>2, LineWord
  <2> QED BY <1>3, <2>2, <2>3
<1>5. /\ DOMAIN fetch' = Bufs
      /\ \A k \in Bufs : k # i => fetch'[k] = fetch[k]
      /\ DOMAIN fetch'[i] = {"pend", "val", "dat"}
      /\ fetch'[i].pend = fetch[i].pend \ {a} /\ fetch'[i].val = fetch[i].val
      /\ DOMAIN fetch'[i].dat = 0..LineQw-1
      /\ fetch'[i].dat[j] = iBlk[b][beg[i] + j]
      /\ \A k \in 0..LineQw-1 : k # j => fetch'[i].dat[k] = fetch[i].dat[k]
  <2>1. DOMAIN fetch = Bufs /\ DOMAIN fetch[i] = {"pend", "val", "dat"}
        /\ DOMAIN fetch[i].dat = 0..LineQw-1
    BY <1>1 DEF FetchTypes
  <2>2. iBlk[a[1]][a[2]] = iBlk[b][beg[i] + j] /\ a[2] % LineQw = j
    BY <1>3, <1>4
  <2> HIDE DEF b, j
  <2> DEFINE v == iBlk[b][beg[i] + j]
  <2>3. fetch' = [fetch EXCEPT ![i].pend = @ \ {a}, ![i].dat[j] = v]
    BY <2>2
  <2> HIDE DEF v
  <2>4. DOMAIN fetch' = Bufs /\ (\A k \in Bufs : k # i => fetch'[k] = fetch[k])
        /\ fetch'[i] = [fetch[i] EXCEPT !.pend = @ \ {a}, !.dat = [@ EXCEPT ![j] = v]]
    BY <2>1, <2>3
  <2>5. j \in 0..LineQw-1
    BY <1>4
  <2>6. /\ DOMAIN fetch'[i] = {"pend", "val", "dat"}
        /\ fetch'[i].pend = fetch[i].pend \ {a} /\ fetch'[i].val = fetch[i].val
        /\ fetch'[i].dat = [fetch[i].dat EXCEPT ![j] = v]
    BY <2>1, <2>4
  <2> QED BY <2>1, <2>4, <2>5, <2>6 DEF v
<1>6. FetchTypes'
  BY <1>1, <1>5 DEF FetchTypes
<1>7. \A k \in Bufs : fetch'[k].val = fetch[k].val /\ fetch'[k].pend \subseteq fetch[k].pend
  BY <1>5
<1>8. Block(X, P, n)' /\ ToRead(n)'
  BY <1>2 DEF Fetching, Block, ToRead, Part
<1>9. InUse(m)' /\ Starts(n, m, beg)'
  BY <1>2, <1>7, <1>1 DEF Fetching, InUse, Starts, Part, LineStart, Held, FAhead
<1>10. Contents(beg)'
  <2>a. \A k \in Bufs : Held(k)' = Held(k) /\ Got(k)' = Got(k) /\ Given(k)' = Given(k)
    BY <1>7 DEF Held, Got, Given, Part
  <2> SUFFICES ASSUME NEW k \in Bufs
               PROVE  /\ fetch'[k].val # 0 => Given(k) < fetch'[k].val /\ fetch'[k].val <= LineQw
                      /\ \A c \in fetch'[k].pend :
                           Held(k) /\ c[1] = b /\ c[2] \in beg[k]..beg[k]+LineQw-1
                      /\ \A l \in Given(k)..Got(k)-1 : <<b, beg[k] + l>> \notin fetch'[k].pend =>
                           fetch'[k].dat[l] = iBlk[b][beg[k] + l]
    BY ZenonT(90), <1>1, <2>a DEF Contents
  <2>1. /\ fetch[k].val # 0 => Given(k) < fetch[k].val /\ fetch[k].val <= LineQw
        /\ \A c \in fetch[k].pend :
             Held(k) /\ c[1] = b /\ c[2] \in beg[k]..beg[k]+LineQw-1
        /\ \A l \in Given(k)..Got(k)-1 : <<b, beg[k] + l>> \notin fetch[k].pend =>
             fetch[k].dat[l] = iBlk[b][beg[k] + l]
    BY <1>2 DEF Fetching, Contents
  <2>2. CASE k # i
    BY <1>5, <2>1, <2>2
  <2>3. CASE k = i
    <3>1. ASSUME NEW l \in Given(i)..Got(i)-1, <<b, beg[i] + l>> \notin fetch'[i].pend
          PROVE  fetch'[i].dat[l] = iBlk[b][beg[i] + l]
      <4>1. CASE l = j
        BY <1>5, <4>1
      <4>2. CASE l # j
        <5>1. l \in 0..LineQw-1
          <6>1. Given(i) \in Nat
            BY <1>1 DEF Given, FetchTypes
          <6>2. Got(i) \in 0..LineQw
            <7>1. LineQw \in Nat \ {0} /\ fetch[i].val \in Nat
              BY <1>1, PersAssumption DEF PersAssumption, FetchTypes
            <7>2. Part \in 0..LineQw
              <8>1. iBlkRdAdr[2] \in Nat
                BY <1>2 DEF Fetching, ToRead
              <8>2. iBlkRdAdr[2] % LineQw \in 0..LineQw-1
                BY <7>1, <8>1, LineRest
              <8> QED BY <7>1, <8>2 DEF Part
            <7> QED BY <2>1, <2>3, <7>1, <7>2 DEF Got
          <6> QED BY <6>1, <6>2, PersAssumption DEF PersAssumption
        <5>2. <<b, beg[i] + l>> # a
          BY <1>3, <1>4, <4>2, <5>1
        <5>3. <<b, beg[i] + l>> \notin fetch[i].pend
          BY <1>5, <3>1, <5>2
        <5> QED BY <1>5, <2>1, <2>3, <4>2, <5>1, <5>3
      <4> QED BY <4>1, <4>2
    <3> QED BY <1>7, <2>1, <2>3, <3>1
  <2> QED BY <2>2, <2>3
<1>11. Handed' = P + beg[iBlkPushIdx'] + iBlkPushCnt'
  BY <1>2 DEF Fetching
<1>12. Fetching(X, P, n, m, beg)'
  BY <1>8, <1>9, <1>10, <1>11 DEF Fetching
<1> QED BY <1>1, <1>2, <1>6, <1>12 DEF InBlock

----------------------------------------------------------------------------
\* A request for qws words from word q on, when c are to be requested and n are
\* in the block: it is for words of one line, and if the buffer is complete
\* with it, with val words, the next request begins a line or there is none.
Request(q, c, n, qws, val, cnt) ==
  LET r == q % LineQw IN
  /\ qws \in Nat /\ r + qws <= LineQw /\ val \in 0..r+qws
  /\ c - cnt \in Nat
  /\ c - cnt # 0 => (q + qws) + (c - cnt) = n
  /\ val = 0 => ~B64 /\ c - cnt # 0 /\ qws = 1 /\ (q + qws) % LineQw = r + 1
  /\ val # 0 /\ c - cnt = 0 => (q - r) + val = n
  /\ val # 0 /\ c - cnt # 0 =>
       val = LineQw /\ q + qws = (q - r) + val /\ (q + qws) % LineQw = 0

(* Reading a block by whole lines: what a request of CPersHif fetches from the start of a line. *)
LEMMA Request64 ==
  ASSUME NEW q \in Nat, NEW c \in Nat \ {0}, q % LineQw = 0
  PROVE  Request(q, c, q + c, LineQw, Lower(c, LineQw), Lower(c, LineQw))
<1>1. LineQw \in Nat \ {0}
  BY PersAssumption DEF PersAssumption
<1>2. (q + LineQw) % LineQw = 0
  BY <1>1, LineNext
<1>3. CASE c <= LineQw
  <2>1. Lower(c, LineQw) = c
    BY <1>3 DEF Lower
  <2> QED BY <1>1, <1>3, <2>1 DEF Request
<1>4. CASE ~(c <= LineQw)
  <2>1. Lower(c, LineQw) = LineQw
    BY <1>4 DEF Lower
  <2>2. c - LineQw \in Nat /\ c - LineQw # 0 /\ (q + LineQw) + (c - LineQw) = q + c
    BY <1>1, <1>4
  <2> QED BY <1>1, <1>2, <2>1, <2>2 DEF Request
<1> QED BY <1>3, <1>4

(* Reading a block by words: a buffer is full at the end of its line or of the block. *)
LEMMA Request8 ==
  ASSUME NEW q \in Nat, NEW c \in Nat \ {0}, ~B64
  PROVE  LET r == q % LineQw IN
         Request(q, c, q + c, 1, IF c = 1 \/ r = LineQw - 1 THEN r + 1 ELSE 0, 1)
<1> DEFINE r == q % LineQw
<1>1. LineQw \in Nat \ {0}
  BY PersAssumption DEF PersAssumption
<1>2. r \in 0..LineQw-1 /\ (r < LineQw - 1 => (q + 1) % LineQw = r + 1)
      /\ (r = LineQw - 1 => (q + 1) % LineQw = 0)
  BY <1>1, LineRest, LineNext
<1>3. c - 1 \in Nat /\ (q + 1) + (c - 1) = q + c
  OBVIOUS
<1>4. ASSUME NEW v, v = (IF c = 1 \/ r = LineQw - 1 THEN r + 1 ELSE 0)
      PROVE  Request(q, c, q + c, 1, v, 1)
  <2> HIDE DEF r
  <2>1. r + 1 <= LineQw /\ v \in 0..r+1 /\ (v # 0 => v = r + 1)
    BY <1>1, <1>2, <1>4
  <2>2. v = 0 => c - 1 # 0 /\ (q + 1) % LineQw = r + 1
    BY <1>1, <1>2, <1>4
  <2>3. v # 0 /\ c - 1 = 0 => (q - r) + v = q + c
    BY <1>1, <1>2, <2>1
  <2>4. v # 0 /\ c - 1 # 0 => v = LineQw /\ q + 1 = (q - r) + v /\ (q + 1) % LineQw = 0
    <3> SUFFICES ASSUME v # 0, c - 1 # 0 PROVE v = LineQw /\ q + 1 = (q - r) + v /\ (q + 1) % LineQw = 0
      OBVIOUS
    <3>1. r = LineQw - 1
      BY <1>4
    <3> QED BY <1>1, <1>2, <2>1, <3>1
  <2> QED BY <1>3, <2>1, <2>2, <2>3, <2>4 DEF Request, r
<1> QED BY <1>4

\* The distances of the buffers from the one being pushed.
LEMMA FetchRing ==
  ASSUME FetchTypes, NEW m \in 0..FetchCnt, iBlkFetchIdx = Round(FetchCnt, iBlkPushIdx + m)
  PROVE  /\ \A i \in Bufs : /\ FAhead(i) \in 0..FetchCnt-1
                            /\ FAhead(i) = 0 <=> i = iBlkPushIdx
                            /\ Round(FetchCnt, i + 1) \in Bufs
                            /\ FAhead(i) + 1 < FetchCnt => FAhead(Round(FetchCnt, i + 1)) = FAhead(i) + 1
         /\ m < FetchCnt => \A i \in Bufs : FAhead(i) = m <=> i = iBlkFetchIdx
         /\ m = FetchCnt => iBlkFetchIdx = iBlkPushIdx
         /\ Round(FetchCnt, iBlkFetchIdx + 1) = Round(FetchCnt, iBlkPushIdx + (m + 1)) \/ m = FetchCnt
         /\ FetchCnt \in Nat \ {0, 1}
<1>1. FetchCnt \in Nat \ {0, 1} /\ iBlkPushIdx \in 0..FetchCnt-1
  BY PersAssumption DEF PersAssumption, FetchTypes, Bufs
<1>2. \A i \in Bufs : /\ FAhead(i) \in 0..FetchCnt-1
                      /\ FAhead(i) = 0 <=> i = iBlkPushIdx
                      /\ FAhead(i) + 1 < FetchCnt => FAhead(Round(FetchCnt, i + 1)) = FAhead(i) + 1
  BY <1>1, RingDist DEF Bufs, FAhead
<1>3. \A i \in Bufs : Round(FetchCnt, i + 1) \in Bufs
  BY <1>1 DEF Bufs, Round
<1>4. m < FetchCnt => \A i \in Bufs : FAhead(i) = m <=> i = iBlkFetchIdx
  BY <1>1 DEF Bufs, FAhead, Dist, Round
<1>5. m = FetchCnt => iBlkFetchIdx = iBlkPushIdx
  BY <1>1 DEF Round
<1>6. m < FetchCnt => Round(FetchCnt, iBlkFetchIdx + 1) = Round(FetchCnt, iBlkPushIdx + (m + 1))
  BY <1>1 DEF Round
<1> QED BY <1>1, <1>2, <1>3, <1>4, <1>5, <1>6

\* A request for words of the line being fetched.
RequestMade(q, c, qws, val, cnt) ==
  /\ iBlkState = "READ" /\ iBlkRdCnt # 0 /\ fetch[iBlkFetchIdx].val = 0
  /\ q = iBlkRdAdr[2] /\ c = iBlkRdCnt
  /\ fetch' = [fetch EXCEPT ![iBlkFetchIdx].pend = @ \cup {<<iBlkRdAdr[1], q + i>> : i \in 0..qws-1},
                            ![iBlkFetchIdx].val = val]
  /\ iBlkRdAdr' = <<iBlkRdAdr[1], q + qws>> /\ iBlkRdCnt' = c - cnt
  /\ iBlkFetchIdx' = IF val = 0 THEN iBlkFetchIdx ELSE Round(FetchCnt, iBlkFetchIdx + 1)
  /\ UNCHANGED <<iBlkState, iBlkRdIdx, iBlkPushIdx, iBlkPushCnt, iBlk, inSent>>

(* A request made for the next words of the block keeps the description of the block being read. *)
LEMMA InBlockFetch ==
  ASSUME NEW X, NEW q \in Nat, NEW c \in Nat, NEW qws, NEW val, NEW cnt,
         InBlock(X), RequestMade(q, c, qws, val, cnt),
         Request(q, c, q + c, qws, val, cnt), Handed' = Handed
  PROVE  InBlock(X)'
<1> DEFINE f == iBlkFetchIdx
           b == iBlkRdAdr[1]
           r == q % LineQw
           s == q - r
<1>1. FetchTypes /\ Bufs' = Bufs /\ f \in Bufs
  BY DEF RequestMade, InBlock, FetchTypes, Bufs
<1>2. PICK P \in Nat, n \in 1..BlkQw, m \in 0..FetchCnt, beg \in [Bufs -> Nat] :
        Fetching(X, P, n, m, beg)
  BY DEF InBlock, RequestMade
<1>3. LineQw \in Nat \ {0} /\ r \in 0..LineQw-1 /\ r <= q /\ s \in Nat /\ s % LineQw = 0
  BY LineRest, PersAssumption DEF PersAssumption
<1> HIDE DEF r, s
<1>4. q + c = n /\ c # 0 /\ Part = r /\ LineStart(n) = s
  BY <1>2 DEF Fetching, ToRead, RequestMade, Part, LineStart, r, s
<1>5. m < FetchCnt /\ FetchCnt \in Nat \ {0, 1}
      /\ \A i \in Bufs : /\ FAhead(i) \in 0..FetchCnt-1 /\ (FAhead(i) = m <=> i = f)
                         /\ FAhead(i) = 0 <=> i = iBlkPushIdx
                         /\ Round(FetchCnt, i + 1) \in Bufs
                         /\ FAhead(i) + 1 < FetchCnt => FAhead(Round(FetchCnt, i + 1)) = FAhead(i) + 1
  <2>1. InUse(m) /\ iBlkFetchIdx = Round(FetchCnt, iBlkPushIdx + m)
    BY <1>2 DEF Fetching, InUse
  <2>2. m # FetchCnt
    <3>1. SUFFICES ASSUME m = FetchCnt PROVE FALSE
      OBVIOUS
    <3>2. f = iBlkPushIdx /\ FAhead(f) = 0 /\ FetchCnt \in Nat \ {0, 1}
      BY <1>1, <2>1, <3>1, FetchRing
    <3>3. 0 < m
      BY <3>1, <3>2
    <3> QED BY <1>1, <2>1, <3>2, <3>3 DEF InUse, RequestMade
  <2>3. FetchCnt \in Nat \ {0, 1}
    BY PersAssumption DEF PersAssumption
  <2>4. m < FetchCnt
    BY <2>2, <2>3
  <2> QED BY <1>1, <2>1, <2>3, <2>4, FetchRing
<1>6. /\ beg[f] = s /\ \A i \in Bufs : fetch[i].val # 0 <=> FAhead(i) < m
      /\ \A i \in Bufs : FAhead(i) + 1 < m => beg[Round(FetchCnt, i + 1)] = beg[i] + fetch[i].val
      /\ \A i \in Bufs : FAhead(i) + 1 = m => beg[i] + fetch[i].val = s
      /\ \A i \in Bufs : /\ Held(i) => beg[i] % LineQw = 0
                         /\ fetch[i].val # 0 => beg[i] + fetch[i].val <= n
  BY <1>2, <1>4, <1>5 DEF Fetching, InUse, Starts
<1>7. /\ qws \in Nat /\ r + qws <= LineQw /\ val \in Nat /\ val <= r + qws
      /\ iBlkRdCnt' \in Nat
      /\ iBlkRdCnt' # 0 => (q + qws) + iBlkRdCnt' = n
      /\ val = 0 => ~B64 /\ iBlkRdCnt' # 0 /\ qws = 1 /\ (q + qws) % LineQw = r + 1
      /\ val # 0 /\ iBlkRdCnt' = 0 => s + val = n
      /\ val # 0 /\ iBlkRdCnt' # 0 => val = LineQw /\ q + qws = s + val /\ (q + qws) % LineQw = 0
  <2>1. iBlkRdCnt' = c - cnt
    BY DEF RequestMade
  <2>2. val \in 0..r+qws
    BY DEF Request, r
  <2>3. /\ qws \in Nat /\ r + qws <= LineQw
        /\ c - cnt \in Nat
        /\ c - cnt # 0 => (q + qws) + (c - cnt) = q + c
        /\ val = 0 => ~B64 /\ c - cnt # 0 /\ qws = 1 /\ (q + qws) % LineQw = r + 1
        /\ val # 0 /\ c - cnt = 0 => s + val = q + c
        /\ val # 0 /\ c - cnt # 0 => val = LineQw /\ q + qws = s + val /\ (q + qws) % LineQw = 0
    BY DEF Request, r, s
  <2> QED BY <1>3, <1>4, <2>1, <2>2, <2>3
<1>8. /\ b \in Nat /\ b \in 0..IBlkCnt-1 /\ iBlkRdAdr' = <<b, q + qws>>
      /\ iBlkRdAdr'[1] = b /\ iBlkRdAdr'[2] = q + qws
  <2>1. b \in 0..IBlkCnt-1
    BY <1>2 DEF Fetching, Block
  <2> QED BY <2>1, PersAssumption DEF PersAssumption, RequestMade
<1>9. Part' = (IF val = 0 THEN r + 1 ELSE 0) /\ LineStart(n)' = s + val
  <2>1. Part' = IF val = 0 THEN r + 1 ELSE 0
    BY <1>7, <1>8 DEF Part
  <2>2. CASE val = 0
    <3>1. LineStart(n)' = (q + 1) - (r + 1)
      BY <1>7, <1>8, <2>1, <2>2 DEF LineStart
    <3>2. r \in Int /\ (q + 1) - (r + 1) = q - r
      BY <1>3
    <3>3. s + val = q - r
      BY <1>3, <2>2, <3>2 DEF s
    <3> QED BY <2>1, <2>2, <3>1, <3>2, <3>3
  <2>3. CASE val # 0
    <3>1. LineStart(n)' = IF iBlkRdCnt' = 0 THEN n ELSE (q + qws) - 0
      BY <1>8, <2>1, <2>3 DEF LineStart
    <3>2. iBlkRdCnt' = 0 => s + val = n
      BY <1>7, <2>3
    <3>3. iBlkRdCnt' # 0 => s + val = (q + qws) - 0
      <4>1. q + qws \in Nat
        BY <1>7
      <4> QED BY <1>7, <2>3, <4>1
    <3> QED BY <2>1, <2>3, <3>1, <3>2, <3>3
  <2> QED BY <2>1, <2>2, <2>3
<1> DEFINE new == {<<b, q + i>> : i \in 0..qws-1}
<1>10. /\ DOMAIN fetch' = Bufs /\ \A i \in Bufs : i # f => fetch'[i] = fetch[i]
       /\ DOMAIN fetch'[f] = {"pend", "val", "dat"} /\ fetch'[f].val = val
       /\ fetch'[f].dat = fetch[f].dat /\ fetch'[f].pend = fetch[f].pend \cup new
  <2>1. fetch' = [fetch EXCEPT ![f].pend = @ \cup new, ![f].val = val]
    BY DEF RequestMade
  <2> HIDE DEF new
  <2> QED BY <1>1, <2>1 DEF FetchTypes
<1> DEFINE g == Round(FetchCnt, f + 1)
           m2 == IF val = 0 THEN m ELSE m + 1
<1>11. g \in Bufs /\ (m + 1 < FetchCnt => FAhead(g) = m + 1) /\ iBlkFetchIdx' \in Bufs
       /\ iBlkFetchIdx' = IF val = 0 THEN f ELSE g
  BY <1>1, <1>5 DEF RequestMade
<1> HIDE DEF g
<1>12. FetchTypes'
  <2>1. new \subseteq Nat \X Nat
    BY <1>7, <1>8
  <2>2. fetch'[f].pend \subseteq Nat \X Nat
    BY <1>1, <1>10, <2>1 DEF FetchTypes
  <2>3. iBlkPushIdx' \in Bufs /\ iBlkPushCnt' \in Nat
    BY <1>1 DEF FetchTypes, RequestMade
  <2> HIDE DEF new
  <2> QED BY <1>1, <1>7, <1>10, <1>11, <2>2, <2>3 DEF FetchTypes
<1>a. PICK beg2 : beg2 = IF val # 0 /\ m + 1 < FetchCnt THEN [beg EXCEPT ![g] = s + val] ELSE beg
  OBVIOUS
<1>13. /\ m2 \in 0..FetchCnt /\ beg2 \in [Bufs -> Nat]
       /\ \A i \in Bufs : FAhead(i) <= m => beg2[i] = beg[i]
       /\ val # 0 /\ m + 1 < FetchCnt => beg2[g] = s + val
  <2>1. m2 \in 0..FetchCnt
    BY <1>5
  <2>2. CASE val # 0 /\ m + 1 < FetchCnt
    <3>1. beg2 = [beg EXCEPT ![g] = s + val] /\ s + val \in Nat
      BY <1>3, <1>7, <1>a, <2>2
    <3>2. \A i \in Bufs : FAhead(i) <= m => i # g
      BY <1>5, <1>11, <2>2
    <3> HIDE DEF m2
    <3> QED BY <1>11, <2>1, <3>1, <3>2
  <2>3. CASE ~(val # 0 /\ m + 1 < FetchCnt)
    <3>1. beg2 = beg
      BY <1>a, <2>3
    <3> HIDE DEF m2
    <3> QED BY <2>1, <2>3, <3>1
  <2> QED BY <2>2, <2>3
<1>14. \A i \in Bufs : FAhead(i)' = FAhead(i) /\ Given(i)' = Given(i)
  BY DEF FAhead, Given, RequestMade
<1>15. \A i \in Bufs : fetch'[i].val # 0 <=> FAhead(i) < m2
  BY <1>5, <1>6, <1>10, SMTT(30)
<1>16. \A i \in Bufs : ~(FAhead(i) <= m) => fetch'[i].val = 0 /\ fetch'[i].pend = {}
  <2> SUFFICES ASSUME NEW i \in Bufs, ~(FAhead(i) <= m)
               PROVE  fetch'[i].val = 0 /\ fetch'[i].pend = {}
    OBVIOUS
  <2>1. i # f /\ ~(FAhead(i) < m)
    BY <1>5
  <2>2. fetch[i].val = 0 /\ ~Held(i)
    BY <1>6, <2>1 DEF Held
  <2>3. fetch[i].pend = {}
    BY <1>2, <2>2 DEF Fetching, Contents
  <2> QED BY <1>10, <2>1, <2>2, <2>3
<1>17. Block(X, P, n)'
  <2>1. UNCHANGED <<iBlkRdIdx, iBlk, inSent>> /\ iBlkRdAdr'[1] = iBlkRdAdr[1]
    BY <1>8 DEF RequestMade
  <2> QED BY <1>2, <2>1 DEF Fetching, Block
<1>18. ToRead(n)'
  <2>1. iBlkState' = "READ"
    BY DEF RequestMade
  <2>2. iBlkRdAdr'[2] \in Nat /\ iBlkRdAdr' = <<iBlkRdAdr'[1], iBlkRdAdr'[2]>>
    BY <1>7, <1>8
  <2>3. iBlkRdCnt' # 0 => iBlkRdAdr'[2] + iBlkRdCnt' = n
    BY <1>7, <1>8
  <2>4. B64 => Part' = 0
    BY <1>7, <1>9
  <2>5. iBlkRdCnt' \in Nat
    BY <1>7
  <2> QED BY <2>1, <2>2, <2>3, <2>4, <2>5 DEF ToRead
<1>19. InUse(m2)'
  <2>1. UNCHANGED <<iBlkPushIdx, iBlkPushCnt>> /\ iBlkPushIdx \in Bufs
    BY <1>1 DEF RequestMade, FetchTypes
  <2>2. iBlkFetchIdx = Round(FetchCnt, iBlkPushIdx + m) /\ (m = 0 => iBlkPushCnt = 0)
    BY <1>2 DEF Fetching, InUse
  <2>3. g = Round(FetchCnt, iBlkPushIdx + (m + 1))
    BY <1>1, <1>5, <2>2, FetchRing DEF g
  <2>4. iBlkFetchIdx' = Round(FetchCnt, iBlkPushIdx' + m2)
    BY <1>11, <2>1, <2>2, <2>3
  <2>5. m2 = 0 => iBlkPushCnt' = 0
    BY <1>5, <2>1, <2>2
  <2>6. m2 = FetchCnt => Part' = 0
    BY <1>5, <1>9
  <2> HIDE DEF m2
  <2> QED BY <1>1, <1>14, <1>15, <2>4, <2>5, <2>6 DEF InUse
<1>20. Starts(n, m2, beg2)'
  <2>1. ASSUME NEW i \in Bufs, FAhead(i) + 1 < m2
        PROVE  beg2[Round(FetchCnt, i + 1)] = beg2[i] + fetch'[i].val
    <3>1. FAhead(i) < m /\ FAhead(i) + 1 <= m /\ FAhead(i) + 1 < FetchCnt
      BY <1>5, <2>1
    <3>2. fetch'[i].val = fetch[i].val /\ beg2[i] = beg[i]
      <4>1. i # f /\ FAhead(i) <= m
        BY <1>5, <3>1
      <4> QED BY <1>10, <1>13, <4>1
    <3> DEFINE k == Round(FetchCnt, i + 1)
    <3>3. k \in Bufs /\ FAhead(k) = FAhead(i) + 1
      BY <1>5, <3>1
    <3>4. beg2[k] = beg[k]
      BY <1>13, <3>1, <3>3
    <3>5. CASE FAhead(i) + 1 < m
      BY <1>6, <3>2, <3>4, <3>5
    <3>6. CASE ~(FAhead(i) + 1 < m)
      <4>1. FAhead(i) + 1 = m
        BY <1>5, <3>1, <3>6
      <4>2. k = f
        BY <1>5, <3>3, <4>1
      <4> QED BY <1>6, <3>2, <3>4, <4>1, <4>2
    <3> QED BY <3>5, <3>6
  <2>2. ASSUME NEW i \in Bufs, FAhead(i) + 1 = m2
        PROVE  beg2[i] + fetch'[i].val = s + val
    <3>1. CASE val = 0
      <4>1. FAhead(i) + 1 = m /\ FAhead(i) <= m /\ i # f
        BY <1>5, <2>2, <3>1
      <4>2. beg2[i] = beg[i] /\ fetch'[i].val = fetch[i].val
        BY <1>10, <1>13, <4>1
      <4> QED BY <1>3, <1>6, <3>1, <4>1, <4>2
    <3>2. CASE val # 0
      <4>1. FAhead(i) = m
        BY <1>5, <2>2, <3>2
      <4>2. i = f /\ FAhead(i) <= m
        BY <1>5, <4>1
      <4> QED BY <1>6, <1>10, <1>13, <4>2
    <3> QED BY <3>1, <3>2
  <2>3. m2 < FetchCnt => beg2[iBlkFetchIdx'] = s + val
    <3>1. CASE val = 0
      <4>1. iBlkFetchIdx' = f /\ FAhead(f) <= m
        BY <1>1, <1>5, <1>11, <3>1
      <4>2. beg2[f] = s
        BY <1>1, <1>6, <1>13, <4>1
      <4> QED BY <1>3, <3>1, <4>1, <4>2
    <3>2. CASE val # 0
      BY <1>11, <1>13, <3>2
    <3> QED BY <3>1, <3>2
  <2>4. ASSUME NEW i \in Bufs
        PROVE  /\ Held(i)' => beg2[i] % LineQw = 0
               /\ fetch'[i].val # 0 => beg2[i] + fetch'[i].val <= n
    <3>1. CASE i = f
      <4>1. beg2[i] = s /\ fetch'[i].val = val
        <5>1. FAhead(i) <= m
          BY <1>5, <3>1
        <5> QED BY <1>6, <1>10, <1>13, <3>1, <5>1
      <4>2. val # 0 => s + val <= n
        <5>1. CASE iBlkRdCnt' = 0
          BY <1>3, <1>7, <5>1
        <5>2. ASSUME iBlkRdCnt' # 0, val # 0 PROVE s + val <= n
          <6>1. s + val = q + qws /\ (q + qws) + iBlkRdCnt' = n
            BY <1>7, <5>2
          <6>2. q + qws \in Nat /\ iBlkRdCnt' \in Nat
            BY <1>7
          <6>3. q + qws <= n
            BY <6>1, <6>2
          <6> QED BY <6>1, <6>3
        <5> QED BY <5>1, <5>2
      <4> QED BY <1>3, <4>1, <4>2
    <3>2. CASE i # f /\ FAhead(i) < m
      <4>1. beg2[i] = beg[i] /\ fetch'[i].val = fetch[i].val /\ fetch[i].val # 0
        <5>1. FAhead(i) <= m
          BY <1>5, <3>2
        <5> QED BY <1>6, <1>10, <1>13, <3>2, <5>1
      <4>2. Held(i)
        BY <4>1 DEF Held
      <4> QED BY <1>6, <4>1, <4>2
    <3>3. CASE i # f /\ ~(FAhead(i) < m)
      <4>1. fetch'[i].val = 0
        <5>1. ~(FAhead(i) <= m)
          BY <1>5, <3>3
        <5> QED BY <1>16, <5>1
      <4>2. ASSUME Held(i)' PROVE beg2[i] % LineQw = 0
        <5>1. i = iBlkFetchIdx' /\ iBlkRdCnt' # 0
          BY <4>1, <4>2 DEF Held
        <5>2. i = g /\ val # 0
          BY <1>11, <3>3, <5>1
        <5>3. m + 1 < FetchCnt
          <6>1. ~(FAhead(i) < m + 1)
            BY <1>15, <4>1, <5>2
          <6> QED BY <1>5, <6>1
        <5>4. beg2[i] = s + val
          BY <1>13, <5>2, <5>3
        <5> QED BY <1>7, <5>1, <5>2, <5>4
      <4> QED BY <4>1, <4>2
    <3> QED BY <3>1, <3>2, <3>3
  <2> HIDE DEF m2
  <2> QED BY <1>1, <1>9, <1>14, <2>1, <2>2, <2>3, <2>4 DEF Starts
<1>21. Contents(beg2)'
  <2>1. iBlkRdAdr'[1] = b /\ iBlk' = iBlk
    BY <1>8 DEF RequestMade
  <2> SUFFICES ASSUME NEW i \in Bufs
               PROVE  /\ fetch'[i].val # 0 => Given(i)' < fetch'[i].val /\ fetch'[i].val <= LineQw
                      /\ \A a \in fetch'[i].pend :
                           Held(i)' /\ a[1] = b /\ a[2] \in beg2[i]..beg2[i]+LineQw-1
                      /\ \A j \in Given(i)'..Got(i)'-1 : <<b, beg2[i] + j>> \notin fetch'[i].pend =>
                           fetch'[i].dat[j] = iBlk[b][beg2[i] + j]
    BY <1>1, <2>1 DEF Contents
  <2>2. /\ fetch[i].val # 0 => Given(i) < fetch[i].val /\ fetch[i].val <= LineQw
        /\ \A a \in fetch[i].pend :
             Held(i) /\ a[1] = b /\ a[2] \in beg[i]..beg[i]+LineQw-1
        /\ \A j \in Given(i)..Got(i)-1 : <<b, beg[i] + j>> \notin fetch[i].pend =>
             fetch[i].dat[j] = iBlk[b][beg[i] + j]
    BY <1>2 DEF Fetching, Contents
  <2>3. CASE FAhead(i) < m
    <3>1. fetch'[i] = fetch[i] /\ beg2[i] = beg[i] /\ fetch[i].val # 0
      <4>1. i # f /\ FAhead(i) <= m
        BY <1>5, <2>3
      <4> QED BY <1>6, <1>10, <1>13, <2>3, <4>1
    <3>2. Held(i)' /\ Got(i)' = Got(i)
      BY <3>1 DEF Held, Got
    <3> QED BY <1>14, <2>2, <3>1, <3>2
  <2>4. CASE i = f
    <3>1. FAhead(f) = m /\ fetch[f].val = 0 /\ beg2[f] = s /\ beg[f] = s
      <4>1. FAhead(f) = m /\ FAhead(f) <= m /\ ~(FAhead(f) < m)
        BY <1>1, <1>5
      <4> QED BY <1>1, <1>6, <1>13, <4>1
    <3>2. Given(i) = 0
      <4>1. f = iBlkPushIdx => m = 0
        BY <1>1, <1>5, <3>1
      <4> QED BY <1>2, <2>4, <4>1 DEF Fetching, InUse, Given
    <3>3. Held(i)'
      <4>1. val = 0 => iBlkFetchIdx' = f /\ iBlkRdCnt' # 0
        BY <1>7, <1>11
      <4> QED BY <1>10, <2>4, <4>1 DEF Held
    <3>4. Got(i) = r /\ Got(i)' \in 0..r+qws
      <4>1. Got(i) = r
        BY <1>4, <2>4, <3>1 DEF Got
      <4>2. CASE val = 0
        <5>1. Got(i)' = Part'
          BY <1>10, <1>11, <2>4, <4>2 DEF Got
        <5> QED BY <1>3, <1>7, <1>9, <4>1, <4>2, <5>1
      <4>3. CASE val # 0
        <5>1. Got(i)' = val
          BY <1>10, <2>4, <4>3 DEF Got
        <5> QED BY <1>7, <4>1, <5>1
      <4> QED BY <4>2, <4>3
    <3>5. val # 0 => 0 < val /\ val <= LineQw
      BY <1>3, <1>7
    <3>6. ASSUME NEW a \in new PROVE a[1] = b /\ a[2] \in s..s+LineQw-1
      <4>1. PICK k \in 0..qws-1 : a = <<b, q + k>>
        BY <3>6
      <4>2. q + k \in s..s+LineQw-1
        BY <1>3, <1>7, <4>1 DEF s
      <4> QED BY <4>1, <4>2
    <3>7. ASSUME NEW j \in 0..Got(i)'-1, <<b, s + j>> \notin fetch'[f].pend
          PROVE  fetch'[f].dat[j] = iBlk[b][s + j]
      <4>1. <<b, s + j>> \notin fetch[f].pend /\ <<b, s + j>> \notin new
        BY <1>10, <3>7
      <4>2. j \in 0..(r+qws)-1
        BY <1>3, <1>7, <3>4
      <4>3. j < r
        <5>1. SUFFICES ASSUME ~(j < r) PROVE FALSE
          OBVIOUS
        <5>2. j - r \in 0..qws-1 /\ q + (j - r) = s + j
          BY <1>3, <1>7, <4>2, <5>1 DEF s
        <5>3. <<b, q + (j - r)>> \in new
          BY <5>2
        <5> QED BY <4>1, <5>2, <5>3
      <4>4. j \in 0..r-1
        BY <1>3, <4>2, <4>3
      <4> QED BY <1>10, <2>2, <2>4, <3>1, <3>2, <3>4, <4>1, <4>4
    <3> HIDE DEF new
    <3>8. fetch'[i].val # 0 => Given(i)' < fetch'[i].val /\ fetch'[i].val <= LineQw
      BY <1>10, <1>14, <2>4, <3>2, <3>5
    <3>9. ASSUME NEW a \in fetch'[i].pend PROVE a[1] = b /\ a[2] \in beg2[i]..beg2[i]+LineQw-1
      <4>1. a \in fetch[i].pend \/ a \in new
        BY <1>10, <2>4, <3>9
      <4> QED BY <2>2, <2>4, <3>1, <3>6, <4>1
    <3>10. ASSUME NEW j \in Given(i)'..Got(i)'-1, <<b, beg2[i] + j>> \notin fetch'[i].pend
           PROVE  fetch'[i].dat[j] = iBlk[b][beg2[i] + j]
      BY <1>14, <2>4, <3>1, <3>2, <3>7, <3>10
    <3> QED BY <3>3, <3>8, <3>9, <3>10
  <2>5. CASE ~(FAhead(i) <= m)
    <3>1. fetch'[i].val = 0 /\ fetch'[i].pend = {}
      BY <1>16, <2>5
    <3>2. Got(i)' = 0
      <4>1. i # f
        BY <1>5, <2>5
      <4>2. i = iBlkFetchIdx' => Part' = 0
        BY <1>9, <1>11, <4>1
      <4> QED BY <3>1, <4>2 DEF Got
    <3>3. Given(i)' \in Nat
      BY <1>12 DEF FetchTypes, Given
    <3>4. Given(i)'..Got(i)'-1 = {}
      BY <3>2, <3>3
    <3> QED BY <3>1, <3>4
  <2>6. FAhead(i) < m \/ i = f \/ ~(FAhead(i) <= m)
    BY <1>5
  <2> QED BY <2>3, <2>4, <2>5, <2>6
<1>22. Handed' = P + beg2[iBlkPushIdx'] + iBlkPushCnt'
  <2>1. UNCHANGED <<iBlkPushIdx, iBlkPushCnt>> /\ iBlkPushIdx \in Bufs
    BY <1>1 DEF RequestMade, FetchTypes
  <2>2. FAhead(iBlkPushIdx) = 0 /\ 0 <= m
    BY <1>5, <2>1
  <2>3. beg2[iBlkPushIdx] = beg[iBlkPushIdx]
    BY <1>13, <2>1, <2>2
  <2> QED BY <1>2, <2>1, <2>3 DEF Fetching
<1>23. Fetching(X, P, n, m2, beg2)'
  BY <1>17, <1>18, <1>19, <1>20, <1>21, <1>22 DEF Fetching
<1>24. iBlkState' # "IDLE"
  BY DEF RequestMade
<1> QED BY <1>1, <1>2, <1>12, <1>13, <1>23, <1>24 DEF InBlock


(* The arithmetic of handing over word k of the buffer that holds the words from s on: the word is one
   of the n words of the block, and the place of the next word is that of the buffer or of the next. *)
LEMMA WordPlace ==
  ASSUME NEW P \in Nat, NEW s \in Nat, NEW k \in Nat, NEW v \in Nat, NEW n \in Nat, k < v, s + v <= n
  PROVE  /\ s + k \in 0..n-1 /\ P + s + k \in Nat /\ P + s + k < P + n
         /\ (P + s + k) + 1 = P + (s + k) + 1 /\ (P + s + k) + 1 = P + s + (k + 1)
         /\ k + 1 = v => (P + s + k) + 1 = P + (s + v) + 0
OBVIOUS

\* A word is handed to HTI: it is the next of what was sent.  With the last one
\* of a line the buffer is free, and the next line's turn comes.
LEMMA InBlockPush ==
  ASSUME NEW X, InBlock(X), iBlkState # "IDLE", PushReady, Len(inSent) \in Nat,
         NEW last \in BOOLEAN, last <=> iBlkPushCnt + 1 = fetch[iBlkPushIdx].val,
         fetch' = [fetch EXCEPT ![iBlkPushIdx] =
                     IF last THEN NoFetch ELSE [fetch[iBlkPushIdx] EXCEPT !.dat[iBlkPushCnt] = 0]],
         iBlkPushCnt' = IF last THEN 0 ELSE iBlkPushCnt + 1,
         iBlkPushIdx' = IF last THEN Round(FetchCnt, iBlkPushIdx + 1) ELSE iBlkPushIdx,
         UNCHANGED <<iBlkState, iBlkRdCnt, iBlkRdAdr, iBlkRdIdx, iBlkFetchIdx>>,
         UNCHANGED <<iBlk, inSent>>, Handed' = Handed + 1
  PROVE  /\ InBlock(X)' /\ Handed < Len(inSent)
         /\ inSent[Handed + 1] = Item("DATA", fetch[iBlkPushIdx].dat[iBlkPushCnt])
<1>1. FetchTypes /\ Bufs' = Bufs
  BY DEF InBlock, Bufs
<1>2. PICK P \in Nat, n \in 1..BlkQw, m \in 0..FetchCnt, beg \in [Bufs -> Nat] :
        Fetching(X, P, n, m, beg)
  BY DEF InBlock
<1>3. PICK e, k, v, b, x, z : /\ e = iBlkPushIdx /\ k = iBlkPushCnt /\ v = fetch[e].val
                              /\ b = iBlkRdAdr[1] /\ x = iBlkFetchIdx /\ z = LineStart(n)
  OBVIOUS
<1>4. /\ e \in Bufs /\ x \in Bufs /\ k \in Nat /\ v \in Nat /\ v # 0 /\ fetch[e].pend = {}
      /\ DOMAIN fetch = Bufs /\ DOMAIN fetch[e] = {"pend", "val", "dat"}
      /\ DOMAIN fetch[e].dat = 0..LineQw-1
  BY <1>1, <1>3 DEF FetchTypes, PushReady
<1>5. /\ InUse(m) /\ x = Round(FetchCnt, e + m) /\ FetchCnt \in Nat \ {0, 1}
      /\ \A i \in Bufs : /\ FAhead(i) \in 0..FetchCnt-1
                         /\ FAhead(i) = 0 <=> i = e
                         /\ Round(FetchCnt, i + 1) \in Bufs
                         /\ FAhead(i) + 1 < FetchCnt => FAhead(Round(FetchCnt, i + 1)) = FAhead(i) + 1
      /\ m < FetchCnt => \A i \in Bufs : FAhead(i) = m <=> i = x
      /\ m = FetchCnt => x = e
  <2>1. InUse(m)
    BY <1>2 DEF Fetching
  <2>2. x = Round(FetchCnt, e + m)
    BY <1>3, <2>1 DEF InUse
  <2> QED BY <1>1, <1>3, <2>1, <2>2, FetchRing
<1>6. \A i \in Bufs : fetch[i].val # 0 <=> FAhead(i) < m
  BY <1>5 DEF InUse
<1>7. 0 < m /\ m \in Nat /\ m <= FetchCnt
  <2>1. FAhead(e) = 0 /\ FAhead(e) < m
    BY <1>3, <1>4, <1>5, <1>6
  <2> QED BY <1>5, <2>1
<1>8. /\ \A i \in Bufs : FAhead(i) + 1 < m => beg[Round(FetchCnt, i + 1)] = beg[i] + fetch[i].val
      /\ \A i \in Bufs : FAhead(i) + 1 = m => beg[i] + fetch[i].val = z
      /\ m < FetchCnt => beg[x] = z
      /\ \A i \in Bufs : /\ Held(i) => beg[i] % LineQw = 0
                         /\ fetch[i].val # 0 => beg[i] + fetch[i].val <= n
  BY <1>2, <1>3 DEF Fetching, Starts
<1>9. \A i \in Bufs :
        /\ fetch[i].val # 0 => Given(i) < fetch[i].val /\ fetch[i].val <= LineQw
        /\ \A a \in fetch[i].pend : Held(i) /\ a[1] = b /\ a[2] \in beg[i]..beg[i]+LineQw-1
        /\ \A j \in Given(i)..Got(i)-1 : <<b, beg[i] + j>> \notin fetch[i].pend =>
             fetch[i].dat[j] = iBlk[b][beg[i] + j]
  BY <1>2, <1>3 DEF Fetching, Contents
<1>10. Given(e) = k /\ Got(e) = v /\ k < v /\ v <= LineQw /\ beg[e] \in Nat /\ beg[e] + v <= n
       /\ LineQw \in Nat
  <2>1. Given(e) = k /\ Got(e) = v
    BY <1>3, <1>4 DEF Given, Got
  <2> QED BY <1>3, <1>4, <1>8, <1>9, <2>1, PersAssumption, SMTT(30) DEF PersAssumption
<1>11. fetch[e].dat[k] = iBlk[b][beg[e] + k]
  <2>1. k \in k..v-1
    BY <1>4, <1>10
  <2> QED BY <1>4, <1>9, <1>10, <2>1
<1>12. /\ P + n = X /\ X <= Len(inSent)
       /\ \A w \in 0..n-1 : inSent[P + w + 1] = Item("DATA", iBlk[b][w])
  BY <1>2, <1>3 DEF Fetching, Block
<1>13. Handed = P + beg[e] + k
  BY <1>2, <1>3 DEF Fetching
<1>14. Handed < Len(inSent) /\ inSent[Handed + 1] = Item("DATA", fetch[e].dat[k])
  <2>a. PICK s \in Nat : s = beg[e] /\ s + v <= n
    BY <1>10
  <2>b. /\ s + k \in 0..n-1 /\ P + s + k \in Nat /\ P + s + k < P + n
        /\ (P + s + k) + 1 = P + (s + k) + 1
    BY <1>4, <1>10, <2>a, WordPlace, SMTT(30)
  <2>1. beg[e] + k \in 0..n-1
    BY <2>a, <2>b
  <2>2. Handed + 1 = P + (beg[e] + k) + 1
    BY <1>13, <2>a, <2>b
  <2>3. Handed < X /\ Handed \in Nat
    BY <1>12, <1>13, <2>a, <2>b
  <2>4. inSent[P + (beg[e] + k) + 1] = Item("DATA", iBlk[b][beg[e] + k])
    BY <1>12, <2>1
  <2>5. Handed < Len(inSent)
    <3>1. X \in Nat
      BY <1>12
    <3> QED BY <1>12, <2>3, <3>1
  <2> QED BY <1>11, <2>2, <2>4, <2>5
<1>15. UNCHANGED <<iBlkRdAdr, iBlkRdIdx, iBlk, inSent, iBlkState, iBlkFetchIdx, iBlkRdCnt>>
       /\ Part' = Part /\ LineStart(n)' = z /\ iBlkRdAdr'[1] = b
  BY <1>3 DEF Part, LineStart
<1>16. Block(X, P, n)' /\ ToRead(n)'
  BY <1>2, <1>15 DEF Fetching, Block, ToRead
<1>17. CASE ~last
  <2>1. /\ k + 1 < v /\ iBlkPushCnt' = k + 1 /\ iBlkPushIdx' = e
        /\ fetch' = [fetch EXCEPT ![e] = [fetch[e] EXCEPT !.dat[k] = 0]]
    BY <1>3, <1>4, <1>10, <1>17
  <2>2. /\ DOMAIN fetch' = Bufs /\ \A i \in Bufs : i # e => fetch'[i] = fetch[i]
        /\ DOMAIN fetch'[e] = {"pend", "val", "dat"} /\ fetch'[e].pend = {} /\ fetch'[e].val = v
        /\ DOMAIN fetch'[e].dat = 0..LineQw-1
        /\ \A j \in 0..LineQw-1 : j # k => fetch'[e].dat[j] = fetch[e].dat[j]
    BY <1>3, <1>4, <2>1
  <2>3. FetchTypes'
    <3>1. iBlkPushIdx' \in Bufs /\ iBlkFetchIdx' \in Bufs /\ iBlkPushCnt' \in Nat
      BY <1>3, <1>4, <1>15, <2>1
    <3>2. \A i \in Bufs : /\ DOMAIN fetch'[i] = {"pend", "val", "dat"} /\ fetch'[i].val \in Nat
                           /\ fetch'[i].pend \subseteq Nat \X Nat /\ DOMAIN fetch'[i].dat = 0..LineQw-1
      <4> SUFFICES ASSUME NEW i \in Bufs
                   PROVE  /\ DOMAIN fetch'[i] = {"pend", "val", "dat"} /\ fetch'[i].val \in Nat
                          /\ fetch'[i].pend \subseteq Nat \X Nat /\ DOMAIN fetch'[i].dat = 0..LineQw-1
        OBVIOUS
      <4>1. CASE i = e
        BY <1>4, <2>2, <4>1
      <4>2. CASE i # e
        <5>1. fetch'[i] = fetch[i]
          BY <2>2, <4>2
        <5> QED BY <1>1, <5>1 DEF FetchTypes
      <4> QED BY <4>1, <4>2
    <3> QED BY <1>1, <2>2, <3>1, <3>2 DEF FetchTypes
  <2>4. \A i \in Bufs : /\ fetch'[i].val = fetch[i].val /\ fetch'[i].pend = fetch[i].pend
                        /\ FAhead(i)' = FAhead(i) /\ Held(i)' = Held(i) /\ Got(i)' = Got(i)
    BY <1>3, <1>4, <1>15, <2>1, <2>2 DEF FAhead, Held, Got
  <2>5. InUse(m)' /\ Starts(n, m, beg)'
    <3>1. InUse(m)'
      <4>1. iBlkPushIdx' = iBlkPushIdx /\ iBlkFetchIdx' = iBlkFetchIdx /\ Bufs' = Bufs
        BY <1>1, <1>3, <1>15, <2>1
      <4>2. \A i \in Bufs : fetch'[i].val # 0 <=> FAhead(i)' < m
        BY <1>6, <2>4
      <4>3. m = FetchCnt => Part' = 0
        BY <1>5, <1>15 DEF InUse, Part
      <4> QED BY <1>5, <1>7, <4>1, <4>2, <4>3 DEF InUse
    <3> QED BY <1>1, <1>3, <1>8, <1>15, <2>4, <3>1 DEF Starts
  <2>6. Contents(beg)'
    <3> SUFFICES ASSUME NEW i \in Bufs
                 PROVE  /\ fetch'[i].val # 0 => Given(i)' < fetch'[i].val /\ fetch'[i].val <= LineQw
                        /\ \A a \in fetch'[i].pend :
                             Held(i)' /\ a[1] = b /\ a[2] \in beg[i]..beg[i]+LineQw-1
                        /\ \A j \in Given(i)'..Got(i)'-1 : <<b, beg[i] + j>> \notin fetch'[i].pend =>
                             fetch'[i].dat[j] = iBlk[b][beg[i] + j]
      BY <1>1, <1>15 DEF Contents
    <3>1. CASE i # e
      <4>1. Given(i)' = Given(i)
        BY <1>3, <2>1, <3>1 DEF Given
      <4>2. fetch'[i] = fetch[i] /\ Held(i)' = Held(i) /\ Got(i)' = Got(i)
        BY <2>2, <2>4, <3>1
      <4>3. /\ fetch[i].val # 0 => Given(i) < fetch[i].val /\ fetch[i].val <= LineQw
            /\ \A a \in fetch[i].pend : Held(i) /\ a[1] = b /\ a[2] \in beg[i]..beg[i]+LineQw-1
            /\ \A j \in Given(i)..Got(i)-1 : <<b, beg[i] + j>> \notin fetch[i].pend =>
                 fetch[i].dat[j] = iBlk[b][beg[i] + j]
        BY <1>9
      <4> QED BY <4>1, <4>2, <4>3
    <3>2. CASE i = e
      <4>1. Given(i)' = k + 1 /\ Got(i)' = v
        BY <1>10, <2>1, <2>4, <3>2 DEF Given
      <4>2. ASSUME NEW j \in k+1..v-1 PROVE fetch'[i].dat[j] = iBlk[b][beg[i] + j]
        <5>1. j \in k..v-1 /\ j \in 0..LineQw-1 /\ j # k
          BY <1>4, <1>10, SMTT(30)
        <5>2. <<b, beg[e] + j>> \notin fetch[e].pend /\ j \in Given(e)..Got(e)-1
          BY <1>4, <1>10, <5>1
        <5>3. fetch[e].dat[j] = iBlk[b][beg[e] + j]
          BY <1>4, <1>9, <5>2
        <5> QED BY <2>2, <3>2, <5>1, <5>3
      <4>3. fetch'[i].val = v /\ fetch'[i].pend = {}
        BY <2>2, <3>2
      <4> QED BY <1>10, <2>1, <4>1, <4>2, <4>3
    <3> QED BY <3>1, <3>2
  <2>7. Handed' = P + beg[iBlkPushIdx'] + iBlkPushCnt'
    <3>1. PICK s \in Nat : s = beg[e] /\ s + v <= n
      BY <1>10
    <3>2. (P + s + k) + 1 = P + s + (k + 1)
      BY <1>4, <1>10, <3>1, WordPlace
    <3> QED BY <1>13, <2>1, <3>1, <3>2
  <2>8. Fetching(X, P, n, m, beg)'
    BY <1>16, <2>5, <2>6, <2>7 DEF Fetching
  <2> QED BY <1>1, <1>2, <1>3, <1>14, <1>15, <2>3, <2>8 DEF InBlock
<1>18. CASE last
  <2>1. /\ k + 1 = v /\ iBlkPushCnt' = 0 /\ iBlkPushIdx' = Round(FetchCnt, e + 1)
        /\ fetch' = [fetch EXCEPT ![e] = NoFetch]
    BY <1>3, <1>18
  <2>2. PICK e2 : e2 = Round(FetchCnt, e + 1)
    OBVIOUS
  <2>3. /\ e2 \in Bufs /\ e2 # e
        /\ \A i \in Bufs : FAhead(i)' = IF i = e THEN FetchCnt - 1 ELSE FAhead(i) - 1
        /\ Round(FetchCnt, e2 + (m - 1)) = x
    <3>1. e \in 0..FetchCnt-1 /\ Bufs = 0..FetchCnt-1
      BY <1>4 DEF Bufs
    <3>a. FetchCnt \in Nat \ {0, 1}
      BY <1>5
    <3>2. /\ \A i \in 0..FetchCnt-1 : Dist(FetchCnt, e2, i) =
                IF i = e THEN FetchCnt - 1 ELSE Dist(FetchCnt, e, i) - 1
          /\ \A j \in 0..FetchCnt-1 : Round(FetchCnt, e2 + j) = Round(FetchCnt, e + j + 1)
      <4>1. \A i \in 0..FetchCnt-1 : Dist(FetchCnt, e2, i) =
                IF i = e THEN FetchCnt - 1 ELSE Dist(FetchCnt, e, i) - 1
        <5>1. e2 = IF e = FetchCnt - 1 THEN 0 ELSE e + 1
          BY <2>2, <3>1, <3>a DEF Round
        <5>2. CASE e = FetchCnt - 1
          BY <3>1, <3>a, <5>1, <5>2 DEF Dist
        <5>3. CASE e # FetchCnt - 1
          <6> SUFFICES ASSUME NEW i \in 0..FetchCnt-1
                       PROVE  Dist(FetchCnt, e2, i) =
                                IF i = e THEN FetchCnt - 1 ELSE Dist(FetchCnt, e, i) - 1
            OBVIOUS
          <6>1. e2 = e + 1 /\ e \in Nat /\ i \in Nat
            BY <3>1, <5>1, <5>3
          <6>2. CASE i < e
            BY <3>a, <6>1, <6>2 DEF Dist
          <6>3. CASE i = e
            BY <3>a, <6>1, <6>3 DEF Dist
          <6>4. CASE i > e
            BY <3>a, <6>1, <6>4 DEF Dist
          <6> QED BY <6>1, <6>2, <6>3, <6>4
        <5> QED BY <5>2, <5>3
      <4>2. \A j \in 0..FetchCnt-1 : Round(FetchCnt, e2 + j) = Round(FetchCnt, e + j + 1)
        BY <2>2, <3>1, <3>a, SMTT(30) DEF Round
      <4> QED BY <4>1, <4>2
    <3>3. e2 \in Bufs /\ e2 # e
      BY <2>2, <3>1, <3>a, RingNext
    <3>4. m - 1 \in 0..FetchCnt-1 /\ e + (m - 1) + 1 = e + m
      BY <1>7, <3>1, <3>a
    <3> QED BY <1>3, <1>5, <2>1, <2>2, <3>1, <3>2, <3>3, <3>4 DEF FAhead
  <2>4. /\ DOMAIN fetch' = Bufs /\ \A i \in Bufs : i # e => fetch'[i] = fetch[i]
        /\ DOMAIN fetch'[e] = {"pend", "val", "dat"} /\ fetch'[e].pend = {} /\ fetch'[e].val = 0
        /\ DOMAIN fetch'[e].dat = 0..LineQw-1
    BY <1>4, <2>1 DEF NoFetch
  <2>5. FetchTypes'
    <3>1. iBlkPushIdx' \in Bufs /\ iBlkFetchIdx' \in Bufs /\ iBlkPushCnt' \in Nat
      BY <1>1, <1>15, <2>1, <2>2, <2>3 DEF FetchTypes
    <3>2. \A i \in Bufs : i # e => /\ DOMAIN fetch'[i] = {"pend", "val", "dat"}
                                  /\ fetch'[i].val \in Nat /\ fetch'[i].pend \subseteq Nat \X Nat
                                  /\ DOMAIN fetch'[i].dat = 0..LineQw-1
      BY <1>1, <2>4, SMTT(30) DEF FetchTypes
    <3> QED BY <1>1, <2>4, <3>1, <3>2 DEF FetchTypes
  <2>6. PICK beg2 : beg2 = [beg EXCEPT ![e] = z]
    OBVIOUS
  <2>7. /\ beg2 \in [Bufs -> Nat] /\ beg2[e] = z
        /\ \A i \in Bufs : i # e => beg2[i] = beg[i]
    <3>1. z \in Nat
      <4>1. \A i \in Bufs : fetch[i].val \in Nat
        BY <1>1 DEF FetchTypes
      <4>2. m < FetchCnt \/ m = FetchCnt
        BY <1>5, <1>7
      <4>3. ASSUME m = FetchCnt PROVE z \in Nat
        <5>1. iBlkRdAdr[2] \in Nat /\ Part = 0
          BY <1>2, <1>5, <4>3 DEF Fetching, ToRead, InUse
        <5> QED BY <1>3, <5>1 DEF LineStart
      <4> QED BY <1>4, <1>8, <4>2, <4>3
    <3> QED BY <1>4, <2>6, <3>1
  <2>8. m - 1 \in 0..FetchCnt /\ m - 1 \in Nat /\ m - 1 < FetchCnt
    BY <1>5, <1>7
  <2>14. e = x => m = FetchCnt /\ Part = 0
    <3>1. FAhead(e) = 0
      BY <1>4, <1>5
    <3>2. e = x => m = FetchCnt
      BY <1>4, <1>5, <1>7, <3>1
    <3> QED BY <1>5, <3>2 DEF InUse
  <2>9. InUse(m - 1)'
    <3>1. ASSUME NEW i \in Bufs PROVE fetch'[i].val # 0 <=> FAhead(i)' < m - 1
      <4>1. FAhead(i) \in Nat /\ FetchCnt \in Nat
        BY <1>5
      <4>2. CASE i = e
        BY <1>7, <2>3, <2>4, <4>1, <4>2
      <4>3. CASE i # e
        <5>1. fetch'[i].val = fetch[i].val /\ FAhead(i)' = FAhead(i) - 1
          BY <2>3, <2>4, <4>3
        <5> QED BY <1>6, <1>7, <4>1, <5>1
      <4> QED BY <4>2, <4>3
    <3>2. m - 1 # FetchCnt
      BY <2>8
    <3> QED BY <1>1, <1>3, <1>15, <2>1, <2>2, <2>3, <3>1, <3>2 DEF InUse
  <2>10. Starts(n, m - 1, beg2)'
    <3>1. ASSUME NEW i \in Bufs, FAhead(i)' + 1 <= m - 1
          PROVE  /\ i # e /\ FAhead(i)' = FAhead(i) - 1 /\ FAhead(i) \in Nat
                 /\ FAhead(i) + 1 <= m
                 /\ FAhead(i) + 1 < FetchCnt \/ FAhead(i) + 1 = m
                 /\ fetch'[i].val = fetch[i].val /\ beg2[i] = beg[i]
      <4>1. FAhead(i) \in Nat /\ FetchCnt \in Nat
        BY <1>5
      <4>2. i # e
        <5>1. ~(FetchCnt <= m - 1)
          BY <1>7, <4>1
        <5> QED BY <2>3, <3>1, <4>1, <5>1
      <4>3. FAhead(i)' = FAhead(i) - 1
        BY <2>3, <4>2
      <4>4. FAhead(i) + 1 <= m
        BY <1>7, <3>1, <4>1, <4>3
      <4>5. FAhead(i) + 1 < FetchCnt \/ FAhead(i) + 1 = m
        BY <1>7, <4>1, <4>4
      <4> QED BY <2>4, <2>7, <4>1, <4>2, <4>3, <4>4, <4>5
    <3>2. ASSUME NEW i \in Bufs, FAhead(i)' + 1 < m - 1
          PROVE  beg2[Round(FetchCnt, i + 1)] = beg2[i] + fetch'[i].val
      <4>1. /\ i # e /\ FAhead(i)' = FAhead(i) - 1 /\ FAhead(i) \in Nat
            /\ fetch'[i].val = fetch[i].val /\ beg2[i] = beg[i]
        <5>1. FAhead(i)' \in Int
          <6>1. FAhead(i) \in Nat /\ FetchCnt \in Nat
            BY <1>5
          <6> QED BY <2>3, <6>1
        <5>2. FAhead(i)' + 1 <= m - 1
          BY <1>7, <3>2, <5>1
        <5> QED BY <3>1, <5>2
      <4>2. FAhead(i) + 1 < m
        BY <1>7, <3>2, <4>1
      <4>3. FAhead(i) + 1 < FetchCnt
        BY <1>5, <1>7, <4>1, <4>2
      <4> DEFINE j == Round(FetchCnt, i + 1)
      <4>4. j \in Bufs /\ FAhead(j) = FAhead(i) + 1
        BY <1>5, <4>3
      <4>5. FAhead(j) # 0
        BY <4>1, <4>4
      <4>6. j # e
        BY <1>5, <4>4, <4>5
      <4>7. beg2[j] = beg[j]
        BY <2>7, <4>4, <4>6
      <4> QED BY <1>8, <4>1, <4>2, <4>7
    <3>3. ASSUME NEW i \in Bufs, FAhead(i)' + 1 = m - 1
          PROVE  beg2[i] + fetch'[i].val = z
      <4>1. /\ i # e /\ FAhead(i)' = FAhead(i) - 1 /\ FAhead(i) \in Nat
            /\ fetch'[i].val = fetch[i].val /\ beg2[i] = beg[i]
        BY <1>7, <2>3, <3>1, <3>3
      <4>2. FAhead(i) + 1 = m
        BY <1>7, <3>3, <4>1
      <4> QED BY <1>8, <4>1, <4>2
    <3>4. beg2[x] = z
      <4>1. CASE m < FetchCnt
        <5>1. FAhead(x) # 0
          BY <1>4, <1>5, <1>7, <4>1
        <5>2. x # e
          BY <1>4, <1>5, <5>1
        <5> QED BY <1>4, <1>8, <2>7, <4>1, <5>2
      <4>2. CASE m = FetchCnt
        BY <1>5, <2>7, <4>2
      <4> QED BY <1>5, <1>7, <4>1, <4>2
    <3>5. ASSUME NEW i \in Bufs
          PROVE  /\ Held(i)' => beg2[i] % LineQw = 0
                 /\ fetch'[i].val # 0 => beg2[i] + fetch'[i].val <= n
      <4>1. CASE i # e
        <5>1. fetch'[i] = fetch[i] /\ beg2[i] = beg[i]
          BY <2>4, <2>7, <4>1
        <5>2. Held(i)' = Held(i)
          BY <1>15, <5>1 DEF Held
        <5> QED BY <1>8, <5>1, <5>2
      <4>2. CASE i = e
        <5>1. fetch'[i].val = 0 /\ beg2[i] = z
          BY <2>4, <2>7, <4>2
        <5>2. ASSUME Held(i)' PROVE z % LineQw = 0
          <6>1. e = x /\ iBlkRdCnt # 0
            BY <1>3, <1>15, <4>2, <5>1, <5>2 DEF Held
          <6>2. Part = 0 /\ iBlkRdAdr[2] \in Nat
            BY <1>2, <2>14, <6>1 DEF Fetching, ToRead
          <6>3. z = iBlkRdAdr[2] /\ iBlkRdAdr[2] % LineQw = 0
            BY <1>3, <6>1, <6>2 DEF LineStart, Part
          <6> QED BY <6>3
        <5> QED BY <5>1, <5>2
      <4> QED BY <4>1, <4>2
    <3> QED BY <1>1, <1>3, <1>15, <3>2, <3>3, <3>4, <3>5 DEF Starts
  <2>11. Contents(beg2)'
    <3> SUFFICES ASSUME NEW i \in Bufs
                 PROVE  /\ fetch'[i].val # 0 => Given(i)' < fetch'[i].val /\ fetch'[i].val <= LineQw
                        /\ \A a \in fetch'[i].pend :
                             Held(i)' /\ a[1] = b /\ a[2] \in beg2[i]..beg2[i]+LineQw-1
                        /\ \A j \in Given(i)'..Got(i)'-1 : <<b, beg2[i] + j>> \notin fetch'[i].pend =>
                             fetch'[i].dat[j] = iBlk[b][beg2[i] + j]
      BY <1>1, <1>15 DEF Contents
    <3>1. CASE i # e
      <4>1. Given(i) = 0 /\ Given(i)' = 0
        BY <1>3, <2>1, <3>1 DEF Given
      <4>2. fetch'[i] = fetch[i] /\ beg2[i] = beg[i]
        BY <2>4, <2>7, <3>1
      <4>3. Held(i)' = Held(i) /\ Got(i)' = Got(i)
        BY <1>15, <4>2 DEF Held, Got
      <4>4. /\ fetch[i].val # 0 => Given(i) < fetch[i].val /\ fetch[i].val <= LineQw
            /\ \A a \in fetch[i].pend : Held(i) /\ a[1] = b /\ a[2] \in beg[i]..beg[i]+LineQw-1
            /\ \A j \in Given(i)..Got(i)-1 : <<b, beg[i] + j>> \notin fetch[i].pend =>
                 fetch[i].dat[j] = iBlk[b][beg[i] + j]
        BY <1>9
      <4> QED BY <4>1, <4>2, <4>3, <4>4
    <3>2. CASE i = e
      <4>1. fetch'[i].val = 0 /\ fetch'[i].pend = {}
        BY <2>4, <3>2
      <4>2. Got(i)' = 0
        <5>1. i = x => Part = 0
          BY <3>2, <2>14
        <5> QED BY <1>3, <1>15, <4>1, <5>1 DEF Got
      <4>3. Given(i)' = 0
        BY <2>1 DEF Given
      <4>4. Given(i)'..Got(i)'-1 = {}
        BY <4>2, <4>3
      <4> QED BY <4>1, <4>4
    <3> QED BY <3>1, <3>2
  <2>12. Handed' = P + beg2[iBlkPushIdx'] + iBlkPushCnt'
    <3>1. FAhead(e) = 0
      BY <1>4, <1>5
    <3>2. beg[e2] = beg[e] + v
      <4>1. CASE 1 < m
        <5>1. FAhead(e) + 1 < m
          BY <3>1, <4>1
        <5> QED BY <1>3, <1>4, <1>8, <2>2, <5>1
      <4>2. CASE m = 1
        <5>1. FAhead(e) + 1 = m /\ m < FetchCnt
          BY <1>5, <3>1, <4>2
        <5>2. FAhead(e2) = m
          BY <1>4, <1>5, <2>2, <5>1
        <5>3. e2 = x
          BY <1>5, <2>3, <5>1, <5>2
        <5> QED BY <1>3, <1>4, <1>8, <5>1, <5>3
      <4> QED BY <1>7, <4>1, <4>2
    <3>3. beg2[e2] = beg[e2] /\ iBlkPushIdx' = e2
      BY <2>1, <2>2, <2>3, <2>7
    <3>4. PICK s \in Nat : s = beg[e] /\ s + v <= n
      BY <1>10
    <3>5. (P + s + k) + 1 = P + (s + v) + 0
      BY <1>4, <1>10, <2>1, <3>4, WordPlace, SMTT(30)
    <3> QED BY <1>13, <2>1, <3>2, <3>3, <3>4, <3>5
  <2>13. Fetching(X, P, n, m - 1, beg2)'
    BY <1>16, <2>9, <2>10, <2>11, <2>12 DEF Fetching
  <2> QED BY <1>1, <1>2, <1>3, <1>14, <1>15, <2>5, <2>7, <2>8, <2>13 DEF InBlock
<1> QED BY <1>17, <1>18

----------------------------------------------------------------------------
\* HTI's queue and the log of what HTI has taken: more is sent,
LEMMA DeliveredStays ==
  ASSUME Delivered, Len(inRcvd) \in Nat, Len(iDatQue) \in Nat, Extends(inSent', inSent),
         UNCHANGED <<iDatQue, inRcvd>>
  PROVE  Delivered' /\ Handed' = Handed
<1>1. PICK a, b, s, t \in Nat : /\ a = Len(inRcvd) /\ b = Len(iDatQue) /\ s = Len(inSent)
                                /\ t = Len(inSent')
  BY DEF Extends
<1>2. a + b <= s /\ s <= t /\ \A k \in 1..s : inSent'[k] = inSent[k]
  BY <1>1 DEF Delivered, Handed, Extends
<1>3. \A i \in 1..b : iDatQue[i] = inSent[a + i]
  BY <1>1 DEF Delivered
<1>4. \A i \in 1..b : a + i \in 1..s
  BY <1>2
<1>5. \A i \in 1..b : iDatQue'[i] = inSent'[a + i]
  BY <1>2, <1>3, <1>4
<1>6. a + b <= t
  BY <1>2
<1> QED BY <1>1, <1>5, <1>6 DEF Delivered, Handed

\* the next item is put in the queue,
LEMMA DeliveredPush ==
  ASSUME Delivered, Len(inRcvd) \in Nat, NEW e, Longer(iDatQue', iDatQue, e),
         Handed < Len(inSent), e = inSent[Handed + 1], Len(inSent) \in Nat,
         UNCHANGED <<inSent, inRcvd>>
  PROVE  Delivered' /\ Handed' = Handed + 1
<1>1. PICK a, b, s \in Nat : a = Len(inRcvd) /\ b = Len(iDatQue) /\ s = Len(inSent)
  BY DEF Longer
<1>2. Len(iDatQue') = b + 1 /\ iDatQue'[b + 1] = e /\ \A i \in 1..b : iDatQue'[i] = iDatQue[i]
  BY <1>1 DEF Longer
<1>3. a + b < s /\ e = inSent[(a + b) + 1] /\ \A i \in 1..b : iDatQue[i] = inSent[a + i]
  BY <1>1 DEF Delivered, Handed
<1>4. ASSUME NEW i \in 1..b+1 PROVE iDatQue'[i] = inSent[a + i]
  <2>1. CASE i = b + 1
    <3>1. a + i = (a + b) + 1
      BY <2>1
    <3> QED BY <1>2, <1>3, <2>1, <3>1
  <2>2. CASE i # b + 1
    <3>1. i \in 1..b
      BY <2>2
    <3> QED BY <1>2, <1>3, <3>1
  <2> QED BY <2>1, <2>2
<1>5. a + (b + 1) <= s /\ a + (b + 1) = (a + b) + 1
  BY <1>3
<1> QED BY <1>1, <1>2, <1>4, <1>5 DEF Delivered, Handed

\* and the first is taken from it.
LEMMA DeliveredPop ==
  ASSUME Delivered, Longer(inRcvd', inRcvd, Head(iDatQue)), Shorter(iDatQue', iDatQue),
         inSent' = inSent, Len(inSent) \in Nat
  PROVE  /\ Delivered' /\ Handed' = Handed
         /\ Len(inRcvd) + 1 \in 1..Len(inSent) /\ Head(iDatQue) = inSent[Len(inRcvd) + 1]
<1>1. PICK a, b, s \in Nat : a = Len(inRcvd) /\ b = Len(iDatQue) /\ s = Len(inSent) /\ b # 0
  BY DEF Longer, Shorter
<1>2. /\ Len(iDatQue') = b - 1 /\ Head(iDatQue) = iDatQue[1]
      /\ \A i \in 1..b-1 : iDatQue'[i] = iDatQue[i + 1]
  BY <1>1 DEF Shorter
<1>3. a + b <= s /\ \A i \in 1..b : iDatQue[i] = inSent[a + i]
  BY <1>1 DEF Delivered, Handed
<1>4. Len(inRcvd') = a + 1
  BY <1>1 DEF Longer
<1>5. ASSUME NEW i \in 1..b-1 PROVE iDatQue'[i] = inSent[(a + 1) + i]
  <2>1. i + 1 \in 1..b /\ a + (i + 1) = (a + 1) + i
    OBVIOUS
  <2>2. iDatQue[i + 1] = inSent[a + (i + 1)]
    BY <1>3, <2>1
  <2> QED BY <1>2, <2>1, <2>2
<1>6. (a + 1) + (b - 1) = a + b /\ 1 \in 1..b /\ a + 1 \in 1..s
  BY <1>1, <1>3
<1>7. iDatQue[1] = inSent[a + 1]
  BY <1>3, <1>6
<1> QED BY <1>1, <1>2, <1>3, <1>4, <1>5, <1>6, <1>7 DEF Delivered, Handed

----------------------------------------------------------------------------
\* A step that has no part in it.
flowPart == <<busy, inSent, inRcvd, usrIn, iBlk, hInIdx, iDatQue, iBlkRdyQue, ctlIn, iCtlState,
              iCtlRdIdx, iCtlWr>>

\* The log and the queue of what is sent have lengths, and what is sent stays.
LEMMA FlowLens ==
  ASSUME FlowTypes, LastToHti
  PROVE  /\ Len(inSent) \in Nat /\ Len(inRcvd) \in Nat /\ Len(iDatQue) \in Nat
         /\ Extends(inSent, inSent)
<1>1. Len(inSent) \in Nat /\ Len(inRcvd) \in Nat
  BY LenProperties DEF FlowTypes
<1>2. Len(iDatQue) \in Nat
  BY QueueAppend DEF LastToHti
<1> QED BY <1>1, <1>2 DEF Extends

(* A step that touches neither the flow of blocks nor the block being read keeps the invariant. *)
LEMMA FlowStays ==
  ASSUME InFlow, LastToHti, UNCHANGED flowPart, UNCHANGED fetchPart
  PROVE  InFlow'
<1> USE DEF flowPart
<1>1. FlowTypes'
  BY DEF InFlow, FlowTypes, fetchPart
<1>2. Delivered' /\ Handed' = Handed
  BY DEF InFlow, Delivered, Handed
<1>3. Unread' = Unread /\ (\A s : Ahead(s)' = Ahead(s))
  BY DEF Unread, Ahead
<1>4. Rdys' = Rdys /\ NotTaken("rdy")' = NotTaken("rdy")
  BY <1>3 DEF Rdys, NotTaken, SlotsWith
<1>5. ASSUME NEW X \in Nat, Coming(X), InBlock(X) PROVE Coming(X)' /\ InBlock(X)'
  <2>1. UNCHANGED <<iBlkRdyQue, iBlkRdIdx, hInIdx, inSent, iBlk>>
    BY DEF fetchPart
  <2>2. Coming(X)'
    BY <1>3, <1>4, <1>5, <2>1, ComingStays
  <2>3. BlkStays /\ Extends(inSent', inSent)
    BY FlowLens DEF InFlow, BlkStays
  <2> QED BY <1>2, <1>5, <2>2, <2>3, InBlockStays
<1>6. busy' = busy
  OBVIOUS
<1> QED BY <1>1, <1>2, <1>5, <1>6 DEF InFlow

\* A step that changes the announced blocks and nothing else of it.
LEMMA FlowRing ==
  ASSUME InFlow, LastToHti, UNCHANGED <<busy, inSent, inRcvd, iBlk, hInIdx, iDatQue>>, usrIn' \in Nat,
         UNCHANGED fetchPart, \A X \in Nat : busy /\ Coming(X) => Coming(X)'
  PROVE  InFlow'
<1>1. FlowTypes'
  BY DEF InFlow, FlowTypes, fetchPart
<1>2. Delivered' /\ Handed' = Handed
  BY DEF InFlow, Delivered, Handed
<1>3. ASSUME NEW X \in Nat, busy, Coming(X), InBlock(X) PROVE Coming(X)' /\ InBlock(X)'
  <2>1. Coming(X)'
    BY <1>3
  <2>2. BlkStays /\ Extends(inSent', inSent)
    BY FlowLens DEF InFlow, BlkStays
  <2> QED BY <1>2, <1>3, <2>1, <2>2, InBlockStays
<1>4. busy' = busy
  OBVIOUS
<1> QED BY <1>1, <1>2, <1>3, <1>4 DEF InFlow

\* The ICM state machine moves them from the ring to the queue.
LEMMA IcmKeepsFlow ==
  ASSUME BlkInv, Rested, HaltInv, InFlow, IcmNext, UNCHANGED hostVars, UNCHANGED htiVars
  PROVE  InFlow'
<1>1. InRing /\ LastToHti /\ iBlkRdyQue \in Seq(Msgs)
  BY DEF BlkInv, BlkTypes, HaltInv
<1>2. /\ UNCHANGED <<busy, inSent, inRcvd, usrIn, iBlk, hInIdx, iDatQue>> /\ UNCHANGED fetchPart
      /\ UNCHANGED <<inSent, iBlk, hInIdx, iBlkRdIdx>>
  <2>1. UNCHANGED <<inSent, usrIn, hInIdx, inRcvd>>
    BY DEF hostVars, htiVars, htiLog
  <2>2. UNCHANGED <<busy, iBlk, iDatQue>> /\ UNCHANGED ibk
    BY DEF IcmNext, IcmRead, IcmEmpty, IcmTake, IcmUser, IcmRdy, IcmAvl, IcmWrite, IcmWrRsp, mem, htiIn
  <2>3. UNCHANGED fetchPart
    BY <2>2 DEF ibk, iRd, iPush, fetchPart
  <2> QED BY <2>1, <2>2, <2>3 DEF fetchPart
<1>3. \A X \in Nat : busy /\ Coming(X) => Coming(X)'
  <2> SUFFICES ASSUME NEW X \in Nat, busy, Coming(X) PROVE Coming(X)'
    OBVIOUS
  <2>1. CASE IcmRead \/ IcmEmpty \/ IcmWrite \/ IcmWrRsp
    <3>1. Unread' = Unread /\ \A s \in Unread : ctlIn'[s] = ctlIn[s]
      BY <1>1, <2>1, InPoll, PersAssumption
    <3>2. iBlkRdyQue' = iBlkRdyQue
      BY <2>1 DEF IcmRead, IcmEmpty, IcmWrite, IcmWrRsp, iAvl
    <3>3. \A s, t \in Unread : Ahead(s)' < Ahead(t)' => Ahead(s) < Ahead(t)
      <4>1. CASE IcmWrite
        <5>1. /\ hInSlot' = hInSlot /\ iCtlState = "WRITE" /\ iCtlState' = "READ"
              /\ iCtlRdIdx' = (iCtlRdIdx + 1) % CtlQueSize
          BY <4>1 DEF IcmWrite, hostVars
        <5>2. \A s \in Unread : Ahead(s)' = Ahead(s) - 1
          BY <1>1, <3>1, <5>1, OrderNext, PersAssumption DEF HaltInv
        <5>3. \A s \in Unread : Ahead(s) \in Nat
          BY <1>1, AheadIs, PersAssumption DEF Unread, InRing
        <5> QED BY <5>2, <5>3
      <4>2. CASE ~IcmWrite
        <5>1. iCtlRdIdx' = iCtlRdIdx
          BY <2>1, <4>2 DEF IcmRead, IcmEmpty, IcmWrRsp
        <5> QED BY <5>1 DEF Ahead
      <4> QED BY <4>1, <4>2
    <3>4. Rdys' = Rdys /\ Rdys \subseteq Unread
      BY <3>1 DEF Rdys
    <3>5. NotTaken("rdy")' = NotTaken("rdy")
      BY <3>1, UnreadStays DEF NotTaken
    <3> QED BY <1>2, <3>1, <3>2, <3>3, <3>4, <3>5, ComingStays
  <2>2. ASSUME NEW cmd \in Cmds, IcmTake(cmd)
        PROVE  /\ ctlIn' = ctlIn /\ iCtlRdIdx \in Unread /\ ctlIn[iCtlRdIdx].cmd = cmd
               /\ Unread' = Unread \ {iCtlRdIdx} /\ \A s : Ahead(s)' = Ahead(s)
    <3>1. iCtlRdIdx' = iCtlRdIdx
      BY <2>2 DEF IcmTake
    <3>2. \A s : Ahead(s)' = Ahead(s)
      BY <3>1 DEF Ahead
    <3> QED BY <1>1, <2>2, <3>2, InTake, PersAssumption
  <2>3. CASE IcmUser \/ IcmAvl
    <3>1. PICK cmd \in Cmds : IcmTake(cmd) /\ cmd # "rdy"
      BY <2>3 DEF IcmUser, IcmAvl, Cmds
    <3>2. iBlkRdyQue' = iBlkRdyQue
      BY <2>3 DEF IcmUser, IcmAvl
    <3>3. /\ ctlIn' = ctlIn /\ iCtlRdIdx \in Unread /\ ctlIn[iCtlRdIdx].cmd # "rdy"
          /\ Unread' = Unread \ {iCtlRdIdx} /\ \A s : Ahead(s)' = Ahead(s)
      BY <2>2, <3>1
    <3>4. Rdys' = Rdys
      BY <3>3 DEF Rdys
    <3>5. NotTaken("rdy")' = NotTaken("rdy")
      BY <1>1, <3>3, UnreadTaken, PersAssumption DEF NotTaken
    <3> QED BY <1>2, <3>2, <3>3, <3>4, <3>5, ComingStays
  <2>4. CASE IcmRdy
    <3>1. IcmTake("rdy") /\ "rdy" \in Cmds /\ iBlkRdyQue' = Append(iBlkRdyQue, ctlIn[iCtlRdIdx])
      BY <2>4 DEF IcmRdy, Cmds
    <3>2. /\ ctlIn' = ctlIn /\ iCtlRdIdx \in Unread /\ ctlIn[iCtlRdIdx].cmd = "rdy"
          /\ Unread' = Unread \ {iCtlRdIdx} /\ \A s : Ahead(s)' = Ahead(s)
      BY <2>2, <3>1
    <3>3. Longer(iBlkRdyQue', iBlkRdyQue, ctlIn[iCtlRdIdx])
      <4>1. IsQueue(iBlkRdyQue)
        BY <1>1, QueueIs
      <4> QED BY <3>1, <4>1, QueueAppend DEF Longer
    <3>4. iCtlRdIdx \in Rdys
      BY <3>2 DEF Rdys
    <3> QED BY <1>1, <1>2, <3>2, <3>3, <3>4, ComingTaken
  <2> QED BY <2>1, <2>3, <2>4 DEF IcmNext
<1>4. usrIn' \in Nat
  BY <1>2 DEF InFlow, FlowTypes
<1> QED BY <1>1, <1>2, <1>3, <1>4, FlowRing

\* What the IBK state machine does to the blocks announced.
LEMMA IbkComing ==
  ASSUME BlkInv, HaltInv, InFlow, busy, NEW X \in Nat, Coming(X),
         UNCHANGED <<inSent, iBlk, hInIdx, ctlIn, iCtlState, iCtlRdIdx, iCtlWr>>
  PROVE  /\ UNCHANGED <<iBlkRdyQue, iBlkRdIdx>> => Coming(X)'
         /\ iBlkRdyQue # <<>> /\ iBlkRdyQue' = Tail(iBlkRdyQue)
            /\ iBlkRdIdx' = (iBlkRdIdx + 1) % IBlkCnt
            => /\ iBlkRdIdx' = Round(IBlkCnt, iBlkRdIdx + 1) /\ iBlkRdIdx' \in 0..IBlkCnt-1
               /\ \E Z \in Nat : /\ Coming(Z)' /\ Z <= Len(inSent)
                                 /\ Carries(Head(iBlkRdyQue), X, Z, inSent, iBlk[iBlkRdIdx])
<1>1. Unread' = Unread /\ (\A s : Ahead(s)' = Ahead(s))
  BY DEF Unread, Ahead
<1>2. Rdys' = Rdys /\ NotTaken("rdy")' = NotTaken("rdy")
  BY <1>1 DEF Rdys, NotTaken, SlotsWith
<1>3. ASSUME UNCHANGED <<iBlkRdyQue, iBlkRdIdx>> PROVE Coming(X)'
  BY <1>1, <1>2, <1>3, ComingStays
<1>4. ASSUME iBlkRdyQue # <<>>, iBlkRdyQue' = Tail(iBlkRdyQue),
             iBlkRdIdx' = (iBlkRdIdx + 1) % IBlkCnt
      PROVE  /\ iBlkRdIdx' = Round(IBlkCnt, iBlkRdIdx + 1) /\ iBlkRdIdx' \in 0..IBlkCnt-1
             /\ \E Z \in Nat : /\ Coming(Z)' /\ Z <= Len(inSent)
                               /\ Carries(Head(iBlkRdyQue), X, Z, inSent, iBlk[iBlkRdIdx])
  <2>1. IBlkCnt \in Nat \ {0, 1} /\ iBlkRdIdx \in 0..IBlkCnt-1
    BY PersAssumption DEF PersAssumption, InFlow, FlowTypes
  <2>2. iBlkRdIdx' = Round(IBlkCnt, iBlkRdIdx + 1) /\ iBlkRdIdx' \in 0..IBlkCnt-1
    BY <1>4, <2>1, RingNext
  <2>3. Shorter(iBlkRdyQue', iBlkRdyQue)
    <3>1. IsQueue(iBlkRdyQue)
      BY QueueIs DEF BlkInv, BlkTypes
    <3> QED BY <1>4, <3>1, QueueTail DEF Shorter
  <2>4. Len(iBlkRdyQue) + NotTaken("rdy") <= IBlkCnt
    <3>1. /\ hInAvl \in Nat /\ Len(iBlkRdyQue) \in Nat /\ NotTaken("rdy") \in Nat
          /\ OnTheWay("avl") \in Nat /\ InHeld \in Nat /\ InBack \in Nat /\ IBlkCnt \in Nat
      BY SumTypes, PersAssumption DEF BlkInv
    <3>2. InSum = IBlkCnt
      BY DEF BlkInv, Sums
    <3> QED BY <3>1, <3>2 DEF InSum
  <2> QED BY <1>1, <1>2, <2>1, <2>2, <2>3, <2>4, ComingTake
<1> QED BY <1>3, <1>4

\* A step that gives HTI nothing.
LEMMA FlowFetched ==
  ASSUME InFlow, HaltInv, UNCHANGED <<busy, inSent, inRcvd, usrIn, iBlk, hInIdx, iDatQue>>,
         iBlkRdIdx' \in 0..IBlkCnt-1, busy => \E X \in Nat : Coming(X)' /\ InBlock(X)'
  PROVE  InFlow'
BY DEF InFlow, FlowTypes, Delivered, Handed

\* The IBK state machine empties the queue, fetches the words and gives them,
\* and what is announced without words, to HTI.
LEMMA IbkKeepsFlow ==
  ASSUME BlkInv, HaltInv, InFlow, IbkNext, UNCHANGED hostVars, UNCHANGED htiVars
  PROVE  InFlow'
<1>1. InRing /\ LastToHti /\ FlowTypes /\ Delivered /\ Lines /\ iBlkRdIdx \in 0..IBlkCnt-1
  BY DEF BlkInv, HaltInv, InFlow, FlowTypes
<1>2. /\ UNCHANGED <<inSent, iBlk, hInIdx, ctlIn, iCtlState, iCtlRdIdx, iCtlWr>>
      /\ UNCHANGED <<busy, inRcvd, usrIn>>
  <2>1. UNCHANGED <<inSent, usrIn, hInIdx, inRcvd>>
    BY SMTT(30) DEF hostVars, htiVars, htiLog
  <2>2. UNCHANGED mem /\ UNCHANGED icm /\ UNCHANGED busy
    BY DEF IbkNext, IbkSpecial, IbkData, IbkTake, IbkFetch64, IbkFetch8, Fetch, IbkRead, IbkWait,
           IbkRdRsp, IbkPush
  <2> QED BY <2>1, <2>2 DEF mem, icm
<1>3. busy
  <2> SUFFICES ASSUME ~busy PROVE FALSE
    OBVIOUS
  <2>1. iBlkState = "IDLE" /\ iBlkRdyQue = <<>>
    BY DEF HaltInv, NothingToCome, InOver
  <2>2. /\ iBlkPushIdx \in DOMAIN fetch
        /\ \A i \in DOMAIN fetch : fetch[i].pend = {} /\ fetch[i].val = 0
    BY <1>1, <2>1 DEF Lines
  <2> QED BY <2>1, <2>2 DEF IbkNext, IbkSpecial, IbkData, IbkTake, IbkFetch64, IbkFetch8, CanFetch,
                            IbkRead, IbkWait, IbkRdRsp, IbkPush, PushReady
<1>4. PICK X \in Nat : Coming(X) /\ InBlock(X)
  BY <1>3 DEF InFlow
<1>5. /\ Len(inSent) \in Nat /\ Len(inRcvd) \in Nat /\ Len(iDatQue) \in Nat
      /\ Extends(inSent', inSent)
  BY <1>1, <1>2, FlowLens
<1>6. UNCHANGED <<iBlkRdyQue, iBlkRdIdx>> => Coming(X)'
  BY <1>2, <1>3, <1>4, IbkComing
<1>7. iDatQue' = iDatQue => Handed' = Handed
  BY <1>2 DEF Handed
<1>8. CASE IbkSpecial
  <2>1. /\ iBlkRdyQue # <<>> /\ iBlkRdyQue' = Tail(iBlkRdyQue)
        /\ iBlkRdIdx' = (iBlkRdIdx + 1) % IBlkCnt /\ iBlkState = "IDLE"
        /\ UNCHANGED <<iBlkState, fetch, iBlkFetchIdx, iBlkPushIdx, iBlkPushCnt>>
    BY <1>8 DEF IbkSpecial, IbkTake, iPush
  <2>2. PICK e : e = Item(Head(iBlkRdyQue).ctl, Head(iBlkRdyQue).arg)
    OBVIOUS
  <2>3. Head(iBlkRdyQue).ctl # "DATA" /\ iDatQue' = Append(iDatQue, e)
    BY <1>8, <2>2 DEF IbkSpecial, IDatPush
  <2>4. /\ iBlkRdIdx' \in 0..IBlkCnt-1
        /\ \E Z \in Nat : /\ Coming(Z)' /\ Z <= Len(inSent)
                          /\ Carries(Head(iBlkRdyQue), X, Z, inSent, iBlk[iBlkRdIdx])
    BY <1>2, <1>3, <1>4, <2>1, IbkComing
  <2>5. Coming(X + 1)' /\ X + 1 <= Len(inSent) /\ inSent[X + 1] = e
    BY <2>2, <2>3, <2>4 DEF Carries
  <2>6. Handed = X
    BY <1>4, <2>1 DEF InBlock
  <2>7. Longer(iDatQue', iDatQue, e)
    BY <1>1, <2>3, QueueAppend DEF LastToHti, Longer
  <2>8. Handed < Len(inSent)
    BY <1>5, <2>5, <2>6
  <2>9. Delivered' /\ Handed' = Handed + 1
    BY <1>1, <1>2, <1>5, <2>5, <2>6, <2>7, <2>8, DeliveredPush
  <2>10. InBlock(X + 1)'
    BY <1>4, <2>1, <2>9, InBlockEmpty
  <2>11. FlowTypes'
    BY <1>1, <1>2, <2>4 DEF FlowTypes
  <2> QED BY <2>5, <2>9, <2>10, <2>11 DEF InFlow
<1>9. ASSUME iDatQue' = iDatQue, iBlkRdIdx' \in 0..IBlkCnt-1, NEW Z \in Nat, Coming(Z)', InBlock(Z)'
      PROVE  InFlow'
  BY <1>2, <1>9, FlowFetched
<1>10. CASE IbkData
  <2>1. /\ iBlkRdyQue # <<>> /\ iBlkRdyQue' = Tail(iBlkRdyQue)
        /\ iBlkRdIdx' = (iBlkRdIdx + 1) % IBlkCnt /\ iBlkState = "IDLE"
        /\ UNCHANGED <<fetch, iBlkFetchIdx, iBlkPushIdx, iBlkPushCnt>> /\ iDatQue' = iDatQue
        /\ Head(iBlkRdyQue).ctl = "DATA" /\ iBlkState' = "READ"
        /\ iBlkRdCnt' = Head(iBlkRdyQue).arg /\ iBlkRdAdr' = <<iBlkRdIdx, 0>>
    BY <1>10 DEF IbkData, IbkTake, iPush, htiIn
  <2>2. /\ iBlkRdIdx' = Round(IBlkCnt, iBlkRdIdx + 1) /\ iBlkRdIdx' \in 0..IBlkCnt-1
        /\ \E Z \in Nat : /\ Coming(Z)' /\ Z <= Len(inSent)
                          /\ Carries(Head(iBlkRdyQue), X, Z, inSent, iBlk[iBlkRdIdx])
    BY <1>2, <1>3, <1>4, <2>1, IbkComing
  <2>3. PICK c, Z \in Nat : /\ c = Head(iBlkRdyQue).arg /\ c \in 1..BlkQw /\ Z = X + c
                            /\ Coming(Z)' /\ Z <= Len(inSent)
                            /\ \A w \in 0..c-1 : inSent[X + w + 1] = Item("DATA", iBlk[iBlkRdIdx][w])
    <3>1. PICK Z \in Nat : /\ Coming(Z)' /\ Z <= Len(inSent)
                           /\ Carries(Head(iBlkRdyQue), X, Z, inSent, iBlk[iBlkRdIdx])
      BY <2>2
    <3>2. PICK c : c = Head(iBlkRdyQue).arg
      OBVIOUS
    <3>3. /\ c \in 1..BlkQw /\ Z = X + c
          /\ \A w \in 0..c-1 : inSent[X + w + 1] = Item("DATA", iBlk[iBlkRdIdx][w])
      BY <2>1, <3>1, <3>2 DEF Carries
    <3>4. c \in Nat
      BY <3>3
    <3> QED BY <3>1, <3>2, <3>3, <3>4
  <2>4. \A i \in Bufs : fetch[i].pend = {} /\ fetch[i].val = 0
    BY <1>1, <2>1 DEF Lines, Bufs
  <2>5. /\ Z <= Len(inSent') /\ iBlkRdCnt' = c
        /\ \A w \in 0..c-1 : inSent'[X + w + 1] = Item("DATA", iBlk'[iBlkRdIdx][w])
    BY <1>2, <2>1, <2>3
  <2>6. InBlock(Z)'
    BY <1>1, <1>4, <1>7, <2>1, <2>2, <2>3, <2>4, <2>5, InBlockBegin
  <2> QED BY <1>9, <2>1, <2>2, <2>3, <2>6
<1>11. ASSUME UNCHANGED <<iDatQue, iBlkRdyQue, iBlkRdIdx>>, InBlock(X)' PROVE InFlow'
  BY <1>1, <1>4, <1>6, <1>9, <1>11
<1>12. CASE IbkFetch64 \/ IbkFetch8
  <2>1. PICK q, c : q = iBlkRdAdr[2] /\ c = iBlkRdCnt
    OBVIOUS
  <2>2. iBlkState = "READ" /\ c # 0 /\ fetch[iBlkFetchIdx].val = 0
    BY <1>12, <2>1 DEF IbkFetch64, IbkFetch8, CanFetch
  <2>3. q \in Nat /\ c \in Nat \ {0} /\ iBlkFetchIdx \in 0..FetchCnt-1 /\ (B64 => q % LineQw = 0)
    <3>1. PICK P \in Nat, n \in 1..BlkQw, m \in 0..FetchCnt, beg \in [Bufs -> Nat] :
            Fetching(X, P, n, m, beg)
      BY <1>4, <2>2 DEF InBlock
    <3>2. FetchTypes
      BY <1>4 DEF InBlock
    <3> QED BY <2>1, <2>2, <3>1, <3>2 DEF Fetching, ToRead, Part, FetchTypes, Bufs
  <2>4. UNCHANGED <<iDatQue, iBlkRdyQue, iBlkRdIdx>>
    BY <1>12 DEF IbkFetch64, IbkFetch8, Fetch, htiIn, iAvl
  <2>5. (iBlkFetchIdx + 1) % FetchCnt = Round(FetchCnt, iBlkFetchIdx + 1)
    <3>1. FetchCnt \in Nat \ {0, 1}
      BY PersAssumption DEF PersAssumption
    <3> QED BY <2>3, <3>1, RingNext
  <2>6. ASSUME NEW qws, NEW val, NEW cnt, Fetch(qws, val, cnt)
        PROVE  RequestMade(q, c, qws, val, cnt)
    BY <1>2, <2>1, <2>2, <2>5, <2>6 DEF Fetch, RequestMade, iPush
  <2>7. CASE IbkFetch64
    <3>1. PICK k : k = Lower(c, LineQw)
      OBVIOUS
    <3>2. Fetch(LineQw, k, k) /\ B64
      BY <1>12, <2>1, <2>7, <3>1 DEF IbkFetch64
    <3>3. Request(q, c, q + c, LineQw, k, k)
      BY <2>3, <3>1, <3>2, Request64
    <3> QED BY <1>4, <1>7, <1>11, <2>3, <2>4, <2>6, <3>2, <3>3, InBlockFetch
  <2>8. CASE IbkFetch8
    <3>1. PICK v : v = IF c = 1 \/ q % LineQw = LineQw - 1 THEN (q % LineQw) + 1 ELSE 0
      OBVIOUS
    <3>2. Fetch(1, v, 1) /\ ~B64
      BY <2>1, <2>8, <3>1 DEF IbkFetch8
    <3>3. Request(q, c, q + c, 1, v, 1)
      BY <2>3, <3>1, <3>2, Request8
    <3> QED BY <1>4, <1>7, <1>11, <2>3, <2>4, <2>6, <3>2, <3>3, InBlockFetch
  <2> QED BY <1>12, <2>7, <2>8
<1>13. CASE IbkRead
  <2>1. /\ iBlkState = "READ" /\ iBlkRdCnt = 0 /\ iBlkState' = "WAIT"
        /\ UNCHANGED <<iBlkRdCnt, iBlkRdAdr, iBlkRdIdx, iBlkFetchIdx, fetch, iBlkPushIdx, iBlkPushCnt>>
        /\ UNCHANGED <<iDatQue, iBlkRdyQue, iBlkRdIdx>>
    BY <1>13 DEF IbkRead, iPush, htiIn, iAvl
  <2> QED BY <1>2, <1>4, <1>7, <1>11, <2>1, InBlockRead
<1>14. CASE IbkWait
  <2>1. /\ iBlkState = "WAIT" /\ iBlkState' = "IDLE" /\ (\A i \in DOMAIN fetch : fetch[i].val = 0)
        /\ UNCHANGED <<iBlkFetchIdx, fetch, iBlkPushIdx, iBlkPushCnt>>
        /\ UNCHANGED <<iDatQue, iBlkRdyQue, iBlkRdIdx>>
    BY <1>14 DEF IbkWait, iPush, htiIn
  <2> QED BY <1>4, <1>7, <1>11, <2>1, InBlockDone
<1>15. CASE IbkRdRsp
  <2>4. PICK i \in DOMAIN fetch : \E a \in fetch[i].pend :
          fetch' = [fetch EXCEPT ![i].pend = @ \ {a}, ![i].dat[a[2] % LineQw] = iBlk[a[1]][a[2]]]
    BY <1>15 DEF IbkRdRsp
  <2>1. PICK a \in fetch[i].pend :
          fetch' = [fetch EXCEPT ![i].pend = @ \ {a}, ![i].dat[a[2] % LineQw] = iBlk[a[1]][a[2]]]
    BY <2>4
  <2>2. iBlkState # "IDLE" /\ i \in Bufs
    BY <1>1 DEF Lines, Bufs
  <2>3. /\ UNCHANGED <<iBlkState, iBlkRdCnt, iBlkRdAdr, iBlkRdIdx, iBlkFetchIdx, iBlkPushIdx, iBlkPushCnt>>
        /\ UNCHANGED <<iDatQue, iBlkRdyQue, iBlkRdIdx>>
    BY <1>15 DEF IbkRdRsp, iPush, iRd, htiIn, iAvl
  <2> QED BY <1>2, <1>4, <1>7, <1>11, <2>1, <2>2, <2>3, InBlockRsp
<1>16. CASE IbkPush
  <2>1. PICK last \in BOOLEAN : last <=> iBlkPushCnt + 1 = fetch[iBlkPushIdx].val
    OBVIOUS
  <2>2. iBlkPushIdx \in 0..FetchCnt-1 /\ iBlkPushIdx \in DOMAIN fetch
    BY <1>1 DEF Lines
  <2>3. (iBlkPushIdx + 1) % FetchCnt = Round(FetchCnt, iBlkPushIdx + 1)
    <3>1. FetchCnt \in Nat \ {0, 1}
      BY PersAssumption DEF PersAssumption
    <3> QED BY <2>2, <3>1, RingNext
  <2>4. /\ fetch' = [fetch EXCEPT ![iBlkPushIdx] =
                       IF last THEN NoFetch ELSE [fetch[iBlkPushIdx] EXCEPT !.dat[iBlkPushCnt] = 0]]
        /\ iBlkPushCnt' = IF last THEN 0 ELSE iBlkPushCnt + 1
        /\ iBlkPushIdx' = IF last THEN Round(FetchCnt, iBlkPushIdx + 1) ELSE iBlkPushIdx
        /\ PushReady
    BY <1>16, <2>1, <2>3 DEF IbkPush
  <2>5. iBlkState # "IDLE"
    BY <1>1, <2>2, <2>4 DEF Lines, PushReady
  <2>6. /\ UNCHANGED <<iBlkState, iBlkRdCnt, iBlkRdAdr, iBlkRdIdx, iBlkFetchIdx>>
        /\ UNCHANGED iBlkRdyQue
    BY <1>16 DEF IbkPush, iRd, iAvl
  <2>7. PICK e : e = Item("DATA", fetch[iBlkPushIdx].dat[iBlkPushCnt])
    OBVIOUS
  <2>8. iDatQue' = Append(iDatQue, e)
    BY <1>16, <2>7 DEF IbkPush, IDatPush
  <2>9. Longer(iDatQue', iDatQue, e)
    BY <1>1, <2>8, QueueAppend DEF LastToHti, Longer
  <2>10. Handed' = Handed + 1
    <3>1. Len(iDatQue') = Len(iDatQue) + 1
      BY <2>9 DEF Longer
    <3> QED BY <1>2, <1>5, <3>1 DEF Handed
  <2>11. InBlock(X)' /\ Handed < Len(inSent) /\ inSent[Handed + 1] = e
    BY <1>2, <1>4, <1>5, <2>1, <2>4, <2>5, <2>6, <2>7, <2>10, InBlockPush
  <2>12. Delivered'
    BY <1>1, <1>2, <1>5, <2>9, <2>11, DeliveredPush
  <2>13. FlowTypes'
    BY <1>1, <1>2, <2>6 DEF FlowTypes
  <2>14. Coming(X)'
    BY <1>6, <2>6
  <2> QED BY <2>11, <2>12, <2>13, <2>14 DEF InFlow
<1> QED BY <1>8, <1>10, <1>12, <1>13, <1>14, <1>15, <1>16 DEF IbkNext

\* The other machines have no part in it; after the reset what HTI has or had
\* is what counts.
LEMMA HifKeepsFlow ==
  ASSUME BlkInv, Rested, HaltInv, InFlow, HifNext, UNCHANGED hostVars, UNCHANGED htiVars
  PROVE  InFlow'
<1>1. CASE IcmNext
  BY <1>1, IcmKeepsFlow
<1>2. CASE IbkNext
  BY <1>2, IbkKeepsFlow
<1>3. UNCHANGED <<inSent, usrIn, hInIdx, inRcvd>>
  BY DEF hostVars, htiVars, htiLog
<1>4. CASE Idle
  <2>1. busy' = FALSE /\ iBlkRdIdx' = 0 /\ UNCHANGED <<iBlk, iDatQue>>
    BY <1>4 DEF Idle, mem
  <2>2. 0 \in 0..IBlkCnt-1
    BY PersAssumption DEF PersAssumption
  <2> QED BY <1>3, <2>1, <2>2 DEF InFlow, FlowTypes, Delivered, Handed
<1>5. CASE OcmNext \/ ObkNext \/ ObkTimer \/ MemNext
  <2>1. UNCHANGED <<ctlIn, iBlk, busy, iDatQue, iBlkRdyQue>> /\ UNCHANGED icm /\ UNCHANGED ibk
    <3>1. CASE OcmNext
      BY <3>1 DEF OcmNext, OcmSelect, OcmRead, OcmRdWait, OcmWrite, OcmWrRsp, mem, htiIn, iAvl
    <3>2. CASE ObkNext \/ ObkTimer
      BY <3>2 DEF ObkNext, ObkTimer, ObkIdleFlsh, ObkIdle, ObkClose, ObkPop, ObkWr8, ObkWr64, ObkWrite,
                  ObkFlsh, ObkFlshed, ObkSendData, ObkSendItem, ObkSend, ObkRest, mem, iAvl
    <3>3. CASE MemNext
      BY <3>3 DEF MemNext, ObkWrRsp, MemSettle, ObkRdRsp, MemRest, htiIn, iAvl
    <3> QED BY <1>5, <3>1, <3>2, <3>3
  <2>2. UNCHANGED flowPart
    BY <1>3, <2>1 DEF flowPart, icm
  <2>3. UNCHANGED fetchPart
    BY <2>1 DEF fetchPart, ibk, iRd, iPush
  <2> QED BY <2>2, <2>3, FlowStays DEF HaltInv
<1> QED BY <1>1, <1>2, <1>4, <1>5 DEF HifNext

\* HTI takes the items in order.
LEMMA HtiKeepsFlow ==
  ASSUME HaltInv, InFlow, HtiStep
  PROVE  /\ InFlow'
         /\ \/ inRcvd' = inRcvd
            \/ /\ inRcvd' = Append(inRcvd, inSent[Len(inRcvd) + 1])
               /\ Len(inRcvd) + 1 \in 1..Len(inSent)
<1>1. UNCHANGED <<inSent, usrIn, hInIdx>>
  BY DEF HtiStep, hostVars
<1>2. /\ UNCHANGED <<ctlIn, iBlk, busy, iBlkRdyQue>> /\ UNCHANGED icm /\ UNCHANGED ibk
      /\ \/ UNCHANGED <<iDatQue, inRcvd>>
         \/ /\ iDatQue # <<>> /\ iDatQue' = Tail(iDatQue)
            /\ inRcvd' = Append(inRcvd, Head(iDatQue))
  <2>1. CASE HtiNext
    BY <2>1 DEF HtiNext, HtiCallNext, HtiRtnNext, CallIdleData, CallIdleCall, CallIdleHalt,
                CallArgs, CallCmd, CallData, IhmPop, RtnIdle, RtnCmd, RtnArg, RtnDone, RtnData,
                CallRest, RtnRest, HifRest, IDatPop, Front, mem, htiIn, iAvl
  <2>2. CASE ModNext
    BY <2>2 DEF ModNext, ModTakeCall, ModReturn, ModSend, ModSendMsg, ModRest, HifRest,
                hifVars, mem, htiIn, iAvl
  <2> QED BY <2>1, <2>2 DEF HtiStep
<1>3. UNCHANGED fetchPart
  BY <1>2 DEF fetchPart, ibk, iRd, iPush
<1>4. CASE UNCHANGED <<iDatQue, inRcvd>>
  <2>1. UNCHANGED flowPart
    BY <1>1, <1>2, <1>4 DEF flowPart, icm
  <2> QED BY <1>3, <1>4, <2>1, FlowStays DEF HaltInv
<1>5. CASE iDatQue # <<>> /\ iDatQue' = Tail(iDatQue) /\ inRcvd' = Append(inRcvd, Head(iDatQue))
  <2>1. Shorter(iDatQue', iDatQue)
    BY <1>5, QueueTail DEF Shorter, HaltInv, LastToHti
  <2>2. inRcvd \in Seq(Items) /\ inSent \in Seq(Items)
    BY DEF InFlow, FlowTypes
  <2>3. Longer(inRcvd', inRcvd, Head(iDatQue))
    <3>1. IsQueue(inRcvd)
      BY <2>2, QueueIs
    <3> QED BY <1>5, <3>1, QueueAppend DEF Longer
  <2>4. /\ Delivered' /\ Handed' = Handed
        /\ Len(inRcvd) + 1 \in 1..Len(inSent) /\ Head(iDatQue) = inSent[Len(inRcvd) + 1]
    <3>1. Len(inSent) \in Nat /\ Delivered
      BY <2>2, LenProperties DEF InFlow
    <3> QED BY <1>1, <2>1, <2>3, <3>1, DeliveredPop
  <2>5. inRcvd' \in Seq(Items)
    <3>1. Head(iDatQue) \in Items
      BY <2>2, <2>4, ElementOfSeq
    <3> QED BY <1>5, <2>2, <3>1, AppendProperties
  <2>6. FlowTypes'
    BY <1>1, <1>2, <1>3, <2>5 DEF InFlow, FlowTypes, fetchPart
  <2>7. ASSUME NEW X \in Nat, Coming(X), InBlock(X) PROVE Coming(X)' /\ InBlock(X)'
    <3>1. Unread' = Unread /\ (\A s : Ahead(s)' = Ahead(s))
      BY <1>2 DEF Unread, Ahead, icm
    <3>2. Rdys' = Rdys /\ NotTaken("rdy")' = NotTaken("rdy")
      BY <1>2, <3>1 DEF Rdys, NotTaken, SlotsWith
    <3>3. UNCHANGED <<iBlkRdyQue, iBlkRdIdx, hInIdx, inSent, iBlk>>
      BY <1>1, <1>2, <1>3 DEF fetchPart
    <3>4. Coming(X)'
      BY <1>2, <2>7, <3>1, <3>2, <3>3, ComingStays
    <3>5. BlkStays /\ Extends(inSent', inSent)
      BY <1>1, <1>2, FlowLens DEF BlkStays, InFlow, HaltInv
    <3> QED BY <1>3, <2>4, <2>7, <3>4, <3>5, InBlockStays
  <2>8. busy' = busy
    BY <1>2
  <2> QED BY <1>5, <2>4, <2>6, <2>7, <2>8 DEF InFlow
<1> QED BY <1>2, <1>4, <1>5

----------------------------------------------------------------------------
\* What is sent, s, and then t.
LEMMA Joined ==
  ASSUME NEW S, NEW s \in Seq(S), NEW t \in Seq(S)
  PROVE  /\ s \o t \in Seq(S) /\ Extends(s \o t, s) /\ Len(s \o t) = Len(s) + Len(t)
         /\ \A k \in 1..Len(t) : (s \o t)[Len(s) + k] = t[k]
<1>1. PICK a, b \in Nat : a = Len(s) /\ b = Len(t)
  BY LenProperties
<1>2. /\ s \o t \in Seq(S) /\ Len(s \o t) = a + b
      /\ \A i \in 1..a+b : (s \o t)[i] = IF i <= a THEN s[i] ELSE t[i - a]
  BY <1>1, ConcatProperties
<1>3. \A i \in 1..a : i \in 1..a+b /\ i <= a
  OBVIOUS
<1>4. \A k \in 1..b : a + k \in 1..a+b /\ ~(a + k <= a) /\ (a + k) - a = k
  OBVIOUS
<1>5. \A i \in 1..a : (s \o t)[i] = s[i]
  BY <1>2, <1>3
<1>6. \A k \in 1..b : (s \o t)[a + k] = t[k]
  BY <1>2, <1>4
<1>7. a + b \in Nat /\ a <= a + b
  OBVIOUS
<1> QED BY <1>1, <1>2, <1>5, <1>6, <1>7 DEF Extends

\* The host announces nothing: it sends a message or gives a block back.
LEMMA OtherKeepsFlow ==
  ASSUME BlkInv, HaltInv, InFlow, NEW m \in Msgs, m.cmd \in Cmds, m.cmd # "rdy", HostMsg(m),
         UNCHANGED <<iBlk, hInIdx, inSent>>, usrIn' \in Nat
  PROVE  InFlow'
<1>1. InRing /\ LastToHti
  BY DEF BlkInv, HaltInv
<1>2. /\ hInSlot \notin Unread /\ Unread' = Unread \cup {hInSlot} /\ ctlIn'[hInSlot] = m
      /\ \A s \in Unread : ctlIn'[s] = ctlIn[s]
  BY <1>1, InPut, PersAssumption
<1>3. UNCHANGED <<iCtlRdIdx, busy, inRcvd, iDatQue, iBlkRdyQue>> /\ UNCHANGED fetchPart
  BY DEF HostMsg, icm, htiIn, iAvl, ibk, iRd, iPush, htiVars, htiLog, fetchPart
<1>4. \A s : Ahead(s)' = Ahead(s)
  BY <1>3 DEF Ahead
<1>5. Rdys' = Rdys /\ Rdys \subseteq Unread
  BY <1>2 DEF Rdys
<1>6. NotTaken("rdy")' = NotTaken("rdy")
  <2>1. hInSlot \in Slots
    BY <1>1 DEF InRing
  <2> QED BY <1>1, <1>2, <2>1, UnreadPut, PersAssumption DEF NotTaken
<1>7. UNCHANGED <<iBlkRdyQue, iBlkRdIdx, hInIdx, inSent, iBlk>>
  BY <1>3 DEF fetchPart
<1>8. \A X \in Nat : busy /\ Coming(X) => Coming(X)'
  BY <1>2, <1>4, <1>5, <1>6, <1>7, ComingStays
<1> QED BY <1>1, <1>3, <1>8, FlowRing

\* The host hands over a block, which is not being fetched.
LEMMA BlkKeepsFlow ==
  ASSUME BlkInv, HaltInv, InFlow, NEW items \in Seq(Items), NEW m \in Msgs, m.cmd = "rdy",
         HostBlk(items, m), iBlk' \in [0..IBlkCnt-1 -> [0..BlkQw-1 -> Nat]],
         \A b \in 0..IBlkCnt-1 : b # hInIdx => iBlk'[b] = iBlk[b],
         Carries(m, Len(inSent), Len(inSent) + Len(items), inSent \o items, iBlk'[hInIdx])
  PROVE  InFlow'
<1>1. InRing /\ LastToHti /\ FlowTypes /\ Delivered /\ HostMsg(m)
  BY DEF BlkInv, HaltInv, InFlow, HostBlk
<1>2. hInAvl > 0 /\ ~hHalt /\ hInIdx' = (hInIdx + 1) % IBlkCnt /\ inSent' = inSent \o items /\ usrIn' = usrIn
  BY DEF HostBlk
<1>3. busy
  BY <1>2 DEF HaltInv, NothingToCome, InOver
<1>4. /\ UNCHANGED <<iCtlRdIdx, iCtlState, busy, inRcvd, iDatQue, iBlkRdyQue>> /\ UNCHANGED fetchPart
      /\ UNCHANGED <<iBlkRdyQue, iBlkRdIdx>>
  BY <1>1 DEF HostMsg, icm, htiIn, iAvl, ibk, iRd, iPush, htiVars, htiLog, fetchPart
<1>5. PICK p \in Slots : p = hInSlot
  BY <1>1 DEF InRing
<1>6. /\ p \notin Unread /\ Unread' = Unread \cup {p} /\ ctlIn'[p] = m
      /\ \A s \in Unread : ctlIn'[s] = ctlIn[s]
  BY <1>1, <1>5, InPut, PersAssumption DEF Cmds
<1>7. PutLast(p)
  <2>1. ctlIn[hInSlot] = NoMsg /\ hInSlot' = (hInSlot + 1) % CtlQueSize
    BY <1>1 DEF HostMsg
  <2>2. \A s \in Unread : Ahead(s) < Ahead(p)
    BY <1>1, <1>3, <1>4, <1>5, <1>6, <2>1, OrderPut, PersAssumption DEF HaltInv
  <2>3. \A t \in Slots : Ahead(t) \in Nat
    BY <1>1, AheadIs, PersAssumption
  <2>4. \A t \in Slots : Ahead(t)' = Ahead(t)
    BY <1>4 DEF Ahead
  <2>5. Unread \subseteq Slots
    BY <1>1, UnreadType, PersAssumption
  <2> QED BY <1>6, <2>2, <2>3, <2>4, <2>5 DEF PutLast
<1>8. IBlkCnt \in Nat \ {0, 1} /\ hInIdx \in 0..IBlkCnt-1 /\ iBlkRdIdx \in 0..IBlkCnt-1
  BY <1>1, PersAssumption DEF PersAssumption, FlowTypes
<1>9. PutBlk /\ hInIdx' \in 0..IBlkCnt-1
  BY <1>2, <1>8, RingNext DEF PutBlk
<1>10. Extends(inSent', inSent) /\ inSent' \in Seq(Items) /\ Len(inSent') = Len(inSent) + Len(items)
  BY <1>1, <1>2, Joined DEF FlowTypes
<1>11. NotTaken("rdy")' = NotTaken("rdy") + 1
  BY <1>1, <1>5, <1>6, UnreadPut, PersAssumption DEF NotTaken
<1>12. PICK N \in Nat : N = Len(iBlkRdyQue) + NotTaken("rdy") /\ N + InHeld < IBlkCnt
  <2>1. /\ hInAvl \in Nat /\ Len(iBlkRdyQue) \in Nat /\ NotTaken("rdy") \in Nat
        /\ OnTheWay("avl") \in Nat /\ InHeld \in Nat /\ InBack \in Nat /\ IBlkCnt \in Nat
    BY SumTypes, PersAssumption DEF BlkInv
  <2>2. InSum = IBlkCnt
    BY <1>3 DEF BlkInv, Sums
  <2> QED BY SMTT(60), <1>2, <2>1, <2>2 DEF InSum
<1>13. PICK X \in Nat : Coming(X) /\ InBlock(X)
  BY <1>3 DEF InFlow
<1>14. Coming(X)'
  <2>1. Len(iBlkRdyQue) + NotTaken("rdy") < IBlkCnt
    <3>1. InHeld \in 0..1
      BY DEF InHeld
    <3> QED BY <1>8, <1>12, <3>1
  <2>2. Carries(ctlIn'[p], Len(inSent), Len(inSent'), inSent', iBlk'[hInIdx])
    BY <1>2, <1>6, <1>10
  <2> QED BY <1>1, <1>4, <1>7, <1>9, <1>10, <1>11, <1>13, <2>1, <2>2, ComingPut
<1>15. BlkStays
  <2> SUFFICES ASSUME iBlkState # "IDLE" PROVE iBlk'[iBlkRdAdr[1]] = iBlk[iBlkRdAdr[1]]
    BY DEF BlkStays
  <2>1. PICK b \in 0..IBlkCnt-1 : b = iBlkRdAdr[1] /\ Round(IBlkCnt, b + 1) = iBlkRdIdx
    BY <1>13 DEF InBlock, Fetching, Block
  <2>2. hInIdx = Place(N)
    <3>1. PICK T \in Nat, Q \in Nat, H \in Nat, from \in [Nat -> Nat], num \in [Slots -> Nat] :
            Sizes(X, T, Q, H, from)
      BY <1>13 DEF Coming
    <3>2. Len(iBlkRdyQue) = Q - T /\ NotTaken("rdy") = H - Q /\ hInIdx = Place(H - T)
      BY <3>1 DEF Sizes
    <3>3. N = H - T
      BY <1>12, <3>2
    <3> QED BY <3>2, <3>3
  <2>3. N + 1 \in 1..IBlkCnt-1 /\ N \in 0..IBlkCnt-1
    <3>1. InHeld = 1
      BY DEF InHeld
    <3> QED BY <1>8, <1>12, <3>1
  <2>4. Round(IBlkCnt, hInIdx + 1) = Place(N + 1)
    BY <1>8, <2>2, <2>3, Places
  <2>5. Place(N + 1) # Place(0) /\ Place(0) = iBlkRdIdx
    <3>1. N + 1 \in 0..IBlkCnt-1 /\ 0 \in 0..IBlkCnt-1 /\ N + 1 # 0
      BY <1>8, <2>3
    <3> QED BY <1>8, <3>1, Places
  <2>6. b # hInIdx
    BY <2>1, <2>4, <2>5
  <2> QED BY <2>1, <2>6
<1>16. Delivered' /\ Handed' = Handed
  BY <1>1, <1>4, <1>10, FlowLens, DeliveredStays
<1>17. InBlock(X)'
  BY <1>4, <1>10, <1>13, <1>15, <1>16, InBlockStays
<1>18. FlowTypes'
  BY <1>1, <1>2, <1>4, <1>9, <1>10 DEF FlowTypes
<1> QED BY <1>14, <1>16, <1>17, <1>18 DEF InFlow

\* Each message of the host is one of these; what it sends is added to what it
\* has sent.
LEMMA HostKeepsFlow ==
  ASSUME BlkInv, HaltInv, InFlow, HostNext
  PROVE  /\ InFlow'
         /\ \/ inSent' = inSent
            \/ \E items \in Seq(Items) : items # <<>> /\ inSent' = inSent \o items
<1>1. /\ inSent \in Seq(Items) /\ usrIn \in Nat /\ hInIdx \in 0..IBlkCnt-1
      /\ iBlk \in [0..IBlkCnt-1 -> [0..BlkQw-1 -> Nat]] /\ MaxIn \in Nat /\ BlkQw \in Nat
  BY UnitAssumption, PersAssumption DEF InFlow, FlowTypes, UnitAssumption, PersAssumption
<1>2. PICK a \in Nat : a = Len(inSent)
  BY <1>1, LenProperties
<1>3. CASE HostData
  <2>1. PICK n \in 1..Lower(BlkQw, MaxIn - Len(inSent) - usrIn) :
          /\ iBlk' = [iBlk EXCEPT ![hInIdx] =
                        [q \in DOMAIN @ |-> IF q < n THEN Len(inSent) + q + 1 ELSE @[q]]]
          /\ HostBlk(Words(iBlk'[hInIdx], n), RdyMsg("DATA", n))
    BY <1>3 DEF HostData
  <2>2. n \in 1..BlkQw /\ n \in Nat /\ n > 0
    BY <1>1, <1>2 DEF Lower
  <2>3. PICK blk : blk = [q \in 0..BlkQw-1 |-> IF q < n THEN a + q + 1 ELSE iBlk[hInIdx][q]]
    OBVIOUS
  <2>4. blk \in [0..BlkQw-1 -> Nat]
    <3>1. \A q \in 0..BlkQw-1 : iBlk[hInIdx][q] \in Nat
      BY <1>1
    <3>2. \A q \in 0..BlkQw-1 : a + q + 1 \in Nat
      BY <1>1
    <3> QED BY <2>3, <3>1, <3>2
  <2>5. /\ iBlk'[hInIdx] = blk /\ iBlk' \in [0..IBlkCnt-1 -> [0..BlkQw-1 -> Nat]]
        /\ \A b \in 0..IBlkCnt-1 : b # hInIdx => iBlk'[b] = iBlk[b]
    <3>1. DOMAIN iBlk[hInIdx] = 0..BlkQw-1
      BY <1>1
    <3>2. iBlk' = [iBlk EXCEPT ![hInIdx] = blk]
      BY <1>2, <2>1, <2>3, <3>1
    <3> QED BY <1>1, <2>4, <3>2
  <2>6. PICK items : items = Words(blk, n)
    OBVIOUS
  <2>7. HostBlk(items, RdyMsg("DATA", n))
    BY <2>1, <2>5, <2>6
  <2>8. /\ items \in Seq(Items) /\ Len(items) = n
        /\ \A w \in 0..n-1 : items[w + 1] = Item("DATA", blk[w])
    <3>1. items = [i \in 1..n |-> Item("DATA", blk[i - 1])]
      BY <2>6 DEF Words
    <3>2. \A i \in 1..n : Item("DATA", blk[i - 1]) \in Items
      <4>1. \A i \in 1..n : i - 1 \in 0..BlkQw-1
        BY <1>1, <2>2
      <4>2. \A i \in 1..n : blk[i - 1] \in Nat
        BY <2>4, <4>1
      <4> QED BY <4>2 DEF Item, Items, Ctl
    <3>3. items \in [1..n -> Items]
      BY <3>1, <3>2
    <3>4. items \in Seq(Items)
      BY <2>2, <3>3, SeqDef
    <3>5. Len(items) = n
      BY <2>2, <3>3, <3>4, LenProperties
    <3>6. \A w \in 0..n-1 : w + 1 \in 1..n /\ (w + 1) - 1 = w
      BY <2>2
    <3> QED BY <3>1, <3>4, <3>5, <3>6
  <2>9. Carries(RdyMsg("DATA", n), a, a + n, inSent \o items, blk)
    <3>1. \A k \in 1..n : (inSent \o items)[a + k] = items[k]
      BY <1>1, <1>2, <2>8, Joined
    <3>2. \A w \in 0..n-1 : w + 1 \in 1..n /\ a + (w + 1) = a + w + 1
      BY <2>2
    <3>3. \A w \in 0..n-1 : (inSent \o items)[a + w + 1] = Item("DATA", blk[w])
      BY <2>8, <3>1, <3>2
    <3>4. RdyMsg("DATA", n).ctl = "DATA" /\ RdyMsg("DATA", n).arg = n
      BY DEF RdyMsg, Msg
    <3> QED BY <2>2, <3>3, <3>4 DEF Carries
  <2>10. RdyMsg("DATA", n) \in Msgs /\ RdyMsg("DATA", n).cmd = "rdy"
    BY <2>2, MsgCmds DEF Ctl
  <2>11. InFlow'
    BY <1>2, <2>5, <2>7, <2>8, <2>9, <2>10, BlkKeepsFlow
  <2>12. items # <<>> /\ inSent' = inSent \o items
    <3>1. Len(<<>>) = 0
      BY EmptySeq
    <3> QED BY <2>2, <2>7, <2>8, <3>1 DEF HostBlk
  <2> QED BY <2>8, <2>11, <2>12
<1>4. ASSUME NEW k \in Ctl \ {"DATA"}, NEW n \in Nat, HostBlk(<<Item(k, n)>>, RdyMsg(k, n)),
             iBlk' = iBlk
      PROVE  /\ InFlow'
             /\ \E items \in Seq(Items) : items # <<>> /\ inSent' = inSent \o items
  <2>1. PICK items : items = <<Item(k, n)>>
    OBVIOUS
  <2>2. items \in Seq(Items) /\ Len(items) = 1 /\ items[1] = Item(k, n) /\ items # <<>>
    BY <2>1 DEF Item, Items
  <2>3. Carries(RdyMsg(k, n), a, a + 1, inSent \o items, iBlk'[hInIdx])
    <3>1. (inSent \o items)[a + 1] = items[1]
      BY <1>1, <1>2, <2>2, Joined
    <3>2. RdyMsg(k, n).ctl = k /\ RdyMsg(k, n).arg = n
      BY DEF RdyMsg, Msg
    <3> QED BY <2>2, <3>1, <3>2 DEF Carries
  <2>4. RdyMsg(k, n) \in Msgs /\ RdyMsg(k, n).cmd = "rdy"
    BY MsgCmds
  <2>5. HostBlk(items, RdyMsg(k, n))
    BY <1>4, <2>1
  <2>6. InFlow'
    BY <1>1, <1>2, <1>4, <2>2, <2>3, <2>4, <2>5, BlkKeepsFlow
  <2> QED BY <2>2, <2>5, <2>6 DEF HostBlk
<1>5. CASE HostSpecial
  <2>1. PICK k \in InCtls \cap {"NULL", "CALL"} :
          LET n == IF k = "CALL" THEN Argc ELSE 0 IN HostBlk(<<Item(k, n)>>, RdyMsg(k, n))
    BY <1>5 DEF HostSpecial
  <2>2. PICK n \in Nat : n = IF k = "CALL" THEN Argc ELSE 0
    BY UnitAssumption DEF UnitAssumption
  <2>3. iBlk' = iBlk /\ k \in Ctl \ {"DATA"} /\ HostBlk(<<Item(k, n)>>, RdyMsg(k, n))
    BY <1>5, <2>1, <2>2 DEF HostSpecial, Ctl
  <2> QED BY <1>4, <2>3
<1>6. CASE HostHalt
  BY <1>4, <1>6 DEF HostHalt, Ctl
<1>7. CASE HostUser
  <2>1. HostMsg(UserMsg) /\ UNCHANGED <<iBlk, hInIdx, inSent>> /\ usrIn' = usrIn + 1
    BY <1>7 DEF HostUser
  <2>2. UserMsg \in Msgs /\ UserMsg.cmd = "user" /\ "user" \in Cmds /\ "user" # "rdy"
    BY MsgCmds DEF Cmds
  <2>3. usrIn' \in Nat
    BY <1>1, <2>1
  <2> QED BY <2>1, <2>2, <2>3, OtherKeepsFlow
<1>8. CASE HostGiveBack
  <2>1. HostMsg(AvlMsg) /\ UNCHANGED <<iBlk, hInIdx, inSent>> /\ usrIn' = usrIn
    BY <1>8 DEF HostGiveBack
  <2>2. AvlMsg \in Msgs /\ AvlMsg.cmd = "avl" /\ "avl" \in Cmds /\ "avl" # "rdy"
    BY MsgCmds DEF Cmds
  <2> QED BY <1>1, <2>1, <2>2, OtherKeepsFlow
<1>9. CASE HostRecv
  <2>1. UNCHANGED flowPart /\ inSent' = inSent
    BY <1>9 DEF HostRecv, icm, htiIn, iAvl, htiVars, htiLog, flowPart
  <2>2. UNCHANGED fetchPart
    BY <1>9 DEF HostRecv, ibk, iRd, iPush, fetchPart
  <2> QED BY <2>1, <2>2, FlowStays DEF HaltInv
<1> QED BY <1>3, <1>5, <1>6, <1>7, <1>8, <1>9 DEF HostNext

\* At first nothing has been sent.
LEMMA InitFlow ==
  ASSUME Init
  PROVE  InFlow
<1>1. Coming(0) /\ InBlock(0)
  BY ComingInit, InBlockInit
<1>2. /\ inSent = <<>> /\ inRcvd = <<>> /\ usrIn = 0 /\ iBlkRdIdx = 0 /\ hInIdx = 0 /\ iDatQue = <<>>
      /\ iBlk = [b \in 0..IBlkCnt-1 |-> [q \in 0..BlkQw-1 |-> 0]]
  BY DEF Init, HifInit, HifReset, HtiInit
<1>3. <<>> \in Seq(Items) /\ Len(<<>>) = 0
  BY EmptySeq
<1>4. FlowTypes
  BY <1>2, <1>3, PersAssumption DEF FlowTypes, PersAssumption
<1>5. Delivered
  BY <1>2, <1>3 DEF Delivered, Handed
<1> QED BY <1>1, <1>4, <1>5 DEF InFlow

\* The invariant: for every number of blocks, slots, lines and buffers, all
\* that the host has sent and HTI has not taken lies in one of these places,
\* in its order.
THEOREM FlowInvariance == Spec => []InFlow
<1>1. Init => InFlow
  BY InitFlow
<1>2. BlkInv /\ Rested /\ HaltInv /\ InFlow /\ [Next]_vars => InFlow'
  <2> SUFFICES ASSUME BlkInv, Rested, HaltInv, InFlow, [Next]_vars PROVE InFlow'
    OBVIOUS
  <2>1. CASE HifStep
    BY <2>1, HifKeepsFlow DEF HifStep, Alone
  <2>2. CASE HtiStep
    BY <2>2, HtiKeepsFlow
  <2>3. CASE HostNext
    BY <2>3, HostKeepsFlow
  <2>4. CASE UNCHANGED vars
    <3>1. UNCHANGED flowPart
      BY <2>4 DEF vars, hifVars, htiVars, htiLog, hostVars, mem, icm, htiIn, iAvl, flowPart
    <3>2. UNCHANGED fetchPart
      BY <2>4 DEF vars, hifVars, ibk, iRd, iPush, fetchPart
    <3> QED BY <3>1, <3>2, FlowStays DEF HaltInv
  <2> QED BY <2>1, <2>2, <2>3, <2>4 DEF Next, Finished
<1> QED BY <1>1, <1>2, BlkInvariance, WrInvariance, HaltInvariance, PTL DEF Spec

----------------------------------------------------------------------------
\* The end of a sequence, and its beginning.
LEMMA Cut ==
  ASSUME NEW S, NEW w \in Seq(S), NEW c \in Nat, Len(w) = c, NEW j \in 0..c
  PROVE  /\ SubSeq(w, j + 1, c) \in Seq(S) /\ Len(SubSeq(w, j + 1, c)) = c - j
         /\ \A i \in 1..c-j : SubSeq(w, j + 1, c)[i] = w[j + i]
<1>1. \A i \in j+1..c : i \in 1..c
  OBVIOUS
<1>2. \A i \in j+1..c : w[i] \in S
  BY <1>1, ElementOfSeq
<1>3. j + 1 \in Int /\ c \in Int
  OBVIOUS
<1>4. /\ SubSeq(w, j + 1, c) \in Seq(S)
      /\ Len(SubSeq(w, j + 1, c)) = IF j + 1 <= c THEN c - (j + 1) + 1 ELSE 0
      /\ \A i \in 1..c-(j+1)+1 : SubSeq(w, j + 1, c)[i] = w[j + 1 + i - 1]
  BY <1>2, <1>3, SubSeqProperties
<1>5. 1..c-(j+1)+1 = 1..c-j /\ \A i \in 1..c-j : j + 1 + i - 1 = j + i
  OBVIOUS
<1>6. (IF j + 1 <= c THEN c - (j + 1) + 1 ELSE 0) = c - j
  OBVIOUS
<1>7. \A i \in 1..c-j : SubSeq(w, j + 1, c)[i] = w[j + i]
  BY <1>4, <1>5
<1> QED BY <1>4, <1>6, <1>7

\* What a sequence begins with.
LEMMA Begins ==
  ASSUME NEW S, NEW u \in Seq(S), NEW s \in Seq(S), NEW a \in Nat, a = Len(s),
         \A i \in 1..a : u[i] = s[i]
  PROVE  SubSeq(u, 1, a) = s
<1>1. \A i \in 1..a : 1 + i - 1 = i
  OBVIOUS
<1>2. \A i \in 1..a : u[i] \in S
  BY ElementOfSeq
<1>3. /\ SubSeq(u, 1, a) \in Seq(S) /\ Len(SubSeq(u, 1, a)) = IF 1 <= a THEN a - 1 + 1 ELSE 0
      /\ \A i \in 1..a-1+1 : SubSeq(u, 1, a)[i] = u[1 + i - 1]
  BY <1>2, SubSeqProperties
<1>4. PICK v \in Seq(S) : v = SubSeq(u, 1, a)
  BY <1>3
<1>5. Len(v) = a
  BY <1>3, <1>4
<1>6. \A i \in 1..a : v[i] = u[1 + i - 1]
  <2>1. 1..a-1+1 = 1..a
    OBVIOUS
  <2> QED BY <1>3, <1>4, <2>1
<1>7. \A i \in 1..a : v[i] = s[i]
  BY <1>1, <1>6
<1>8. v = s
  BY <1>5, <1>7, SeqEqual
<1> QED BY <1>4, <1>8

\* What is sent and not received, when more is sent,
LEMMA SentMore ==
  ASSUME NEW S, NEW s \in Seq(S), NEW t \in Seq(S), t # <<>>, NEW r \in Seq(S), Len(r) <= Len(s)
  PROVE  /\ InChannel!Continues(s \o t, s)
         /\ Rest(s \o t, r) = Rest(s, r) \o InChannel!Added(s \o t, s)
<1>1. PICK a, b, k, d \in Nat : /\ a = Len(s) /\ b = Len(t) /\ k = Len(r) /\ k <= a
                                /\ d = a - k
  <2>1. PICK a, b, k \in Nat : a = Len(s) /\ b = Len(t) /\ k = Len(r) /\ k <= a
    BY LenProperties
  <2>2. a - k \in Nat
    BY <2>1
  <2> QED BY <2>1, <2>2
<1>2. b # 0
  BY <1>1, EmptySeq
<1>3. PICK u : u = s \o t
  OBVIOUS
<1>4. /\ u \in Seq(S) /\ Len(u) = a + b
      /\ \A i \in 1..a+b : u[i] = IF i <= a THEN s[i] ELSE t[i - a]
  BY <1>1, <1>3, ConcatProperties
<1>5. /\ \A i \in 1..a : s[i] \in S
      /\ \A i \in 1..a+b : u[i] \in S
  BY <1>1, <1>4, ElementOfSeq
<1>6. SubSeq(u, 1, a) = s
  <2>1. \A i \in 1..a : i \in 1..a+b /\ i <= a
    OBVIOUS
  <2>2. \A i \in 1..a : u[i] = s[i]
    BY <1>4, <2>1
  <2> QED BY <1>1, <1>4, <2>2, Begins
<1>8. SubSeq(u, a + 1, a + b) = t
  <2>1. a \in 0..a+b /\ a + b \in Nat /\ (a + b) - a = b
    OBVIOUS
  <2>2. PICK v : v = SubSeq(u, a + 1, a + b)
    OBVIOUS
  <2>3. v \in Seq(S) /\ Len(v) = b /\ \A i \in 1..b : v[i] = u[a + i]
    <3>1. /\ v \in Seq(S) /\ Len(v) = (a + b) - a /\ \A i \in 1..(a+b)-a : v[i] = u[a + i]
      BY <1>4, <2>1, <2>2, Cut
    <3> QED BY <2>1, <3>1
  <2>4. \A i \in 1..b : a + i \in 1..a+b /\ ~(a + i <= a) /\ (a + i) - a = i
    OBVIOUS
  <2>5. \A i \in 1..b : v[i] = t[i]
    BY <1>4, <2>3, <2>4
  <2> QED BY <1>1, <2>2, <2>3, <2>5, SeqEqual
<1>9. SubSeq(u, k + 1, a + b) = SubSeq(s, k + 1, a) \o t
  <2>1. k \in 0..a /\ k \in 0..a+b /\ a + b \in Nat
    BY <1>1
  <2>2. PICK v, x : v = SubSeq(u, k + 1, a + b) /\ x = SubSeq(s, k + 1, a)
    OBVIOUS
  <2>3. /\ v \in Seq(S) /\ Len(v) = (a + b) - k /\ \A i \in 1..(a+b)-k : v[i] = u[k + i]
    BY <1>4, <2>1, <2>2, Cut
  <2>4. /\ x \in Seq(S) /\ Len(x) = d /\ \A i \in 1..d : x[i] = s[k + i]
    BY <1>1, <2>1, <2>2, Cut, SMTT(30)
  <2>6. (a + b) - k = d + b
    BY <1>1
  <2>7. /\ x \o t \in Seq(S) /\ Len(x \o t) = d + b
        /\ \A i \in 1..d+b : (x \o t)[i] = IF i <= d THEN x[i] ELSE t[i - d]
    <3>1. x \in Seq(S) /\ Len(x) = d
      BY <2>4
    <3>2. t \in Seq(S) /\ Len(t) = b
      BY <1>1
    <3>3. PICK y : y = x \o t
      OBVIOUS
    <3>4. /\ y \in Seq(S) /\ Len(y) = d + b
          /\ \A i \in 1..d+b : y[i] = IF i <= d THEN x[i] ELSE t[i - d]
      BY <3>1, <3>2, <3>3, ConcatProperties
    <3> QED BY <3>3, <3>4
  <2>8. ASSUME NEW i \in 1..d+b PROVE v[i] = (x \o t)[i]
    <3>1. k + i \in 1..a+b
      BY <1>1
    <3>2. v[i] = IF k + i <= a THEN s[k + i] ELSE t[(k + i) - a]
      BY <1>4, <2>3, <2>6, <3>1
    <3>3. CASE i <= d
      <4>1. k + i <= a /\ i \in 1..d
        BY <1>1, <3>3
      <4>2. x[i] = s[k + i]
        BY <2>4, <4>1
      <4> QED BY <2>7, <3>2, <3>3, <4>1, <4>2
    <3>4. CASE ~(i <= d)
      <4>1. ~(k + i <= a) /\ (k + i) - a = i - d
        BY <1>1, <3>4
      <4> QED BY <2>7, <3>2, <3>4, <4>1
    <3> QED BY <3>3, <3>4
  <2>9. v = x \o t
    <3>1. Len(v) = d + b
      BY <2>3, <2>6
    <3> QED BY <2>3, <2>7, <2>8, <3>1, SeqEqual
  <2> QED BY <2>2, <2>9
<1>10. a + b > a
  BY <1>2
<1> QED BY <1>1, <1>3, <1>4, <1>6, <1>8, <1>9, <1>10 DEF InChannel!Continues, InChannel!Added, Rest

\* and when the next item is received.
LEMMA RcvdMore ==
  ASSUME NEW S, NEW s \in Seq(S), NEW r \in Seq(S), Len(r) + 1 \in 1..Len(s)
  PROVE  LET r2 == Append(r, s[Len(r) + 1]) IN
         InChannel!Continues(r2, r) /\ Rest(s, r) = InChannel!Added(r2, r) \o Rest(s, r2)
<1>1. PICK a, k \in Nat : a = Len(s) /\ k = Len(r)
  BY LenProperties
<1>2. PICK e : e = s[k + 1]
  OBVIOUS
<1>3. k + 1 \in 1..a /\ e \in S
  BY <1>1, <1>2, ElementOfSeq
<1>4. PICK r2 : r2 = Append(r, e)
  OBVIOUS
<1>5. /\ r2 \in Seq(S) /\ Len(r2) = k + 1 /\ r2[k + 1] = e /\ \A i \in 1..k : r2[i] = r[i]
  BY <1>1, <1>3, <1>4, AppendProperties
<1>6. SubSeq(r2, 1, k) = r /\ SubSeq(r2, k + 1, k + 1) = <<e>>
  <2>1. SubSeq(r2, 1, k) = r
    BY <1>1, <1>5, Begins
  <2>2. PICK c \in Nat : c = k + 1 /\ k \in 0..c /\ c - k = 1 /\ Len(r2) = c
    BY <1>5
  <2>3. PICK v : v = SubSeq(r2, k + 1, c)
    OBVIOUS
  <2>4. v \in Seq(S) /\ Len(v) = c - k /\ \A i \in 1..c-k : v[i] = r2[k + i]
    BY <1>5, <2>2, <2>3, Cut
  <2>5. Len(v) = 1 /\ v[1] = e
    BY <1>5, <2>2, <2>4
  <2>6. <<e>> \in Seq(S) /\ Len(<<e>>) = 1 /\ <<e>>[1] = e
    BY <1>3
  <2>7. v = <<e>>
    BY <2>4, <2>5, <2>6, SeqEqual
  <2> QED BY <2>1, <2>2, <2>3, <2>7
<1>7. SubSeq(s, k + 1, a) = <<e>> \o SubSeq(s, k + 2, a)
  BY <1>1, <1>2, <1>3
<1> QED BY <1>1, <1>2, <1>4, <1>5, <1>6, <1>7, SMTT(30) DEF InChannel!Continues, InChannel!Added, Rest

\* What the host sends HTI takes, once and in order, for every value of the
\* constants: the hardware implements the channel.
THEOREM InArrivesInOrderCorrect == Spec => InArrivesInOrder
<1>1. Init => InChannel!Init
  <2> SUFFICES ASSUME Init PROVE InChannel!Init
    OBVIOUS
  <2>1. inSent = <<>> /\ inRcvd = <<>>
    BY DEF Init, HtiInit
  <2>2. Rest(inSent, inRcvd) = <<>>
    <3>1. Len(<<>>) = 0
      BY EmptySeq
    <3>2. SubSeq(<<>>, 0 + 1, 0) = <<>>
      BY SubSeqEmpty
    <3> QED BY <2>1, <3>1, <3>2 DEF Rest
  <2> QED BY <2>1, <2>2 DEF InChannel!Init
<1>2. BlkInv /\ HaltInv /\ InFlow /\ [Next]_vars => [InChannel!Next]_(InChannel!chanVars)
  <2> SUFFICES ASSUME BlkInv, HaltInv, InFlow, [Next]_vars
               PROVE  [InChannel!Next]_(InChannel!chanVars)
    OBVIOUS
  <2>1. inSent \in Seq(Items) /\ inRcvd \in Seq(Items) /\ Len(inRcvd) <= Len(inSent)
    <3>1. /\ inSent \in Seq(Items) /\ inRcvd \in Seq(Items) /\ LastToHti
          /\ Handed <= Len(inSent)
      BY DEF InFlow, FlowTypes, Delivered, HaltInv
    <3>2. Len(inRcvd) \in Nat /\ Len(iDatQue) \in Nat /\ Len(inSent) \in Nat
      BY <3>1, FlowLens DEF InFlow
    <3> QED BY <3>1, <3>2 DEF Handed
  <2>2. CASE UNCHANGED <<inSent, inRcvd>>
    <3>1. Rest(inSent, inRcvd)' = Rest(inSent, inRcvd)
      BY <2>2 DEF Rest
    <3> QED BY <2>2, <3>1 DEF InChannel!chanVars
  <2>3. CASE HtiStep
    <3>1. inSent' = inSent
      BY <2>3 DEF HtiStep, hostVars
    <3>2. \/ inRcvd' = inRcvd
          \/ /\ inRcvd' = Append(inRcvd, inSent[Len(inRcvd) + 1])
             /\ Len(inRcvd) + 1 \in 1..Len(inSent)
      BY <2>3, HtiKeepsFlow
    <3>3. ASSUME inRcvd' = Append(inRcvd, inSent[Len(inRcvd) + 1]), Len(inRcvd) + 1 \in 1..Len(inSent)
          PROVE  InChannel!Recv
      <4>1. /\ InChannel!Continues(inRcvd', inRcvd)
            /\ Rest(inSent, inRcvd) = InChannel!Added(inRcvd', inRcvd) \o Rest(inSent, inRcvd')
        BY <2>1, <3>3, RcvdMore
      <4>2. Rest(inSent, inRcvd)' = Rest(inSent, inRcvd')
        BY <3>1 DEF Rest
      <4> QED BY <3>1, <4>1, <4>2 DEF InChannel!Recv
    <3> QED BY <2>2, <3>1, <3>2, <3>3 DEF InChannel!Next
  <2>4. CASE HostNext
    <3>1. inRcvd' = inRcvd
      BY <2>4 DEF HostNext, HostData, HostSpecial, HostHalt, HostUser, HostRecv, HostGiveBack, HostBlk,
                  HostMsg, htiVars, htiLog
    <3>2. inSent' = inSent \/ \E items \in Seq(Items) : items # <<>> /\ inSent' = inSent \o items
      BY <2>4, HostKeepsFlow
    <3>3. ASSUME NEW items \in Seq(Items), items # <<>>, inSent' = inSent \o items
          PROVE  InChannel!Send
      <4>1. /\ InChannel!Continues(inSent', inSent)
            /\ Rest(inSent', inRcvd) = Rest(inSent, inRcvd) \o InChannel!Added(inSent', inSent)
        BY <2>1, <3>3, SentMore
      <4>2. Rest(inSent, inRcvd)' = Rest(inSent', inRcvd)
        BY <3>1 DEF Rest
      <4> QED BY <3>1, <4>1, <4>2 DEF InChannel!Send
    <3> QED BY <2>2, <3>1, <3>2, <3>3 DEF InChannel!Next
  <2>5. CASE HifStep \/ UNCHANGED vars
    <3>1. UNCHANGED <<inSent, inRcvd>>
      BY <2>5 DEF HifStep, Alone, vars, htiVars, htiLog, hostVars
    <3> QED BY <2>2, <3>1
  <2> QED BY <2>3, <2>4, <2>5 DEF Next, Finished
<1> QED BY <1>1, <1>2, BlkInvariance, HaltInvariance, FlowInvariance, PTL
        DEF Spec, InArrivesInOrder, InChannel!Spec

----------------------------------------------------------------------------
\* The queues to HTI.  Every entry of the queue of items has its credit, and a
\* word is none of the last two there is room for: it was put in its place with
\* three credits, and places only get lower.
DatCredit ==
  /\ Len(iDatQue) <= QueDepth + 1
  /\ datAvlCnt = IF DatQueFits THEN QueDepth - Len(iDatQue) ELSE 63
  /\ \A i \in 1..Len(iDatQue) : iDatQue[i].ctl = "DATA" => i <= QueDepth - 2

\* A message is read when there is room for it.
CtlCredit ==
  /\ IsQueue(iCtlQue) /\ ctlAvlCnt \in Nat /\ ctlAvlCnt + Len(iCtlQue) = QueDepth
  /\ iCtlState = "RD_WAIT" => ctlAvlCnt # 0

(* A step that does not touch the queue. *)
LEMMA DatStays ==
  ASSUME DatCredit, UNCHANGED <<datAvlCnt, iDatQue>>
  PROVE  DatCredit'
<1>1. DatQueFits' = DatQueFits
  BY DEF DatQueFits
<1> QED BY <1>1 DEF DatCredit

\* What a register that wraps at N makes of a number, and of one below zero; N is 64 here.
LEMMA Euclid ==
  ASSUME NEW N \in Nat \ {0}, NEW k \in Int, NEW r \in 0..N-1
  PROVE  (N * k + r) % N = r
OBVIOUS

LEMMA BelowZero ==
  ASSUME NEW N \in Nat \ {0}, NEW x \in Int, x = -1
  PROVE  x % N = N - 1
<1>1. x = N * (-1) + (N - 1)
  OBVIOUS
<1>2. (N * (-1) + (N - 1)) % N = N - 1
  BY Euclid
<1> QED BY <1>1, <1>2

LEMMA InRange ==
  ASSUME NEW x \in 0..63
  PROVE  x % 64 = x
OBVIOUS

LEMMA SixBits ==
  ASSUME NEW x \in Int, x = -1
  PROVE  x % 64 = 63
<1>1. PICK N \in Nat \ {0} : N = 64
  OBVIOUS
<1>2. x % N = N - 1
  BY BelowZero
<1> QED BY <1>1, <1>2

\* The credit of a queue with room for d items that holds b, when one more is pushed or popped.
LEMMA CreditDown ==
  ASSUME NEW d \in 4..63, NEW b \in Nat, b <= d
  PROVE  (d - b - 1) % 64 = IF b + 1 <= d THEN d - (b + 1) ELSE 63
<1>1. CASE b < d
  <2>1. d - b - 1 \in 0..63
    BY <1>1
  <2>2. (d - b - 1) % 64 = d - b - 1
    BY <2>1, InRange
  <2> QED BY <1>1, <2>2
<1>2. CASE b = d
  <2>1. d - b - 1 \in Int /\ d - b - 1 = -1
    BY <1>2
  <2>2. (d - b - 1) % 64 = 63
    BY <2>1, SixBits
  <2> QED BY <1>2, <2>2
<1> QED BY <1>1, <1>2

LEMMA CreditUp ==
  ASSUME NEW d \in 4..63, NEW b \in Nat, 0 < b, b <= d
  PROVE  (d - b + 1) % 64 = d - (b - 1)
<1>1. d - b + 1 \in 0..63
  OBVIOUS
<1>2. (d - b + 1) % 64 = d - b + 1
  BY <1>1, InRange
<1> QED BY <1>2

(* An item is put in the queue: a word with three credits, or an empty block. *)
LEMMA DatPush ==
  ASSUME LastToHti, DatQueFits, DatCredit, NEW e, IDatPush(e), e.ctl = "DATA" => datAvlCnt >= 3
  PROVE  DatCredit'
<1>1. PICK b, d \in Nat : b = Len(iDatQue) /\ d = QueDepth /\ b <= d /\ d \in 4..63
  BY PersAssumption, QueueAppend DEF PersAssumption, LastToHti, DatQueFits
<1>2. /\ Len(iDatQue') = b + 1 /\ iDatQue'[b + 1] = e
      /\ \A i \in 1..b : iDatQue'[i] = iDatQue[i]
  BY <1>1, QueueAppend DEF IDatPush, LastToHti
<1>3. datAvlCnt = d - b
  BY <1>1 DEF DatCredit
<1>4. datAvlCnt' = IF b + 1 <= d THEN d - (b + 1) ELSE 63
  <2>1. datAvlCnt' = (d - b - 1) % 64
    BY <1>3 DEF IDatPush
  <2> QED BY <1>1, <2>1, CreditDown
<1>5. ASSUME NEW i \in 1..b+1, iDatQue'[i].ctl = "DATA" PROVE i <= d - 2
  <2>1. CASE i = b + 1
    <3>1. d - b >= 3
      BY <1>2, <1>3, <1>5, <2>1
    <3> QED BY <1>1, <2>1, <3>1
  <2>2. CASE i \in 1..b
    BY <1>1, <1>2, <1>5, <2>2 DEF DatCredit
  <2> QED BY <1>1, <2>1, <2>2
<1> QED BY <1>1, <1>2, <1>4, <1>5 DEF DatCredit, DatQueFits

(* The first item is taken from it. *)
LEMMA DatPop ==
  ASSUME LastToHti, DatQueFits, DatCredit, iDatQue # <<>>, IDatPop
  PROVE  DatCredit'
<1>1. PICK b, d \in Nat : b = Len(iDatQue) /\ d = QueDepth /\ 0 < b /\ b <= d /\ d \in 4..63
  BY PersAssumption, QueueTail DEF PersAssumption, LastToHti, DatQueFits
<1>2. Len(iDatQue') = b - 1 /\ \A i \in 1..b-1 : iDatQue'[i] = iDatQue[i + 1]
  BY <1>1, QueueTail DEF IDatPop, LastToHti
<1>3. datAvlCnt' = d - (b - 1)
  <2>1. datAvlCnt' = (d - b + 1) % 64
    BY <1>1 DEF IDatPop, DatCredit
  <2> QED BY <1>1, <2>1, CreditUp
<1>4. ASSUME NEW i \in 1..b-1, iDatQue'[i].ctl = "DATA" PROVE i <= d - 2
  <2>1. i + 1 \in 1..b /\ iDatQue[i + 1].ctl = "DATA"
    BY <1>1, <1>2, <1>4
  <2>2. i + 1 <= d - 2
    BY <1>1, <2>1 DEF DatCredit
  <2> QED BY <1>1, <2>2
<1> QED BY <1>1, <1>2, <1>3, <1>4 DEF DatCredit, DatQueFits

(* The machines: one puts items in the queue, *)
LEMMA IbkKeepsDat ==
  ASSUME HaltInv, DatQueFits, DatCredit, IbkNext
  PROVE  DatCredit'
<1>1. LastToHti
  BY DEF HaltInv
<1>2. \/ UNCHANGED <<datAvlCnt, iDatQue>>
      \/ \E e : IDatPush(e) /\ (e.ctl = "DATA" => datAvlCnt >= 3)
  <2>1. CASE IbkSpecial
    <3>1. Item(Head(iBlkRdyQue).ctl, Head(iBlkRdyQue).arg).ctl # "DATA"
      BY <2>1 DEF IbkSpecial, Item
    <3> QED BY <2>1, <3>1 DEF IbkSpecial
  <2>2. CASE IbkPush
    <3>1. IDatPush(Item("DATA", fetch[iBlkPushIdx].dat[iBlkPushCnt])) /\ datAvlCnt >= 3
      BY <2>2, ZenonT(60) DEF IbkPush
    <3> QED BY <3>1
  <2>3. CASE IbkNext /\ ~IbkSpecial /\ ~IbkPush
    BY <2>3 DEF IbkNext, IbkData, IbkFetch64, IbkFetch8, Fetch, IbkRead, IbkWait, IbkRdRsp, htiIn
  <2> QED BY <2>1, <2>2, <2>3
<1> QED BY <1>1, <1>2, DatStays, DatPush

(* HTI takes them out, *)
LEMMA HtiKeepsDat ==
  ASSUME HaltInv, DatQueFits, DatCredit, HtiStep
  PROVE  DatCredit'
<1>1. LastToHti
  BY DEF HaltInv
<1>2. UNCHANGED <<datAvlCnt, iDatQue>> \/ (iDatQue # <<>> /\ IDatPop)
  <2>1. CASE HtiNext
    BY <2>1 DEF HtiNext, HtiCallNext, HtiRtnNext, CallIdleData, CallIdleCall, CallIdleHalt,
                CallArgs, CallCmd, CallData, IhmPop, RtnIdle, RtnCmd, RtnArg, RtnDone, RtnData,
                RtnRest, Front, htiIn
  <2>2. CASE ModNext
    BY <2>2 DEF ModNext, ModTakeCall, ModReturn, ModSend, ModSendMsg, ModRest, HifRest,
                hifVars, htiIn
  <2> QED BY <2>1, <2>2 DEF HtiStep
<1> QED BY <1>1, <1>2, DatStays, DatPop

(* the host has nothing to do with it, *)
LEMMA HostKeepsDat ==
  ASSUME DatCredit, HostNext
  PROVE  DatCredit'
<1>1. UNCHANGED <<datAvlCnt, iDatQue>>
  BY DEF HostNext, HostData, HostSpecial, HostHalt, HostUser, HostRecv, HostGiveBack, HostBlk,
         HostMsg, htiIn
<1> QED BY <1>1, DatStays

(* and the reset finds it empty. *)
LEMMA HifKeepsDat ==
  ASSUME HaltInv, OutEnds, DatQueFits, DatCredit, HifNext
  PROVE  DatCredit'
<1>1. CASE IbkNext
  BY <1>1, IbkKeepsDat
<1>2. CASE Idle
  <2>1. iDatQue' = <<>> /\ datAvlCnt' = QueDepth
    BY <1>2 DEF Idle, IdleNow, OutEnds, Ended
  <2>2. QueDepth \in 4..63 /\ Len(iDatQue') = 0
    BY <2>1, PersAssumption DEF PersAssumption
  <2> QED BY <2>1, <2>2 DEF DatCredit, DatQueFits
<1>3. CASE IcmNext \/ OcmNext \/ ObkNext \/ ObkTimer \/ MemNext
  <2>1. UNCHANGED <<datAvlCnt, iDatQue>>
    <3>1. CASE IcmNext
      BY <3>1 DEF IcmNext, IcmRead, IcmEmpty, IcmTake, IcmUser, IcmRdy, IcmAvl, IcmWrite, IcmWrRsp, htiIn
    <3>2. CASE OcmNext
      BY <3>2 DEF OcmNext, OcmSelect, OcmRead, OcmRdWait, OcmWrite, OcmWrRsp, htiIn
    <3>3. CASE ObkNext \/ ObkTimer
      BY <3>3 DEF ObkNext, ObkTimer, ObkIdleFlsh, ObkIdle, ObkClose, ObkPop, ObkWr8, ObkWr64, ObkWrite,
                  ObkFlsh, ObkFlshed, ObkSendData, ObkSendItem, ObkSend, ObkRest
    <3>4. CASE MemNext
      BY <3>4 DEF MemNext, ObkWrRsp, MemSettle, ObkRdRsp, MemRest, htiIn
    <3> QED BY <1>3, <3>1, <3>2, <3>3, <3>4
  <2> QED BY <2>1, DatStays
<1> QED BY <1>1, <1>2, <1>3 DEF HifNext

(* At first it is empty. *)
LEMMA InitDat ==
  ASSUME Init
  PROVE  DatCredit
<1>1. datAvlCnt = QueDepth /\ iDatQue = <<>> /\ QueDepth \in 4..63
  BY PersAssumption DEF Init, HifInit, HifReset, PersAssumption
<1>2. Len(iDatQue) = 0
  BY <1>1
<1> QED BY <1>1, <1>2 DEF DatCredit, DatQueFits

(* User messages: one is taken from the ring when there is a credit for it. *)
LEMMA CtlKeeps ==
  ASSUME Rested, OutEnds, CtlCredit, [Next]_vars
  PROVE  CtlCredit'
<1>1. CASE HifStep
  <2>1. HifNext
    BY <1>1 DEF HifStep, Alone
  <2>2. CASE IcmNext
    <3>1. CASE IcmRead
      BY <3>1 DEF IcmRead, htiIn, CtlCredit
    <3>2. CASE IcmUser
      <4>1. iCtlQue' = Append(iCtlQue, ctlIn[iCtlRdIdx]) /\ ctlAvlCnt' = ctlAvlCnt - 1
            /\ iCtlState = "RD_WAIT" /\ iCtlState' = "WRITE"
        BY <3>2 DEF IcmUser, IcmTake
      <4>2. IsQueue(iCtlQue') /\ Len(iCtlQue') = Len(iCtlQue) + 1 /\ Len(iCtlQue) \in Nat
        BY <4>1, QueueAppend DEF CtlCredit
      <4> QED BY <4>1, <4>2 DEF CtlCredit
    <3>3. CASE IcmNext /\ ~IcmRead /\ ~IcmUser
      <4>1. UNCHANGED <<iCtlQue, ctlAvlCnt>> /\ (iCtlState' = iCtlState \/ iCtlState' # "RD_WAIT")
        BY <3>3 DEF IcmNext, IcmEmpty, IcmTake, IcmRdy, IcmAvl, IcmWrite, IcmWrRsp, htiIn
      <4> QED BY <4>1 DEF CtlCredit
    <3> QED BY <2>2, <3>1, <3>2, <3>3
  <2>3. CASE Idle
    <3>1. /\ iCtlQue = <<>> /\ iCtlQue' = iCtlQue /\ ctlAvlCnt' = QueDepth /\ iCtlState' = "READ"
      BY <2>3 DEF Idle, IdleNow, OutEnds, Ended
    <3>2. Len(iCtlQue') = 0 /\ QueDepth \in Nat
      BY <3>1, PersAssumption DEF PersAssumption
    <3> QED BY <3>1, <3>2 DEF CtlCredit, IsQueue
  <2>4. CASE OcmNext \/ IbkNext \/ ObkNext \/ ObkTimer \/ MemNext
    <3>1. UNCHANGED <<iCtlQue, ctlAvlCnt, iCtlState>>
      <4>1. CASE OcmNext
        <5>1. UNCHANGED <<htiIn, icm>>
          BY <4>1, ZenonT(60) DEF OcmNext, OcmSelect, OcmRead, OcmRdWait, OcmWrite, OcmWrRsp
        <5> QED BY <5>1 DEF htiIn, icm
      <4>2. CASE IbkNext
        BY <4>2 DEF IbkNext, IbkSpecial, IbkData, IbkTake, IbkFetch64, IbkFetch8, Fetch, IbkRead, IbkWait,
                    IbkRdRsp, IbkPush, IDatPush, htiIn, icm
      <4>3. CASE ObkNext \/ ObkTimer
        BY <4>3 DEF ObkNext, ObkTimer, ObkIdleFlsh, ObkIdle, ObkClose, ObkPop, ObkWr8, ObkWr64, ObkWrite,
                    ObkFlsh, ObkFlshed, ObkSendData, ObkSendItem, ObkSend, ObkRest, icm
      <4>4. CASE MemNext
        BY <4>4 DEF MemNext, ObkWrRsp, MemSettle, ObkRdRsp, MemRest, htiIn, icm
      <4> QED BY <2>4, <4>1, <4>2, <4>3, <4>4
    <3> QED BY <3>1 DEF CtlCredit
  <2> QED BY <2>1, <2>2, <2>3, <2>4 DEF HifNext
<1>2. CASE HtiStep
  <2>1. CASE IhmPop
    <3>1. /\ iCtlQue # <<>> /\ iCtlQue' = Tail(iCtlQue) /\ ctlAvlCnt' = ctlAvlCnt + 1
          /\ iCtlState' = iCtlState
      BY <2>1 DEF IhmPop, HifRest, icm
    <3>2. IsQueue(iCtlQue') /\ Len(iCtlQue') = Len(iCtlQue) - 1 /\ Len(iCtlQue) \in Nat \ {0}
      BY <3>1, QueueTail DEF CtlCredit
    <3> QED BY <3>1, <3>2 DEF CtlCredit
  <2>2. CASE (HtiNext \/ ModNext) /\ ~IhmPop
    <3>1. UNCHANGED <<iCtlQue, ctlAvlCnt, iCtlState>>
      <4>1. CASE HtiNext
        BY <2>2, <4>1 DEF HtiNext, HtiCallNext, HtiRtnNext, CallIdleData, CallIdleCall, CallIdleHalt,
                CallArgs, CallCmd, CallData, RtnIdle, RtnCmd, RtnArg, RtnDone, RtnData,
                CallRest, RtnRest, HifRest, htiIn, icm
      <4>2. CASE ModNext
        BY <4>2 DEF ModNext, ModTakeCall, ModReturn, ModSend, ModSendMsg, ModRest, HifRest,
                hifVars, htiIn, icm
      <4> QED BY <2>2, <4>1, <4>2, SMTT(30)
    <3> QED BY <3>1 DEF CtlCredit
  <2> QED BY <1>2, <2>1, <2>2 DEF HtiStep
<1>3. CASE HostNext \/ UNCHANGED vars
  <2>1. UNCHANGED <<iCtlQue, ctlAvlCnt, iCtlState>>
    <3>1. CASE HostNext
      BY <3>1 DEF HostNext, HostData, HostSpecial, HostHalt, HostUser, HostRecv, HostGiveBack, HostBlk,
         HostMsg, htiIn, icm
    <3>2. CASE UNCHANGED vars
      BY <3>2 DEF vars, hifVars, htiIn, icm
    <3> QED BY <1>3, <3>1, <3>2, SMTT(30)
  <2> QED BY <2>1 DEF CtlCredit
<1> QED BY <1>1, <1>2, <1>3 DEF Next, Finished

(* Whatever the sizes, a user message has its credit. *)
THEOREM CtlInvariance == Spec => []CtlCredit
<1>1. Init => CtlCredit
  <2> SUFFICES ASSUME Init PROVE CtlCredit
    OBVIOUS
  <2>1. iCtlQue = <<>> /\ ctlAvlCnt = QueDepth /\ iCtlState = "READ" /\ QueDepth \in Nat
    BY PersAssumption DEF Init, HifInit, HifReset, PersAssumption
  <2>2. Len(iCtlQue) = 0
    BY <2>1
  <2> QED BY <2>1, <2>2 DEF CtlCredit, IsQueue
<1> QED BY <1>1, CtlKeeps, WrInvariance, EndInvariance, PTL DEF Spec

(* While the queue of items has not been pushed when it was full, an item has its credit. *)
THEOREM DatInvariance == Spec => []DatCredit
<1>1. Init => DatCredit
  BY InitDat
<1>2. HaltInv /\ OutEnds /\ DatCredit /\ [Next]_vars => DatCredit'
  <2> SUFFICES ASSUME HaltInv, OutEnds, DatCredit, [Next]_vars PROVE DatCredit'
    OBVIOUS
  <2>1. CASE DatQueFits /\ HifStep
    BY <2>1, HifKeepsDat DEF HifStep, Alone
  <2>2. CASE DatQueFits /\ HtiStep
    BY <2>2, HtiKeepsDat
  <2>3. CASE DatQueFits /\ HostNext
    BY <2>3, HostKeepsDat
  <2>4. CASE UNCHANGED vars
    BY <2>4, DatStays DEF vars, hifVars, htiIn
  <2> QED BY <2>1, <2>2, <2>3, <2>4 DEF Next, Finished
<1> QED BY <1>1, <1>2, HaltInvariance, EndInvariance, PTL DEF Spec

(* No queue for HTI, and not the queue of announced blocks, is pushed when it is full (the ht_assert
   of ht_dist_que), unless the host sends three blocks without data one after the other: CPersHif
   pushes these with no look at the credit. *)
THEOREM QueuesFitCorrect == Spec => []QueuesFit
<1>1. BlkInv /\ LastToHti /\ InFlow /\ CtlCredit /\ DatCredit => QueuesFit
  <2> SUFFICES ASSUME BlkInv, LastToHti, InFlow, CtlCredit, DatCredit PROVE QueuesFit
    OBVIOUS
  <2>0. QueDepth \in Nat
    BY PersAssumption DEF PersAssumption
  <2>1. Len(iCtlQue) <= QueDepth
    <3>1. Len(iCtlQue) \in Nat
      BY QueueAppend DEF CtlCredit
    <3> QED BY <2>0, <3>1 DEF CtlCredit
  <2>2. ASSUME ~DatQueFits PROVE ThreeInARow
    <3>1. PICK a, d, z \in Nat : a = Len(inRcvd) /\ d = QueDepth /\ z = Len(inSent) /\ d \in 4..63
      <4>1. Len(inRcvd) \in Nat /\ Len(inSent) \in Nat
        BY FlowLens DEF InFlow
      <4>2. QueDepth \in 4..63
        BY PersAssumption DEF PersAssumption
      <4> QED BY <2>0, <4>1, <4>2
    <3>2. Len(iDatQue) = d + 1
      <4>1. Len(iDatQue) \in Nat
        BY QueueAppend DEF LastToHti
      <4> QED BY <2>2, <3>1, <4>1 DEF DatCredit, DatQueFits
    <3>3. a + (d + 1) <= z /\ \A k \in 1..d+1 : iDatQue[k] = inSent[a + k]
      BY <3>1, <3>2 DEF InFlow, Delivered, Handed
    <3>4. \A k \in d-1..d+1 : iDatQue[k].ctl # "DATA"
      BY <3>1, <3>2 DEF DatCredit
    <3>5. a + (d - 1) \in 1..z-2
      BY <3>1, <3>3
    <3>6. ASSUME NEW j \in a+(d-1)..a+(d-1)+2 PROVE inSent[j].ctl # "DATA"
      <4>1. PICK k \in d-1..d+1 : j = a + k
        <5>1. j - a \in d-1..d+1 /\ j = a + (j - a)
          BY <3>1
        <5> QED BY <5>1
      <4>2. k \in 1..d+1
        BY <3>1
      <4> QED BY <3>3, <3>4, <4>1, <4>2
    <3> QED BY <3>1, <3>5, <3>6 DEF ThreeInARow
  <2>3. Len(iBlkRdyQue) <= IBlkCnt
    <3>1. /\ hInAvl \in Nat /\ Len(iBlkRdyQue) \in Nat /\ NotTaken("rdy") \in Nat
          /\ OnTheWay("avl") \in Nat /\ InHeld \in Nat /\ InBack \in Nat /\ IBlkCnt \in Nat
      BY SumTypes, PersAssumption DEF BlkInv
    <3>2. hInAvl + NotTaken("rdy") + Len(iBlkRdyQue) + InHeld + InBack + OnTheWay("avl") <= IBlkCnt
      BY DEF BlkInv, Sums, InSum
    <3> QED BY <3>1, <3>2
  <2> QED BY <2>1, <2>2, <2>3 DEF QueuesFit
<1>2. HaltInv => LastToHti
  BY DEF HaltInv
<1> QED BY <1>1, <1>2, BlkInvariance, HaltInvariance, FlowInvariance, CtlInvariance, DatInvariance, PTL

----------------------------------------------------------------------------
\* The values of the registers.  A block that is filled has room for the word,
\* or the line, that is written next.
Room ==
  /\ oBlkWrCnt \in Nat /\ oBlkWrCnt <= BlkQw
  /\ oBlkState = "IDLE" => oBlkWrCnt = 0
  /\ oBlkState \in {"POP", "WR8"} => oBlkWrCnt < BlkQw
  /\ oBlkState = "WR64" => oBlkWrCnt + LineQw <= BlkQw

\* Only a block that is read has words to be read.
ReadOnly == iBlkState # "READ" => iBlkRdCnt = 0

\* The rings are functions, the machines of HTI in one of their states.
Machines ==
  /\ ctlIn = [s \in DOMAIN ctlIn |-> ctlIn[s]] /\ ctlOut = [s \in DOMAIN ctlOut |-> ctlOut[s]]
  /\ callState \in {"IDLE", "ARGS", "CMD", "DATA"} /\ rtnState \in {"IDLE", "CMD", "ARGS", "DATA"}

\* HTI's credit is not more than the queue has entries, and stays what it is
\* when the unit has stopped.
Stopped ==
  /\ htiAvlCnt <= QueDepth
  /\ ~busy => HasHalt(outSent) /\ oBlkQue = <<>>

(* A block in memory: the words written, and what a step of OBK makes of it. *)
LEMMA RoomStays ==
  ASSUME Room, [Next]_vars
  PROVE  Room'
<1>0. BlkQw \in Nat /\ BlkQw > 0 /\ LineQw \in Nat /\ LineQw > 0
  BY PersAssumption DEF PersAssumption
<1>1. CASE HifStep
  <2>1. CASE UNCHANGED <<oBlkState, oBlkWrCnt>>
    BY <2>1 DEF Room
  <2>2. CASE ObkIdle
    BY <1>0, <2>2 DEF ObkIdle, Room
  <2>3. CASE ObkClose
    BY <1>0, <2>3 DEF ObkClose, Room, oWr
  <2>4. CASE ObkPop
    <3>1. oBlkState = "POP" /\ oBlkWrCnt' = oBlkWrCnt /\ oBlkWrCnt \in Nat /\ oBlkWrCnt < BlkQw
      BY <2>4 DEF ObkPop, Room, oWr
    <3>2. oBlkState' \in {"POP", "WR8"} \/ (oBlkState' = "WR64" /\ oBlkWrCnt <= BlkQw - LineQw)
      BY <2>4 DEF ObkPop, LineFits
    <3> QED BY <1>0, <3>1, <3>2 DEF Room
  <2>5. CASE ObkWr8
    <3>1. oBlkState = "WR8" /\ oBlkWrCnt' = oBlkWrCnt + 1 /\ oBlkWrCnt \in Nat /\ oBlkWrCnt < BlkQw
      BY <2>5 DEF ObkWr8, ObkWrite, Room
    <3>2. /\ oBlkState' \in {"FLSH", "WR8", "POP"}
          /\ oBlkWrCnt = BlkQw - 1 => oBlkState' = "FLSH"
      BY <2>5 DEF ObkWr8
    <3> QED BY <1>0, <3>1, <3>2 DEF Room
  <2>6. CASE ObkWr64
    <3>1. /\ oBlkState = "WR64" /\ oBlkWrCnt' = oBlkWrCnt + LineQw
          /\ oBlkWrCnt \in Nat /\ oBlkWrCnt + LineQw <= BlkQw
      BY <2>6 DEF ObkWr64, ObkWrite, Room
    <3>2. /\ oBlkState' \in {"FLSH", "POP"}
          /\ oBlkWrCnt + LineQw = BlkQw => oBlkState' = "FLSH"
      BY <2>6 DEF ObkWr64
    <3> QED BY <1>0, <3>1, <3>2 DEF Room
  <2>7. CASE ObkFlshed
    BY <1>0, <2>7 DEF ObkFlshed, Room, oWr
  <2>8. CASE ObkSendData \/ ObkSendItem
    BY <1>0, <2>8 DEF ObkSendData, ObkSendItem, ObkSend, Room
  <2>9. CASE Idle
    <3>1. oBlkState' = "IDLE" /\ oBlkWrCnt' = 0
      BY <2>9, ZenonT(60) DEF Idle
    <3> QED BY <1>0, <3>1 DEF Room
  <2>10. CASE IcmNext \/ OcmNext \/ IbkNext
    BY <2>1, <2>10 DEF IcmNext, OcmNext, IbkNext, IcmRead, IcmEmpty, IcmUser, IcmRdy, IcmAvl, IcmTake,
       IcmWrite, IcmWrRsp, OcmSelect, OcmRead, OcmRdWait, OcmWrite, OcmWrRsp, IbkSpecial, IbkData, IbkTake,
       IbkFetch64, IbkFetch8, Fetch, IbkRead, IbkWait, IbkRdRsp, IbkPush, obk, oWr
  <2>11. CASE ObkIdleFlsh \/ ObkFlsh \/ ObkTimer \/ MemNext
    BY <2>1, <2>11 DEF ObkIdleFlsh, ObkFlsh, ObkTimer, MemNext, ObkWrRsp, MemSettle, ObkRdRsp, MemRest, oWr
  <2> QED BY <1>1, <2>2, <2>3, <2>4, <2>5, <2>6, <2>7, <2>8, <2>9, <2>10, <2>11
          DEF HifStep, Alone, HifNext, ObkNext
<1>2. ASSUME UNCHANGED <<oBlkState, oBlkWrCnt>>
      PROVE  Room'
  BY <1>2 DEF Room
<1>3. CASE HtiStep
  <2>1. UNCHANGED <<oBlkState, oWr>>
    BY <1>3, SMTT(30) DEF HtiStep, HtiNext, HtiCallNext, HtiRtnNext, ModNext, CallIdleData,
       CallIdleCall, CallIdleHalt,
       CallArgs, CallCmd, CallData, IhmPop, RtnIdle, RtnCmd, RtnArg, RtnDone, RtnData, ModTakeCall, ModReturn,
       ModSend, ModSendMsg, CallRest, RtnRest, ModRest, HifRest, hifVars, obk
  <2> QED BY <1>2, <2>1 DEF oWr
<1>4. CASE HostNext
  BY <1>2, <1>4 DEF HostNext, HostData, HostSpecial, HostHalt, HostUser, HostRecv, HostGiveBack, HostBlk,
     HostMsg, obk, oWr
<1>5. CASE UNCHANGED vars
  BY <1>2, <1>5 DEF vars, hifVars, obk, oWr
<1> QED BY <1>1, <1>3, <1>4, <1>5 DEF Next, Finished

(* IBK sets the number with the state, and leaves the state when the number is 0. *)
LEMMA ReadOnlyStays ==
  ASSUME ReadOnly, [Next]_vars
  PROVE  ReadOnly'
<1>1. CASE HifStep
  <2>1. CASE UNCHANGED <<iBlkState, iBlkRdCnt>>
    BY <2>1 DEF ReadOnly
  <2>2. CASE IbkFetch64 \/ IbkFetch8
    BY <2>2 DEF IbkFetch64, IbkFetch8, CanFetch, Fetch, ReadOnly
  <2>3. CASE IbkData \/ IbkRead \/ IbkWait
    BY <2>3 DEF IbkData, IbkRead, IbkWait, ReadOnly
  <2>7. CASE Idle
    BY <2>7 DEF Idle, ReadOnly
  <2>4. CASE IcmNext \/ OcmNext
    BY <2>1, <2>4, SMTT(30) DEF IcmNext, OcmNext, IcmRead, IcmEmpty, IcmUser, IcmRdy, IcmAvl, IcmTake,
       IcmWrite, IcmWrRsp, OcmSelect, OcmRead, OcmRdWait, OcmWrite, OcmWrRsp, ibk, iRd
  <2>5. CASE IbkSpecial \/ IbkRdRsp \/ IbkPush
    BY <2>1, <2>5 DEF IbkSpecial, IbkRdRsp, IbkPush, iRd
  <2>6. CASE ObkNext \/ ObkTimer \/ MemNext
    BY <2>1, <2>6 DEF ObkNext, ObkIdleFlsh, ObkIdle, ObkClose, ObkPop, ObkWr8, ObkWr64, ObkWrite, ObkFlsh,
       ObkFlshed, ObkSendData, ObkSendItem, ObkSend, ObkTimer, ObkRest, MemNext, ObkWrRsp, MemSettle, ObkRdRsp,
       MemRest, ibk, iRd
  <2> QED BY <1>1, <2>2, <2>3, <2>4, <2>5, <2>6, <2>7 DEF HifStep, Alone, HifNext, IbkNext
<1>2. ASSUME UNCHANGED <<iBlkState, iBlkRdCnt>>
      PROVE  ReadOnly'
  BY <1>2 DEF ReadOnly
<1>3. CASE HtiStep
  <2>1. UNCHANGED ibk
    BY <1>3 DEF HtiStep, HtiNext, HtiCallNext, HtiRtnNext, ModNext, CallIdleData, CallIdleCall, CallIdleHalt,
       CallArgs, CallCmd, CallData, IhmPop, RtnIdle, RtnCmd, RtnArg, RtnDone, RtnData, ModTakeCall, ModReturn,
       ModSend, ModSendMsg, CallRest, RtnRest, ModRest, HifRest, hifVars
  <2> QED BY <1>2, <2>1 DEF ibk, iRd
<1>4. CASE HostNext
  BY <1>2, <1>4 DEF HostNext, HostData, HostSpecial, HostHalt, HostUser, HostRecv, HostGiveBack, HostBlk,
     HostMsg, ibk, iRd
<1>5. CASE UNCHANGED vars
  BY <1>2, <1>5 DEF vars, hifVars, ibk, iRd
<1> QED BY <1>1, <1>3, <1>4, <1>5 DEF Next, Finished

(* Who writes a slot of a ring writes one of its slots; HTI goes from state to state. *)
LEMMA MachinesStay ==
  ASSUME Machines, [Next]_vars
  PROVE  Machines'
<1>1. ctlIn' = [s \in DOMAIN ctlIn' |-> ctlIn'[s]] /\ ctlOut' = [s \in DOMAIN ctlOut' |-> ctlOut'[s]]
  <2>1. /\ ctlIn' = ctlIn \/ \E s, m : ctlIn' = [ctlIn EXCEPT ![s] = m]
        /\ ctlOut' = ctlOut \/ \E s, m : ctlOut' = [ctlOut EXCEPT ![s] = m]
    <3>1. CASE HifStep
      <4>1. CASE IcmNext
        <5>1. ctlOut' = ctlOut /\ (ctlIn' = ctlIn \/ IcmWrRsp)
          BY <4>1 DEF IcmNext, IcmRead, IcmEmpty, IcmUser, IcmRdy, IcmAvl, IcmTake, IcmWrite, IcmWrRsp, mem
        <5> QED BY <5>1 DEF IcmWrRsp
      <4>2. CASE OcmNext
        <5>1. ctlIn' = ctlIn /\ (ctlOut' = ctlOut \/ OcmWrRsp)
          <6>1. UNCHANGED mem \/ OcmWrRsp
            BY <4>2, ZenonT(60) DEF OcmNext, OcmSelect, OcmRead, OcmRdWait, OcmWrite
          <6> QED BY <6>1 DEF mem, OcmWrRsp
        <5> QED BY <5>1 DEF OcmWrRsp
      <4>3. CASE IbkNext
        BY <4>3 DEF IbkNext, IbkSpecial, IbkData, IbkTake, IbkFetch64, IbkFetch8, Fetch, IbkRead, IbkWait,
                    IbkRdRsp, IbkPush, mem
      <4>4. CASE ObkNext \/ ObkTimer
        BY <4>4 DEF ObkNext, ObkIdleFlsh, ObkIdle, ObkClose, ObkPop, ObkWr8, ObkWr64, ObkWrite, ObkFlsh,
                    ObkFlshed, ObkSendData, ObkSendItem, ObkSend, ObkTimer, ObkRest, mem
      <4>5. CASE MemNext
        BY <4>5 DEF MemNext, ObkWrRsp, MemSettle, ObkRdRsp, MemRest
      <4>6. CASE Idle
        BY <4>6 DEF Idle, mem
      <4> QED BY <3>1, <4>1, <4>2, <4>3, <4>4, <4>5, <4>6 DEF HifStep, Alone, HifNext
    <3>2. CASE HtiStep
      <4>1. UNCHANGED mem
        BY <3>2 DEF HtiStep, HtiNext, HtiCallNext, HtiRtnNext, ModNext, CallIdleData, CallIdleCall,
           CallIdleHalt, CallArgs, CallCmd, CallData, IhmPop, RtnIdle, RtnCmd, RtnArg, RtnDone, RtnData,
           ModTakeCall, ModReturn, ModSend, ModSendMsg, CallRest, RtnRest, ModRest, HifRest, hifVars
      <4> QED BY <4>1 DEF mem
    <3>3. CASE HostNext
      <4>1. (ctlOut' = ctlOut /\ \E m : HostMsg(m)) \/ HostRecv
        BY <3>3 DEF HostNext, HostData, HostSpecial, HostHalt, HostUser, HostGiveBack, HostBlk, HostMsg
      <4> QED BY <4>1 DEF HostMsg, HostRecv
    <3>4. CASE UNCHANGED vars
      BY <3>4 DEF vars, hifVars, mem
    <3> QED BY <3>1, <3>2, <3>3, <3>4 DEF Next, Finished
  <2> QED BY <2>1 DEF Machines
<1>2. /\ callState' \in {"IDLE", "ARGS", "CMD", "DATA"}
      /\ rtnState' \in {"IDLE", "CMD", "ARGS", "DATA"}
  <2>1. CASE HifStep \/ HostNext \/ UNCHANGED vars
    <3>1. UNCHANGED htiVars
      BY <2>1 DEF HifStep, Alone, HostNext, HostData, HostSpecial, HostHalt, HostUser, HostRecv, HostGiveBack,
         HostBlk, HostMsg, vars
    <3> QED BY <3>1 DEF htiVars, call, rtn, Machines
  <2>2. CASE HtiStep
    BY <2>2 DEF HtiStep, HtiNext, HtiCallNext, HtiRtnNext, ModNext, CallIdleData, CallIdleCall, CallIdleHalt,
       CallArgs, CallCmd, CallData, IhmPop, RtnIdle, RtnCmd, RtnArg, RtnDone, RtnData, ModTakeCall, ModReturn,
       ModSend, ModSendMsg, CallRest, RtnRest, ModRest, call, rtn, Machines
  <2> QED BY <2>1, <2>2 DEF Next, Finished
<1> QED BY <1>1, <1>2 DEF Machines

(* A unit that has stopped has sent the halt: HTI, the modules and OBK do nothing any more. *)
LEMMA StoppedStays ==
  ASSUME OutInv, OutInv', Rested, BlkInv, Calls, OutEnds, Stopped, [Next]_vars
  PROVE  Stopped'
<1>0. busy \in BOOLEAN
  BY DEF BlkInv, BlkTypes
<1>1. CASE busy'
  <2>1. /\ Len(oBlkQue') + Len(oBlkWrDat') + htiAvlCnt' = QueDepth
        /\ Len(oBlkQue') \in Nat /\ Len(oBlkWrDat') \in Nat /\ htiAvlCnt' \in Nat
    <3>1. oBlkQue' \in Seq(Items) /\ oBlkWrDat' \in Seq(Nat) /\ htiAvlCnt' \in Nat
      BY DEF OutInv, OutTypes
    <3> QED BY <1>1, <3>1 DEF OutInv, OutCredit
  <2>2. QueDepth \in Nat
    BY PersAssumption DEF PersAssumption
  <2> QED BY <1>1, <2>1, <2>2 DEF Stopped
<1>2. ASSUME UNCHANGED <<htiAvlCnt, outSent, oBlkQue>>, ~busy
      PROVE  Stopped'
  BY <1>2 DEF Stopped, HasHalt
<1>3. CASE HifStep /\ ~busy'
  <2>1. HifNext /\ UNCHANGED outSent
    BY <1>3 DEF HifStep, Alone, htiVars, htiLog
  <2>2. CASE Idle
    <3>1. htiToHif_datHalt /\ oBlkQue' = <<>> /\ htiAvlCnt' = htiAvlCnt
      BY <2>2 DEF Idle, IdleNow
    <3> QED BY <2>1, <3>1 DEF Stopped, HasHalt, OutEnds
  <2>3. CASE IcmNext \/ OcmNext \/ IbkNext
    <3>1. UNCHANGED <<oQue, busy>>
      <4>1. CASE IcmNext
        BY <4>1 DEF IcmNext, IcmRead, IcmEmpty, IcmUser, IcmRdy, IcmAvl, IcmTake, IcmWrite, IcmWrRsp, obk
      <4>2. CASE OcmNext
        <5>1. UNCHANGED <<obk, busy>>
          BY <4>2, ZenonT(60) DEF OcmNext, OcmSelect, OcmRead, OcmRdWait, OcmWrite, OcmWrRsp
        <5> QED BY <5>1 DEF obk
      <4>3. CASE IbkNext
        BY <4>3 DEF IbkNext, IbkSpecial, IbkData, IbkTake, IbkFetch64, IbkFetch8, Fetch, IbkRead, IbkWait,
                    IbkRdRsp, IbkPush, obk
      <4> QED BY <2>3, <4>1, <4>2, <4>3
    <3> QED BY <1>2, <1>3, <2>1, <3>1 DEF oQue
  <2>4. CASE ObkNext \/ ObkTimer \/ MemNext
    <3>1. busy' = busy
      BY <2>4 DEF ObkNext, ObkIdleFlsh, ObkIdle, ObkClose, ObkPop, ObkWr8, ObkWr64, ObkWrite, ObkFlsh, ObkFlshed,
         ObkSendData, ObkSendItem, ObkSend, ObkTimer, ObkRest, MemNext, ObkWrRsp, MemSettle, ObkRdRsp, MemRest
    <3>2. oBlkState = "IDLE" /\ oBlkAvlCnt = 0 /\ oBlkQue = <<>>
      BY <1>3, <3>1 DEF Rested, Stopped
    <3>3. UNCHANGED oQue
      BY <2>4, <3>2 DEF ObkNext, ObkIdleFlsh, ObkIdle, ObkClose, ObkPop, ObkWr8, ObkWr64, ObkFlsh, ObkFlshed,
         ObkSendData, ObkSendItem, ObkSend, ObkTimer, MemNext, ObkWrRsp, MemSettle, ObkRdRsp, MemRest
    <3> QED BY <1>2, <1>3, <2>1, <3>1, <3>3 DEF oQue
  <2> QED BY <2>1, <2>2, <2>3, <2>4 DEF HifNext
<1>4. CASE HtiStep /\ ~busy'
  <2>1. HtiNext \/ ModNext
    BY <1>4 DEF HtiStep
  <2>2. busy' = busy
    BY <2>1 DEF HtiNext, HtiCallNext, HtiRtnNext, ModNext, CallIdleData, CallIdleCall, CallIdleHalt,
       CallArgs, CallCmd, CallData, IhmPop, RtnIdle, RtnCmd, RtnArg, RtnDone, RtnData, ModTakeCall, ModReturn,
       ModSend, ModSendMsg, CallRest, RtnRest, ModRest, HifRest, hifVars
  <2> QED BY <1>4, <2>1, <2>2, NoHtiStep DEF Stopped
<1>5. CASE (HostNext \/ UNCHANGED vars) /\ ~busy'
  <2>1. UNCHANGED <<busy, obk, htiVars>>
    BY <1>5 DEF HostNext, HostData, HostSpecial, HostHalt, HostUser, HostRecv, HostGiveBack, HostBlk, HostMsg,
       vars, hifVars
  <2> QED BY <1>2, <1>5, <2>1 DEF obk, oQue, htiVars, htiLog
<1> QED BY <1>1, <1>3, <1>4, <1>5 DEF Next, Finished

(* Whatever the sizes, a register keeps to the states and numbers its machine has for it. *)
THEOREM RegInvariance == Spec => [](Room /\ ReadOnly /\ Machines /\ Stopped)
<1>1. Init => Room /\ ReadOnly /\ Machines /\ Stopped
  <2> SUFFICES ASSUME Init PROVE Room /\ ReadOnly /\ Machines /\ Stopped
    OBVIOUS
  <2>1. Room /\ ReadOnly
    BY PersAssumption DEF Init, HifInit, HifReset, Room, ReadOnly, PersAssumption
  <2>2. Machines
    BY DEF Init, HifInit, HtiInit, Machines
  <2>3. Stopped
    <3>1. QueDepth \in Nat
      BY PersAssumption DEF PersAssumption
    <3> QED BY <3>1 DEF Init, HifInit, Stopped
  <2> QED BY <2>1, <2>2, <2>3
<1>2. /\ OutInv /\ OutInv' /\ Rested /\ BlkInv /\ Calls /\ OutEnds
      /\ Room /\ ReadOnly /\ Machines /\ Stopped /\ [Next]_vars
      => Room' /\ ReadOnly' /\ Machines' /\ Stopped'
  BY RoomStays, ReadOnlyStays, MachinesStay, StoppedStays
<1> QED BY <1>1, <1>2, OutInvariance, WrInvariance, BlkInvariance, EndInvariance, PTL DEF Spec

(* Of the words requested for a buffer there are not more than a line has. *)
LEMMA FetchFits ==
  ASSUME HaltInv, BlkInv, InFlow
  PROVE  \A i \in DOMAIN fetch : fetch[i].val \in 0..LineQw /\ Cardinality(fetch[i].pend) <= LineQw
<1>0. LineQw \in Nat
  BY PersAssumption DEF PersAssumption
<1>1. CASE iBlkState = "IDLE"
  <2>1. \A i \in DOMAIN fetch : fetch[i].pend = {} /\ fetch[i].val = 0
    BY <1>1 DEF HaltInv, Lines
  <2> QED BY <1>0, <2>1, FS_EmptySet
<1>2. CASE iBlkState # "IDLE"
  <2>1. busy
    BY <1>2 DEF HaltInv, NothingToCome, InOver
  <2>2. PICK X \in Nat : InBlock(X)
    BY <2>1 DEF InFlow
  <2>3. FetchTypes /\ \E beg \in [Bufs -> Nat] : Contents(beg)
    BY <1>2, <2>2 DEF InBlock, Fetching
  <2>4. PICK beg \in [Bufs -> Nat] : Contents(beg)
    BY <2>3
  <2>5. SUFFICES ASSUME NEW i \in Bufs
                 PROVE  fetch[i].val \in 0..LineQw /\ Cardinality(fetch[i].pend) <= LineQw
    BY <2>3 DEF FetchTypes
  <2>6. fetch[i].val \in 0..LineQw
    BY <1>0, <2>3, <2>4, <2>5 DEF FetchTypes, Contents
  <2>7. Cardinality(fetch[i].pend) <= LineQw
    <3> DEFINE ws == beg[i]..beg[i] + LineQw - 1
               b == iBlkRdAdr[1]
               at == [q \in ws |-> <<b, q>>]
    <3>1. PICK f \in Nat : f = beg[i]
      BY <2>4, <2>5
    <3>2. IsFiniteSet(ws) /\ Cardinality(ws) = LineQw
      <4>1. PICK t \in Int : t = f + LineQw - 1 /\ (IF f > t THEN 0 ELSE t - f + 1) = LineQw
        BY <1>0, <3>1
      <4>2. f \in Int
        BY <3>1
      <4>3. IsFiniteSet(f..t) /\ Cardinality(f..t) = IF f > t THEN 0 ELSE t - f + 1
        BY <4>1, <4>2, FS_Interval
      <4> QED BY <3>1, <4>1, <4>3
    <3>3. fetch[i].pend \subseteq {at[q] : q \in ws}
      <4> SUFFICES ASSUME NEW a \in fetch[i].pend PROVE a \in {at[q] : q \in ws}
        OBVIOUS
      <4>1. a = <<a[1], a[2]>> /\ a[1] = b /\ a[2] \in ws
        BY <2>3, <2>4, <2>5, SMTT(30) DEF FetchTypes, Contents
      <4> QED BY <4>1
    <3>4. IsFiniteSet({at[q] : q \in ws}) /\ Cardinality({at[q] : q \in ws}) <= LineQw
      <4>1. at \in [ws -> {at[q] : q \in ws}]
        OBVIOUS
      <4>2. \A y \in {at[q] : q \in ws} : \E q \in ws : at[q] = y
        OBVIOUS
      <4>3. at \in Surjection(ws, {at[q] : q \in ws})
        BY <4>1, <4>2, ZenonT(60) DEF Surjection
      <4> HIDE DEF at, ws
      <4> QED BY <3>2, <4>3, FS_Surjection
    <3> HIDE DEF at, ws
    <3>5. IsFiniteSet(fetch[i].pend) /\ Cardinality(fetch[i].pend) <= Cardinality({at[q] : q \in ws})
      BY <3>3, <3>4, FS_Subset
    <3>6. Cardinality(fetch[i].pend) \in Nat /\ Cardinality({at[q] : q \in ws}) \in Nat
      BY <3>4, <3>5, FS_CardinalityType
    <3> QED BY <1>0, <3>4, <3>5, <3>6
  <2> QED BY <2>6, <2>7
<1> QED BY <1>1, <1>2

(* Every register and queue of CPersHif and CPersHti keeps to its values; the credit for items is
   below zero, in six bits, only when the queue has been pushed when it was full. *)
THEOREM TypeCorrect == Spec => []TypeOK
<1>1. /\ OutInv /\ BlkInv /\ WrInv /\ HaltInv /\ Calls /\ InFlow /\ CtlCredit /\ DatCredit
      /\ Room /\ ReadOnly /\ Machines /\ Stopped
      => TypeOK
  <2> SUFFICES ASSUME OutInv, BlkInv, WrInv, HaltInv, Calls, InFlow, CtlCredit, DatCredit,
                      Room, ReadOnly, Machines, Stopped
               PROVE  TypeOK
    OBVIOUS
  <2>0. /\ QueDepth \in Nat /\ LineQw \in Nat /\ BlkQw \in Nat /\ IBlkCnt \in Nat /\ OBlkCnt \in Nat
    BY PersAssumption DEF PersAssumption
  <2>1. ctlIn \in [0..CtlQueSize-1 -> Msgs] /\ ctlOut \in [0..CtlQueSize-1 -> Msgs]
    BY DEF BlkInv, InRing, OutRing, IsMsg, Slots, Machines
  <2>2. /\ iCtlState \in CtlStates /\ iCtlRdIdx \in 0..CtlQueSize-1
        /\ oCtlState \in CtlStates /\ oCtlWrIdx \in 0..CtlQueSize-1
        /\ oCtlWrMsg \in Msgs
    BY DEF BlkInv, InRing, OutRing, IsMsg, Slots
  <2>3. htiToHif_ctl \in Msgs
    BY DEF BlkInv, OutRing, NoMsg, UserMsg, Msg, Msgs, Ctl
  <2>4. ctlAvlCnt \in 0..QueDepth
    <3>1. Len(iCtlQue) \in Nat
      BY QueueAppend DEF CtlCredit
    <3> QED BY <2>0, <3>1 DEF CtlCredit
  <2>5. datAvlCnt \in IF DatQueFits THEN 0..QueDepth ELSE {63}
    <3>1. Len(iDatQue) \in Nat
      BY QueueAppend DEF HaltInv, LastToHti
    <3> QED BY <2>0, <3>1 DEF DatCredit, DatQueFits
  <2>6. htiAvlCnt \in 0..QueDepth
    BY <2>0 DEF OutInv, OutTypes, Stopped
  <2>7. iBlkState \in {"IDLE", "READ", "WAIT"}
    BY DEF BlkInv, BlkTypes
  <2>8. iBlkRdCnt \in 0..BlkQw
    <3>1. CASE iBlkState # "READ"
      BY <2>0, <3>1 DEF ReadOnly
    <3>2. CASE iBlkState = "READ"
      <4>1. busy
        BY <3>2 DEF HaltInv, NothingToCome, InOver
      <4>2. \E n \in 1..BlkQw : ToRead(n)
        BY <3>2, <4>1 DEF InFlow, InBlock, Fetching
      <4>3. PICK n \in 1..BlkQw : ToRead(n)
        BY <4>2
      <4>4. /\ iBlkRdCnt \in Nat /\ iBlkRdAdr[2] \in Nat
            /\ iBlkRdCnt # 0 => iBlkRdAdr[2] + iBlkRdCnt = n
        BY <4>3 DEF ToRead
      <4> QED BY <2>0, <4>3, <4>4
    <3> QED BY <3>1, <3>2
  <2>9. iBlkRdIdx \in 0..IBlkCnt-1 /\ oBlkWrIdx \in 0..OBlkCnt-1
    BY DEF InFlow, FlowTypes, WrInv, WrTypes
  <2>10. \A i \in DOMAIN fetch : fetch[i].val \in 0..LineQw /\ Cardinality(fetch[i].pend) <= LineQw
    BY FetchFits
  <2>11. /\ oBlkState \in {"IDLE", "POP", "WR8", "WR64", "FLSH", "SEND"}
         /\ oBlkWrCnt \in 0..BlkQw /\ Len(oBlkWrDat) <= LineQw
    BY <2>0 DEF OutInv, OutTypes, Gathered, Room
  <2>12. oBlkAvlCnt \in 0..OBlkCnt /\ hOwe \in 0..OBlkCnt
    <3>1. /\ oBlkAvlCnt \in Nat /\ hOwe \in Nat /\ NotTaken("avl") \in Nat
          /\ OnTheWay("rdy") \in Nat /\ OutHeld \in Nat /\ OutDone \in Nat
      BY SumTypes, PersAssumption DEF BlkInv
    <3>2. oBlkAvlCnt + OutHeld + OutDone + OnTheWay("rdy") + hOwe + NotTaken("avl") <= OBlkCnt
      BY DEF BlkInv, Sums, OutSum
    <3> QED BY <2>0, <3>1, <3>2
  <2>13. hInAvl \in 0..IBlkCnt
    <3>1. /\ hInAvl \in Nat /\ Len(iBlkRdyQue) \in Nat /\ NotTaken("rdy") \in Nat
          /\ OnTheWay("avl") \in Nat /\ InHeld \in Nat /\ InBack \in Nat
      BY SumTypes, PersAssumption DEF BlkInv
    <3>2. hInAvl + NotTaken("rdy") + Len(iBlkRdyQue) + InHeld + InBack + OnTheWay("avl") <= IBlkCnt
      BY DEF BlkInv, Sums, InSum
    <3> QED BY <2>0, <3>1, <3>2
  <2>14. callActiveCnt \in Nat
    <3>1. /\ threads \in Nat /\ oCmdCnt \in Nat /\ callAvlCnt \in 0..1
          /\ callActiveCnt = (1 - callAvlCnt) + threads + oCmdCnt
      BY DEF Calls
    <3> QED BY <3>1
  <2>15. callState \in {"IDLE", "ARGS", "CMD", "DATA"} /\ rtnState \in {"IDLE", "CMD", "ARGS", "DATA"}
    BY DEF Machines
  <2> QED BY <2>1, <2>2, <2>3, <2>4, <2>5, <2>6, <2>7, <2>8, <2>9, <2>10, <2>11, <2>12, <2>13, <2>14, <2>15
          DEF TypeOK
<1> QED BY <1>1, OutInvariance, BlkInvariance, WrInvariance, HaltInvariance, EndInvariance, FlowInvariance,
           CtlInvariance, DatInvariance, RegInvariance, PTL
=============================================================================
