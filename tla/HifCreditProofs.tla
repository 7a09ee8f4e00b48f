--------------------------- MODULE HifCreditProofs ---------------------------
(***************************************************************************)
(* The link for every size of queue and block: its types, its lock         *)
(* discipline, the credit that a flush finds; then credit and the order of *)
(* messages: no block is lost or in two places, the receive path finds     *)
(* what it asserts, and a control queue large enough never fills.          *)
(***************************************************************************)
EXTENDS HifLink, HtHifUnitProofs, HtModelUnitProofs, FunctionTheorems, FiniteSetTheorems

----------------------------------------------------------------------------
\* The inductive invariant: what each side keeps in its own steps.  The other
\* side's steps touch none of it but the tail of the control queue read.
IInv == SharedTypeOK /\ HostInv /\ ModelInv

\* The inductive invariant holds in the queues and units as the constructors
\* leave them.
LEMMA InitIInv == Init => IInv
<1> SUFFICES ASSUME Init PROVE IInv
  OBVIOUS
<1>1. SharedTypeOK
  <2> DEFINE avls == [i \in 1..OutBlkCnt |-> AvlMsg]
  <2>1. avls \in Seq(CtrlMsg) /\ <<ParamMsg>> \in Seq(CtrlMsg)
    BY ParamAssumption, MsgType DEF ParamAssumption
  <2>2. ctlIn = <<ParamMsg>> \o avls /\ ctlOut = <<>> /\ inSent = <<>> /\ outSent = <<>>
    BY DEF Init, SharedInit
  <2> HIDE DEF avls
  <2>4. ctlIn \in Seq(CtrlMsg)
    BY <2>1, <2>2, ConcatProperties
  <2>3. inBlk \in [0..InBlkCnt-1 -> InWords] /\ outBlk \in [0..OutBlkCnt-1 -> OutWords]
    BY DEF Init, SharedInit, InWords, OutWords
  <2> QED BY <2>2, <2>3, <2>4 DEF SharedTypeOK
<1>2. HostInv
  <2>1. HostTypeOK
    BY ParamAssumption DEF Init, HostInit, HostTypeOK, HPc, ParamAssumption
  <2>2. HostControl
    <3>1. hPc = "idle" /\ inLock = "free" /\ inPend = <<>>
      BY DEF Init, HostInit
    <3> QED BY <3>1 DEF HostControl
  <2> QED BY <2>1, <2>2 DEF Init, HostInit, HostInv
<1>3. ModelInv
  <2>1. ModelTypeOK
    <3>1. mReady \in BOOLEAN /\ mHaltSeen \in BOOLEAN
      BY DEF Init, ModelInit
    <3>2. /\ mPhase = "run" /\ mPc = "idle" /\ mThen = "idle" /\ mOp = "none" /\ mN = 0
          /\ outLock = "free" /\ outPend = <<>>
          /\ outBlkAvailCnt = 0 /\ outBlkWrIdx = 0 /\ mOutBlkIdx = 0
          /\ inMsgQue = <<>> /\ inBlkDataSize = 0 /\ inBlkRdIdx = 0 /\ mInBlkIdx = 0
      BY DEF Init, ModelInit
    <3> QED BY <3>1, <3>2, ParamAssumption DEF ModelTypeOK, MPc, ParamAssumption
  <2>2. ModelControl
    <3>1. mPc = "idle" /\ outLock = "free" /\ outPend = <<>>
      BY DEF Init, ModelInit
    <3> QED BY <3>1 DEF ModelControl
  <2> QED BY <2>1, <2>2 DEF Init, ModelInit, ModelInv
<1> QED BY <1>1, <1>2, <1>3 DEF IInv

\* A step of the host, which at most appends to ctlIn, keeps the coprocessor's
\* part of the invariant.
LEMMA OtherSideKeepsModel ==
  ASSUME IInv, UNCHANGED modelVars,
         \/ ctlIn' = ctlIn
         \/ \E x \in CtrlMsg : ctlIn' = Append(ctlIn, x)
  PROVE  ModelInv'
<1>1. ctlIn # <<>> /\ Head(ctlIn).cmd = "AVL" => ctlIn' # <<>> /\ Head(ctlIn').cmd = "AVL"
  BY HeadOfAppend DEF IInv, SharedTypeOK
<1>2. ModelTypeOK'
  BY DEF IInv, ModelInv, ModelTypeOK, modelVars, mStatus, mPcVars, mSendVars, mRecvVars
<1>3. ModelControl'
  BY <1>1 DEF IInv, ModelInv, ModelControl, modelVars, mPcVars, mSendVars
<1> QED BY <1>2, <1>3 DEF IInv, ModelInv, modelVars, mSendVars

\* A step of the coprocessor, which at most appends to ctlOut, keeps the
\* host's part of the invariant.
LEMMA OtherSideKeepsHost ==
  ASSUME IInv, UNCHANGED hostVars,
         \/ ctlOut' = ctlOut
         \/ \E x \in CtrlMsg : ctlOut' = Append(ctlOut, x)
  PROVE  HostInv'
<1>1. ctlOut # <<>> /\ Head(ctlOut).cmd = "AVL"
        => ctlOut' # <<>> /\ Head(ctlOut').cmd = "AVL"
  BY HeadOfAppend DEF IInv, SharedTypeOK
<1>2. HostTypeOK'
  BY DEF IInv, HostInv, HostTypeOK, hostVars, hPcVars, hSendVars, hRecvVars
<1>3. HostControl'
  BY <1>1 DEF IInv, HostInv, HostControl, hostVars, hPcVars, hSendVars
<1> QED BY <1>2, <1>3 DEF IInv, HostInv, hostVars, hSendVars

\* Every step of the link keeps the inductive invariant.
LEMMA NextIInv == IInv /\ [Next]_vars => IInv'
<1> SUFFICES ASSUME IInv, [Next]_vars PROVE IInv'
  OBVIOUS
<1> USE ParamAssumption
<1>1. CASE HostLib
  BY <1>1, HostSendSteps, HostRecvSteps, HostOnlyAppends, OtherSideKeepsModel
  DEF HostLib, IInv
<1>2. CASE HostApp
  BY <1>2, HostOtherSteps, HostOnlyAppends, OtherSideKeepsModel DEF HostApp, IInv
<1>3. CASE HostDelete
  BY <1>3, HostOtherSteps, HostOnlyAppends, OtherSideKeepsModel
  DEF HostDelete, HostDeleteStep, IInv
<1>4. CASE HostTick
  BY <1>4, HostOtherSteps, HostOnlyAppends, OtherSideKeepsModel DEF HostTick, IInv
<1>5. CASE ModelLib
  BY <1>5, ModelSendSteps, ModelRecvSteps, ModelOnlyAppends, OtherSideKeepsHost
  DEF ModelLib, IInv
<1>6. CASE ModelApp
  BY <1>6, ModelOtherSteps, ModelOnlyAppends, OtherSideKeepsHost DEF ModelApp, IInv
<1>7. CASE ModelTick
  BY <1>7, ModelOtherSteps, ModelOnlyAppends, OtherSideKeepsHost DEF ModelTick, IInv
<1>8. CASE Closed \/ UNCHANGED vars
  <2>1. UNCHANGED <<shared, hostVars, modelVars>>
    BY <1>8 DEF Closed, vars
  <2>2. SharedTypeOK'
    BY <2>1 DEF IInv, SharedTypeOK, shared
  <2>3. HostInv' /\ ModelInv'
    BY <2>1, OtherSideKeepsHost, OtherSideKeepsModel DEF shared
  <2> QED BY <2>2, <2>3 DEF IInv
<1> QED BY <1>1, <1>2, <1>3, <1>4, <1>5, <1>6, <1>7, <1>8 DEF Next

\* The inductive invariant holds in every state of the link.
THEOREM Invariance == Spec => []IInv
BY InitIInv, NextIInv, PTL DEF Spec

\* Every variable keeps its type: the indices of both sides stay inside their
\* rings and blocks, and the subtractions of NextInBlk and NextOutBlk never
\* take the credit below zero.
THEOREM TypeCorrect == Spec => []TypeOK
<1>1. IInv => TypeOK
  BY DEF IInv, HostInv, ModelInv, TypeOK
<1> QED BY <1>1, Invariance, PTL

\* m_inLock and m_outLock: a message is only written, and a block only filled,
\* by the thread that holds the lock, and nobody looks at a control queue with
\* a lock held.
THEOREM LocksCorrect == Spec => []LockDiscipline
<1>1. IInv => LockDiscipline
  BY DEF IInv, HostInv, ModelInv, LockDiscipline
<1> QED BY <1>1, Invariance, PTL

\* The assert of FlushInBlk and FlushOutBlk never fails: who flushes a partly
\* filled block, application or timer, finds credit for it.
THEOREM FlushCorrect == Spec => []FlushHasCredit
<1>1. IInv => FlushHasCredit
  BY DEF IInv, HostInv, ModelInv, FlushHasCredit
<1> QED BY <1>1, Invariance, PTL

----------------------------------------------------------------------------
\* Counting the messages of a kind.
LEMMA CountType ==
  ASSUME NEW s \in Seq(CtrlMsg), NEW c
  PROVE  /\ IsFiniteSet({i \in 1..Len(s) : s[i].cmd = c})
         /\ Count(c, s) = Cardinality({i \in 1..Len(s) : s[i].cmd = c})
         /\ Count(c, s) \in Nat
<1>1. IsFiniteSet(1..Len(s)) /\ DOMAIN s = 1..Len(s)
  BY FS_Interval, LenProperties
<1>2. IsFiniteSet({i \in 1..Len(s) : s[i].cmd = c})
  BY <1>1, FS_Subset
<1> QED BY <1>1, <1>2, FS_CardinalityType DEF Count

\* An empty queue has no message.
LEMMA CountEmpty ==
  ASSUME NEW c
  PROVE  Count(c, <<>>) = 0
<1>1. {i \in DOMAIN <<>> : <<>>[i].cmd = c} = {}
  OBVIOUS
<1> QED BY <1>1, FS_EmptySet DEF Count

\* A message more at the end.
LEMMA CountAppend ==
  ASSUME NEW s \in Seq(CtrlMsg), NEW m \in CtrlMsg, NEW c
  PROVE  Count(c, Append(s, m)) = Count(c, s) + One(m.cmd = c)
<1> DEFINE A == {i \in 1..Len(s) : s[i].cmd = c}
           B == {i \in 1..Len(Append(s, m)) : Append(s, m)[i].cmd = c}
<1>1. IsFiniteSet(A) /\ Count(c, s) = Cardinality(A) /\ Cardinality(A) \in Nat
  BY CountType
<1>2. Append(s, m) \in Seq(CtrlMsg) /\ Count(c, Append(s, m)) = Cardinality(B)
  <2>1. Append(s, m) \in Seq(CtrlMsg)
    OBVIOUS
  <2> QED BY <2>1, CountType
<1>3. CASE m.cmd = c
  <2>1. B = A \cup {Len(s) + 1} /\ Len(s) + 1 \notin A
    BY <1>3
  <2>2. Cardinality(A \cup {Len(s) + 1}) = Cardinality(A) + 1
    BY <1>1, <2>1, FS_AddElement
  <2> QED BY <1>1, <1>2, <1>3, <2>1, <2>2 DEF One
<1>4. CASE m.cmd # c
  <2>1. B = A
    BY <1>4
  <2>2. One(m.cmd = c) = 0
    BY <1>4 DEF One
  <2>3. Count(c, Append(s, m)) = Count(c, s)
    BY <1>1, <1>2, <2>1
  <2> QED BY <1>1, <2>2, <2>3
<1> QED BY <1>3, <1>4

\* The first message and the others.
LEMMA CountHead ==
  ASSUME NEW s \in Seq(CtrlMsg), s # <<>>, NEW c
  PROVE  Count(c, s) = One(Head(s).cmd = c) + Count(c, Tail(s))
<1> DEFINE A == {i \in 1..Len(s) : s[i].cmd = c}
           B == {i \in 1..Len(Tail(s)) : Tail(s)[i].cmd = c}
           f == [i \in B |-> i + 1]
<1>1. IsFiniteSet(A) /\ Count(c, s) = Cardinality(A) /\ Cardinality(A) \in Nat
  BY CountType
<1>2. Tail(s) \in Seq(CtrlMsg) /\ Len(Tail(s)) = Len(s) - 1 /\ Len(s) \in Nat \ {0}
  BY HeadTailProperties, LenProperties, EmptySeq
<1>3. IsFiniteSet(B) /\ Count(c, Tail(s)) = Cardinality(B) /\ Cardinality(B) \in Nat
  BY <1>2, CountType
<1>4. \A i \in 1..Len(Tail(s)) : Tail(s)[i] = s[i + 1]
  BY <1>2, HeadTailProperties
<1>5. f \in Bijection(B, A \ {1})
  <2>1. \A i \in B : f[i] \in A \ {1}
    BY <1>2, <1>4
  <2>2. \A j \in A \ {1} : j - 1 \in B /\ f[j - 1] = j
    BY <1>2, <1>4
  <2>3. \A i, j \in B : f[i] = f[j] => i = j
    OBVIOUS
  <2>4. f \in [B -> A \ {1}] /\ \A j \in A \ {1} : \E i \in B : f[i] = j
    BY <2>1, <2>2
  <2> HIDE DEF f, A, B
  <2> QED BY <2>3, <2>4, Fun_IsBij
<1>6. IsFiniteSet(A \ {1}) /\ Cardinality(B) = Cardinality(A \ {1})
  <2> HIDE DEF f, A, B
  <2> QED BY <1>3, <1>5, FS_Bijection DEF ExistsBijection
<1>7. Head(s) = s[1]
  OBVIOUS
<1>8. CASE Head(s).cmd = c
  <2>1. 1 \in A
    BY <1>2, <1>7, <1>8
  <2>2. Cardinality(A \ {1}) = Cardinality(A) - 1
    BY <1>1, <2>1, FS_RemoveElement
  <2>3. One(Head(s).cmd = c) = 1
    BY <1>8 DEF One
  <2>4. Count(c, s) = Count(c, Tail(s)) + 1 /\ Count(c, Tail(s)) \in Nat
    <3> HIDE DEF A, B
    <3> QED BY <1>1, <1>3, <1>6, <2>2
  <2> QED BY <2>3, <2>4
<1>9. CASE Head(s).cmd # c
  <2>1. A \ {1} = A
    BY <1>2, <1>7, <1>9
  <2>2. One(Head(s).cmd = c) = 0
    BY <1>9 DEF One
  <2>3. Count(c, s) = Count(c, Tail(s)) /\ Count(c, Tail(s)) \in Nat
    <3> HIDE DEF A, B
    <3> QED BY <1>1, <1>3, <1>6, <2>1
  <2> QED BY <2>2, <2>3
<1> QED BY <1>8, <1>9

\* A single message.
LEMMA CountSingle ==
  ASSUME NEW m \in CtrlMsg, NEW c
  PROVE  Count(c, <<m>>) = One(m.cmd = c)
<1> DEFINE B == {i \in DOMAIN <<m>> : <<m>>[i].cmd = c}
<1>1. CASE m.cmd = c
  <2>1. B = {1}
    BY <1>1
  <2> QED BY <1>1, <2>1, FS_Singleton DEF Count, One
<1>2. CASE m.cmd # c
  <2>1. B = {}
    BY <1>2
  <2> QED BY <1>2, <2>1, FS_EmptySet DEF Count, One
<1> QED BY <1>1, <1>2

\* What one sequence loses the other gets.
LEMMA OneMoves ==
  ASSUME NEW a \in Int, NEW b \in Int, NEW c \in Int, NEW r \in Int, a = r + c
  PROVE  c + (b + r) = a + b
OBVIOUS

----------------------------------------------------------------------------
\* A call or return with arguments, and what follows it in its stream.
ArgCall(m) == m.cmd = "RDY" /\ m.ctl = "CALL" /\ m.arg > 0
Paired(s) ==
  \A i \in 1..Len(s) :
    ArgCall(s[i]) => i < Len(s) /\ s[i + 1] = Rdy("DATA", s[i].arg)

\* A marker or halt has no size.
Sized(s) ==
  \A i \in 1..Len(s) : s[i].cmd = "RDY" /\ s[i].ctl \in {"NULL", "HALT"} => s[i].arg = 0

Without(cmds, s) == \A i \in 1..Len(s) : s[i].cmd \notin cmds

\* A sequence of messages that each hand over a block.
LEMMA CountRdy ==
  ASSUME NEW s \in Seq(CtrlMsg), \A i \in 1..Len(s) : s[i].cmd = "RDY"
  PROVE  Count("RDY", s) = Len(s) /\ Without({"AVL", "PARAM"}, s) /\ Without({"USER"}, s)
<1>1. {i \in 1..Len(s) : s[i].cmd = "RDY"} = 1..Len(s)
  OBVIOUS
<1>2. Cardinality(1..Len(s)) = Len(s)
  <2>1. Len(s) \in Nat
    BY LenProperties
  <2> DEFINE n == Len(s)
  <2>2. n \in Nat
    BY <2>1
  <2> HIDE DEF n
  <2>3. Cardinality(1..n) = IF 1 > n THEN 0 ELSE n - 1 + 1
    BY <2>2, FS_Interval
  <2>4. Cardinality(1..n) = n
    BY <2>2, <2>3
  <2> QED BY <2>4 DEF n
<1> QED BY <1>1, <1>2, CountType DEF Without

\* No message of a kind the stream is without.
LEMMA CountWithout ==
  ASSUME NEW s \in Seq(CtrlMsg), NEW c, NEW cmds, c \in cmds, Without(cmds, s)
  PROVE  Count(c, s) = 0
<1>1. {i \in 1..Len(s) : s[i].cmd = c} = {}
  BY DEF Without
<1> QED BY <1>1, CountType, FS_EmptySet

\* The messages of a direction, from the oldest that the receiver still has
\* to the last that the sender still has to write.
InStream  == inMsgQue \o (ctlIn \o inPend)
OutStream == outMsgQue \o (ctlOut \o outPend)

InFlow ==
  /\ Paired(InStream) /\ Sized(InStream)
  /\ Without({"AVL"}, inMsgQue) /\ Without({"PARAM"}, inPend)
OutFlow ==
  /\ Paired(OutStream) /\ Sized(OutStream)
  /\ Without({"AVL"}, outMsgQue) /\ Without({"PARAM"}, OutStream)

\* The host's call: only the calls of ~CHtHifLib run once it has begun, and
\* one that retries after SendCtlNoCredit has left no partly filled block.
HostCalls ==
  /\ hPc = "idle" => hThen = "idle"
  /\ hPc # "idle" => (hPhase = "run" <=> hOp \notin {"SendHostHalt", "HaltLoop"})
  /\ hPc = "copy" => hOp = "RecvHostData"
  /\ hThen = "args" \/ hPc = "args" => hOp = "RecvReturn"
  /\ hThen = "data" \/ hPc = "data" => hOp = "SendHostData"
  /\ hThen = "look" \/ hPc \in {"look", "copy", "args", "next"} => ~HCtlOp
  /\ HCtlOp /\ (hPc \in {"que", "clear", "relock"} \/ (hPc = "write" /\ hThen = "que"))
       => inBlkWrIdx = 0

\* The front block of the host's receiving side, while it is being read, and
\* the block of arguments that RecvReturn goes on to.
HArgsNext == hPc = "args" \/ (hPc \in {"next", "write"} /\ hThen = "args")
HostFront ==
  /\ outBlkDataSize > 0 /\ hPhase = "run" =>
       HFrontIsData /\ Head(outMsgQue).arg = outBlkRdIdx + outBlkDataSize
  /\ hPc = "copy" =>
       HFrontIsData /\ Head(outMsgQue).arg = outBlkRdIdx + outBlkDataSize
  /\ hPc = "next" /\ hPhase = "run" => outBlkDataSize = 0
  /\ outBlkDataSize = 0 /\ hPhase = "run" /\ hPc # "next" => outBlkRdIdx = 0
  /\ HArgsNext => HFrontIsData /\ Head(outMsgQue).arg = recvRtnArgc /\ outBlkDataSize = 0
  /\ recvRtnArgc > 0 => HArgsNext

HostFlow == HostCalls /\ HostFront

\* The same of the coprocessor, where a block being read stays at the front
\* until it is given back, and the halt that MsgLoop answers is a call in it.
ModelCalls ==
  /\ mPc = "copy" => mOp = "RecvHostData"
  /\ mThen = "data" \/ mPc = "data" => mOp = "SendHostData"
  /\ mThen \in {"look", "args"} \/ mPc \in {"look", "copy", "args"} => ~MCtlOp
  /\ mPc = "next" => mThen = "lock" \/ ~MCtlOp
  /\ MCtlOp /\ (mPc \in {"que", "clear", "relock"} \/ (mPc = "write" /\ mThen = "que"))
       => outBlkWrIdx = 0

MArgsNext == mPc = "args" \/ (mPc \in {"next", "write"} /\ mThen = "args")
ModelFront ==
  /\ inBlkDataSize > 0 \/ mPc = "copy" =>
       MFrontIsData /\ Head(inMsgQue).arg = inBlkRdIdx + inBlkDataSize
  /\ mPc = "next" => inBlkDataSize = 0
  /\ inBlkDataSize = 0 /\ mPc # "next" => inBlkRdIdx = 0
  /\ MArgsNext => MFrontIsData /\ Head(inMsgQue).arg = mN /\ inBlkDataSize = 0

ModelFlow == ModelCalls /\ ModelFront

Flow == InFlow /\ OutFlow /\ HostFlow /\ ModelFlow

\* Taking the oldest message of one queue to the end of another leaves the
\* stream as it is.
LEMMA MoveHead ==
  ASSUME NEW S, NEW a \in Seq(S), NEW b \in Seq(S), b # <<>>
  PROVE  Append(a, Head(b)) \o Tail(b) = a \o b
<1>1. Head(b) \in S /\ Tail(b) \in Seq(S) /\ b = <<Head(b)>> \o Tail(b)
  OBVIOUS
<1>2. Append(a, Head(b)) = a \o <<Head(b)>>
  BY <1>1, AppendIsConcat
<1> QED BY <1>1, <1>2, ConcatAssociative

\* The entries of two queues, one behind the other.
LEMMA StreamIndex ==
  ASSUME NEW S, NEW a \in Seq(S), NEW b \in Seq(S)
  PROVE  /\ a \o b \in Seq(S) /\ Len(a \o b) = Len(a) + Len(b)
         /\ \A i \in 1..Len(a) : (a \o b)[i] = a[i]
         /\ \A i \in 1..Len(b) : (a \o b)[Len(a) + i] = b[i]
OBVIOUS

\* The entries behind the first one.
LEMMA TailIndex ==
  ASSUME NEW S, NEW a \in Seq(S), a # <<>>
  PROVE  /\ Tail(a) \in Seq(S) /\ Len(Tail(a)) = Len(a) - 1 /\ Len(a) \in Nat \ {0}
         /\ \A i \in 1..Len(Tail(a)) : Tail(a)[i] = a[i + 1]
         /\ Head(a) = a[1] /\ Head(a) \in S
BY HeadTailProperties, LenProperties, EmptySeq

\* The oldest message of a stream is the oldest of the first queue.
LEMMA StreamTail ==
  ASSUME NEW S, NEW a \in Seq(S), NEW b \in Seq(S), a # <<>>
  PROVE  Tail(a) \o b = Tail(a \o b) /\ Head(a \o b) = Head(a) /\ a \o b # <<>>
<1>1. a = <<Head(a)>> \o Tail(a) /\ Head(a) \in S /\ Tail(a) \in Seq(S)
  OBVIOUS
<1>2. a \o b = <<Head(a)>> \o (Tail(a) \o b)
  BY <1>1, ConcatAssociative
<1> QED BY <1>1, <1>2, SMTT(30)

\* What is written after what the stream holds, and read from its front,
\* leaves calls and their arguments together.
LEMMA PairedConcat ==
  ASSUME NEW s \in Seq(CtrlMsg), NEW t \in Seq(CtrlMsg)
  PROVE  /\ Paired(s) /\ Paired(t) => Paired(s \o t)
         /\ Sized(s) /\ Sized(t) => Sized(s \o t)
         /\ \A cmds : Without(cmds, s) /\ Without(cmds, t) => Without(cmds, s \o t)
<1>1. /\ Len(s \o t) = Len(s) + Len(t) /\ Len(s) \in Nat /\ Len(t) \in Nat
      /\ \A i \in 1..Len(s) : (s \o t)[i] = s[i]
      /\ \A i \in 1..Len(t) : (s \o t)[Len(s) + i] = t[i]
  BY StreamIndex
<1>2. \A i \in 1..Len(s \o t) :
        \/ i \in 1..Len(s)
        \/ i - Len(s) \in 1..Len(t) /\ i = Len(s) + (i - Len(s)) /\ i \notin 1..Len(s)
  BY <1>1
<1>3. ASSUME Paired(s), Paired(t) PROVE Paired(s \o t)
  <2>1. SUFFICES ASSUME NEW i \in 1..Len(s \o t), ArgCall((s \o t)[i])
                 PROVE  i < Len(s \o t) /\ (s \o t)[i + 1] = Rdy("DATA", (s \o t)[i].arg)
    BY DEF Paired
  <2>2. CASE i \in 1..Len(s)
    <3>1. (s \o t)[i] = s[i] /\ i < Len(s) /\ s[i + 1] = Rdy("DATA", s[i].arg)
      BY <1>1, <1>3, <2>1, <2>2 DEF Paired
    <3> QED BY <1>1, <2>2, <3>1
  <2>3. CASE i \notin 1..Len(s)
    <3> DEFINE j == i - Len(s)
    <3>1. j \in 1..Len(t) /\ i = Len(s) + j /\ (s \o t)[i] = t[j]
      BY <1>1, <1>2, <2>1, <2>3
    <3>2. j < Len(t) /\ t[j + 1] = Rdy("DATA", t[j].arg)
      BY <1>3, <2>1, <3>1 DEF Paired
    <3>3. j + 1 \in 1..Len(t) /\ i + 1 = Len(s) + (j + 1)
      BY <1>1, <3>1, <3>2
    <3>4. (s \o t)[i + 1] = t[j + 1]
      BY <1>1, <3>3
    <3> QED BY <1>1, <3>1, <3>2, <3>4
  <2> QED BY <2>2, <2>3
<1>4. ASSUME Sized(s), Sized(t) PROVE Sized(s \o t)
  BY <1>1, <1>2, <1>4 DEF Sized
<1>5. ASSUME NEW cmds, Without(cmds, s), Without(cmds, t) PROVE Without(cmds, s \o t)
  BY <1>1, <1>2, <1>5 DEF Without
<1> QED BY <1>3, <1>4, <1>5

\* A stream keeps its shape when its oldest message is taken.
LEMMA PairedTail ==
  ASSUME NEW s \in Seq(CtrlMsg), s # <<>>
  PROVE  /\ Paired(s) => Paired(Tail(s))
         /\ Sized(s) => Sized(Tail(s))
         /\ \A cmds : Without(cmds, s) => Without(cmds, Tail(s))
<1>1. /\ Len(Tail(s)) = Len(s) - 1 /\ Len(s) \in Nat \ {0}
      /\ \A i \in 1..Len(Tail(s)) : Tail(s)[i] = s[i + 1] /\ i + 1 \in 1..Len(s)
  BY TailIndex
<1> QED BY <1>1 DEF Paired, Sized, Without

\* Only what is no argument can be taken out of the middle.
LEMMA PairedDrop ==
  ASSUME NEW a \in Seq(CtrlMsg), NEW b \in Seq(CtrlMsg), b # <<>>, Head(b).cmd # "RDY"
  PROVE  /\ Paired(a \o b) => Paired(a \o Tail(b))
         /\ Sized(a \o b) => Sized(a \o Tail(b))
         /\ \A cmds : Without(cmds, a \o b) => Without(cmds, a \o Tail(b))
<1> DEFINE n == Len(a)
<1>1. /\ Len(Tail(b)) = Len(b) - 1 /\ Len(b) \in Nat \ {0} /\ Tail(b) \in Seq(CtrlMsg)
      /\ \A i \in 1..Len(Tail(b)) : Tail(b)[i] = b[i + 1]
      /\ Head(b) = b[1]
  BY TailIndex
<1>2. /\ Len(a \o b) = n + Len(b) /\ n \in Nat
      /\ \A i \in 1..n : (a \o b)[i] = a[i]
      /\ \A i \in 1..Len(b) : (a \o b)[n + i] = b[i]
  BY StreamIndex
<1>3. /\ Len(a \o Tail(b)) = n + Len(b) - 1
      /\ \A i \in 1..n : (a \o Tail(b))[i] = a[i]
      /\ \A i \in 1..Len(Tail(b)) : (a \o Tail(b))[n + i] = Tail(b)[i]
  BY <1>1, StreamIndex
<1>4. /\ \A i \in 1..n : (a \o Tail(b))[i] = (a \o b)[i]
      /\ \A i \in n + 1..n + Len(b) - 1 : (a \o Tail(b))[i] = (a \o b)[i + 1]
      /\ (a \o b)[n + 1].cmd # "RDY"
  <2>1. \A i \in n + 1..n + Len(b) - 1 :
          i - n \in 1..Len(Tail(b)) /\ i - n + 1 \in 1..Len(b)
          /\ n + (i - n) = i /\ n + (i - n + 1) = i + 1
    BY <1>1, <1>2
  <2>2. \A i \in n + 1..n + Len(b) - 1 : (a \o Tail(b))[i] = (a \o b)[i + 1]
    BY <1>1, <1>2, <1>3, <2>1
  <2> QED BY <1>1, <1>2, <1>3, <2>2
<1> HIDE DEF n
<1> DEFINE s == a \o b
           t == a \o Tail(b)
<1>5. /\ Len(s) = n + Len(b) /\ Len(t) = n + Len(b) - 1 /\ n \in Nat /\ Len(b) \in Nat \ {0}
      /\ \A i \in 1..n : t[i] = s[i]
      /\ \A i \in n + 1..n + Len(b) - 1 : t[i] = s[i + 1]
      /\ s[n + 1].cmd # "RDY"
  BY <1>1, <1>2, <1>3, <1>4
<1> HIDE DEF s, t
<1>6. ASSUME Paired(s) PROVE Paired(t)
  <2>1. SUFFICES ASSUME NEW i \in 1..Len(t), ArgCall(t[i])
                 PROVE  i < Len(t) /\ t[i + 1] = Rdy("DATA", t[i].arg)
    BY DEF Paired
  <2>2. CASE i <= n
    <3>1. s[i] = t[i] /\ i < Len(s) /\ s[i + 1] = Rdy("DATA", t[i].arg)
      BY <1>5, <1>6, <2>1, <2>2 DEF Paired
    <3>2. i # n
      BY <1>5, <3>1 DEF Rdy
    <3> QED BY <1>5, <2>2, <3>1, <3>2, SMTT(30)
  <2>3. CASE i > n
    <3>1. s[i + 1] = t[i] /\ i + 1 < Len(s) /\ s[i + 2] = Rdy("DATA", t[i].arg)
      BY <1>5, <1>6, <2>1, <2>3 DEF Paired
    <3> QED BY <1>5, <2>1, <2>3, <3>1, SMTT(30)
  <2> QED BY <1>5, <2>2, <2>3
<1>7. \A i \in 1..Len(t) : \E j \in 1..Len(s) : t[i] = s[j]
  BY <1>5, SMTT(30)
<1>8. Sized(s) => Sized(t)
  BY <1>7 DEF Sized
<1>9. \A cmds : Without(cmds, s) => Without(cmds, t)
  BY <1>7 DEF Without
<1> QED BY <1>6, <1>8, <1>9 DEF s, t

\* Once the message after a call with arguments is there too, it is the block
\* with just those arguments.
LEMMA PairedHead ==
  ASSUME NEW s \in Seq(CtrlMsg), NEW t \in Seq(CtrlMsg), Paired(s \o t), Len(s) >= 2,
         ArgCall(Head(s))
  PROVE  Tail(s) # <<>> /\ Head(Tail(s)) = Rdy("DATA", Head(s).arg)
<1>1. /\ Len(s) \in Nat /\ Len(t) \in Nat /\ Len(s \o t) = Len(s) + Len(t)
      /\ \A i \in 1..Len(s) : (s \o t)[i] = s[i]
  BY StreamIndex
<1>2. (s \o t)[1] = s[1] /\ (s \o t)[2] = s[2] /\ 1 \in 1..Len(s \o t)
  BY <1>1
<1>3. /\ Tail(s) \in Seq(CtrlMsg) /\ Len(Tail(s)) = Len(s) - 1 /\ Head(s) = s[1]
      /\ \A i \in 1..Len(Tail(s)) : Tail(s)[i] = s[i + 1]
  BY <1>1, TailIndex
<1>4. Tail(s) # <<>> /\ Head(Tail(s)) = Tail(s)[1] /\ Tail(s)[1] = s[2]
  <2>1. Tail(s) # <<>>
    BY <1>1, <1>3, SMTT(30)
  <2>2. Head(Tail(s)) = Tail(s)[1]
    BY <1>3, <2>1, TailIndex
  <2>3. 1 \in 1..Len(Tail(s))
    BY <1>1, <1>3
  <2> QED BY <1>3, <2>1, <2>2, <2>3
<1>5. (s \o t)[1 + 1] = Rdy("DATA", (s \o t)[1].arg)
  BY <1>2, <1>3 DEF Paired
<1> QED BY <1>2, <1>3, <1>4, <1>5

\* The queues and what the lock holders still have to write are messages.
QueuesTyped ==
  /\ ctlIn \in Seq(CtrlMsg) /\ ctlOut \in Seq(CtrlMsg)
  /\ inPend \in Seq(CtrlMsg) /\ outPend \in Seq(CtrlMsg)
  /\ inMsgQue \in Seq(CtrlMsg) /\ outMsgQue \in Seq(CtrlMsg)

----------------------------------------------------------------------------
\* What a step of the host does to the two streams and to its credit.
HStays(pc) == hPc' = pc <=> hPc = pc

\* Nothing.
HQuiet ==
  /\ HStays("next") /\ HStays("clear")
  /\ UNCHANGED <<ctlIn, inPend, inBlkAvailCnt, ctlOut, outMsgQue>>

\* It takes the lock and has messages to write that hand over blocks.
HSection ==
  /\ HStays("next") /\ HStays("clear")
  /\ inPend = <<>> /\ inPend' \in Seq(CtrlMsg)
  /\ Paired(inPend') /\ Sized(inPend') /\ Without({"AVL", "PARAM"}, inPend')
  /\ hOp = "SendHostMsg" \/ Without({"USER"}, inPend')
  /\ inBlkAvailCnt' = inBlkAvailCnt - Count("RDY", inPend')
  /\ UNCHANGED <<ctlIn, ctlOut, outMsgQue>>

\* It takes the lock to give a block back.
HGive ==
  /\ hPc = "next" /\ hPc' = "write"
  /\ inPend = <<>> /\ inPend' = <<AvlMsg>>
  /\ UNCHANGED <<ctlIn, inBlkAvailCnt, ctlOut, outMsgQue>>

\* It writes a message.
HPut ==
  /\ HStays("next") /\ HStays("clear")
  /\ inPend # <<>> /\ ctlIn' = Append(ctlIn, Head(inPend)) /\ inPend' = Tail(inPend)
  /\ UNCHANGED <<inBlkAvailCnt, ctlOut, outMsgQue>>

\* It counts a credit, and clears its slot.
HCounts ==
  /\ hPc = "que" /\ hPc' = "clear" /\ inBlkAvailCnt' = inBlkAvailCnt + 1
  /\ UNCHANGED <<ctlIn, inPend, ctlOut, outMsgQue>>
HClears ==
  /\ hPc = "clear" /\ hPc' = "que"
  /\ ctlOut # <<>> /\ Head(ctlOut).cmd = "AVL" /\ ctlOut' = Tail(ctlOut)
  /\ UNCHANGED <<ctlIn, inPend, inBlkAvailCnt, outMsgQue>>

\* It takes a message off the control queue, and off its own, with its block
\* if it came with one.
HTakes ==
  /\ HStays("next") /\ HStays("clear")
  /\ ctlOut # <<>> /\ Head(ctlOut).cmd # "AVL"
  /\ outMsgQue' = Append(outMsgQue, Head(ctlOut)) /\ ctlOut' = Tail(ctlOut)
  /\ UNCHANGED <<ctlIn, inPend, inBlkAvailCnt>>
HPopsMsg ==
  /\ HStays("next") /\ HStays("clear")
  /\ outMsgQue # <<>> /\ Head(outMsgQue).cmd = "USER" /\ HPop
  /\ UNCHANGED <<ctlIn, inPend, inBlkAvailCnt, ctlOut>>
HPopsBlk ==
  /\ hPc \in {"look", "copy", "args"} /\ hPc' = "next"
  /\ outMsgQue # <<>> /\ Head(outMsgQue).cmd = "RDY" /\ HPop
  /\ UNCHANGED <<ctlIn, inPend, inBlkAvailCnt, ctlOut>>

HEffect ==
  \/ HQuiet \/ HSection \/ HGive \/ HPut
  \/ HCounts \/ HClears \/ HTakes \/ HPopsMsg \/ HPopsBlk

\* The flush, and the marker, halt or call after it.
LEMMA HFlushShape ==
  ASSUME HostTypeOK, ParamAssumption
  PROVE  /\ HFlushMsgs \in Seq(CtrlMsg) /\ Paired(HFlushMsgs) /\ Sized(HFlushMsgs)
         /\ \A i \in 1..Len(HFlushMsgs) : HFlushMsgs[i].cmd = "RDY"
         /\ Count("RDY", HFlushMsgs) = Len(HFlushMsgs)
         /\ Without({"AVL", "PARAM"}, HFlushMsgs) /\ Without({"USER"}, HFlushMsgs)
<1>1. HFlushMsgs \in Seq(CtrlMsg)
  BY HFlushMsgsType
<1>2. \A i \in 1..Len(HFlushMsgs) : HFlushMsgs[i] = Rdy("DATA", inBlkWrIdx)
  BY DEF HFlushMsgs
<1>3. \A i \in 1..Len(HFlushMsgs) : HFlushMsgs[i].cmd = "RDY" /\ HFlushMsgs[i].ctl = "DATA"
  BY <1>2 DEF Rdy
<1>4. Paired(HFlushMsgs) /\ Sized(HFlushMsgs)
  BY <1>3 DEF Paired, Sized, ArgCall
<1> QED BY <1>1, <1>3, <1>4, CountRdy

\* An empty block is announced, or arguments are: whole blocks, paired.
LEMMA HCtlShape ==
  ASSUME HostTypeOK, HCtlOp
  PROVE  /\ HCtlMsgs(0) \in Seq(CtrlMsg) /\ Paired(HCtlMsgs(0)) /\ Sized(HCtlMsgs(0))
         /\ \A i \in 1..Len(HCtlMsgs(0)) : HCtlMsgs(0)[i].cmd = "RDY"
<1>1. HCtlMsgs(0) \in Seq(CtrlMsg)
  BY HCtlMsgsType
<1>2. CASE hOp = "SendHostDataMarker" \/ hOp = "SendHostHalt" \/ hN = 0
  <2>1. \E c \in {"NULL", "HALT", "CALL"} : HCtlMsgs(0) = <<Rdy(c, 0)>>
    BY <1>2 DEF HCtlMsgs, HCtlOp
  <2>2. PICK c \in {"NULL", "HALT", "CALL"} : HCtlMsgs(0) = <<Rdy(c, 0)>>
    BY <2>1
  <2>3. Len(HCtlMsgs(0)) = 1 /\ HCtlMsgs(0)[1].cmd = "RDY" /\ HCtlMsgs(0)[1].arg = 0
    BY <2>2 DEF Rdy
  <2> QED BY <1>1, <2>3 DEF Paired, Sized, ArgCall
<1>3. CASE hOp = "SendCall" /\ hN # 0
  <2>1. HCtlMsgs(0) = <<Rdy("CALL", hN), Rdy("DATA", hN)>>
    BY <1>3 DEF HCtlMsgs
  <2>2. /\ Len(HCtlMsgs(0)) = 2
        /\ HCtlMsgs(0)[1] = Rdy("CALL", hN) /\ HCtlMsgs(0)[2] = Rdy("DATA", hN)
    BY <2>1
  <2> QED BY <1>1, <2>2 DEF Paired, Sized, ArgCall, Rdy
<1> QED BY <1>2, <1>3 DEF HCtlOp

\* The message of a call, marker or halt, with the open block before it.
LEMMA HSendCtlSection ==
  ASSUME ParamAssumption, HostInv, inPend = <<>>, hPc \in {"lock", "relock"}, HCtlOp,
         NEW flush \in Seq(CtrlMsg), HSendCtl(flush),
         \/ flush = HFlushMsgs
         \/ flush = <<>> /\ inBlkWrIdx = 0
  PROVE  HSection
<1>t. HostTypeOK
  BY DEF HostInv
<1>0. flush = <<>> => inBlkWrIdx = 0
  <2>1. CASE flush = HFlushMsgs /\ flush = <<>>
    BY <2>1 DEF HFlushMsgs
  <2> QED BY <2>1
<1>1. (IF flush = <<>> THEN inBlkWrIdx ELSE 0) = 0
  BY <1>0
<1>2. /\ inPend' = flush \o HCtlMsgs(0) /\ hPc' = "write"
      /\ inBlkAvailCnt' = inBlkAvailCnt - (Len(flush) + Len(HCtlMsgs(0)))
      /\ UNCHANGED <<ctlIn, ctlOut, outMsgQue>>
  BY <1>1 DEF HSendCtl, HWriteThen, NextInBlks, hRecvVars
<1>3. /\ Paired(flush) /\ Sized(flush) /\ \A i \in 1..Len(flush) : flush[i].cmd = "RDY"
  <2>1. CASE flush = HFlushMsgs
    BY <1>t, <2>1, HFlushShape
  <2>2. CASE flush = <<>>
    BY <2>2 DEF Paired, Sized
  <2> QED BY <2>1, <2>2
<1>4. /\ HCtlMsgs(0) \in Seq(CtrlMsg) /\ Paired(HCtlMsgs(0)) /\ Sized(HCtlMsgs(0))
      /\ \A i \in 1..Len(HCtlMsgs(0)) : HCtlMsgs(0)[i].cmd = "RDY"
  BY <1>t, HCtlShape
<1>5. flush \o HCtlMsgs(0) \in Seq(CtrlMsg) /\ Len(flush \o HCtlMsgs(0)) = Len(flush) + Len(HCtlMsgs(0))
  BY <1>4, StreamIndex
<1>6. Paired(flush \o HCtlMsgs(0)) /\ Sized(flush \o HCtlMsgs(0))
  BY <1>3, <1>4, PairedConcat
<1>7. \A i \in 1..Len(flush \o HCtlMsgs(0)) : (flush \o HCtlMsgs(0))[i].cmd = "RDY"
  BY <1>3, <1>4
<1>8. Count("RDY", flush \o HCtlMsgs(0)) = Len(flush) + Len(HCtlMsgs(0))
      /\ Without({"AVL", "PARAM"}, flush \o HCtlMsgs(0))
      /\ Without({"USER"}, flush \o HCtlMsgs(0))
  BY <1>5, <1>7, CountRdy
<1> QED BY <1>2, <1>5, <1>6, <1>8 DEF HSection, HStays

\* What MsgLoop's result says of the message at the front.
LEMMA HRecvTypes ==
  ASSUME outMsgQue \in Seq(CtrlMsg), recvRtnArgc \in Nat
  PROVE  /\ HRecvType # "eRecvIdle" => outMsgQue # <<>>
         /\ HRecvType = "eRecvHostMsg" => Head(outMsgQue).cmd = "USER"
         /\ HRecvType = "eRecvHostDataMarker" =>
              Head(outMsgQue).cmd = "RDY" /\ Head(outMsgQue).ctl = "NULL"
         /\ HRecvType = "eRecvHalt" =>
              Head(outMsgQue).cmd = "RDY" /\ Head(outMsgQue).ctl = "HALT"
         /\ HRecvType = "eRecvHostData" =>
              /\ Head(outMsgQue).cmd = "RDY" /\ Head(outMsgQue).ctl = "DATA"
              /\ recvRtnArgc = 0
         /\ HRecvType = "eRecvReturn" =>
              /\ Head(outMsgQue).cmd = "RDY"
              /\ \/ Head(outMsgQue).ctl = "DATA" /\ recvRtnArgc > 0
                 \/ Head(outMsgQue).ctl = "CALL" /\ HArgsThere(Head(outMsgQue))
         /\ HRecvType = "assert" => outMsgQue # <<>> /\ Head(outMsgQue).cmd \in {"AVL", "PARAM"}
<1>1. CASE outMsgQue = <<>>
  BY <1>1 DEF HRecvType
<1>2. CASE outMsgQue # <<>>
  <2> DEFINE m == Head(outMsgQue)
  <2>1. m \in CtrlMsg
    BY <1>2
  <2>2. m.cmd \in {"PARAM", "AVL", "RDY", "USER"} /\ m.ctl \in {"DATA", "NULL", "CALL", "HALT"}
    BY <2>1 DEF CtrlMsg, Ctl
  <2> DEFINE there == HArgsThere(m)
  <2>3. HRecvType =
          CASE m.cmd = "USER" -> "eRecvHostMsg"
            [] m.cmd = "RDY" /\ m.ctl = "NULL" -> "eRecvHostDataMarker"
            [] m.cmd = "RDY" /\ m.ctl = "HALT" -> "eRecvHalt"
            [] m.cmd = "RDY" /\ m.ctl = "DATA" ->
                 IF recvRtnArgc > 0 THEN "eRecvReturn" ELSE "eRecvHostData"
            [] m.cmd = "RDY" /\ m.ctl = "CALL" ->
                 IF there THEN "eRecvReturn" ELSE "eRecvIdle"
            [] OTHER -> "assert"
    BY <1>2 DEF HRecvType
  <2> HIDE DEF m, there
  <2>4. CASE m.cmd = "USER"
    BY <1>2, <2>3, <2>4 DEF m
  <2>5. CASE m.cmd = "RDY" /\ m.ctl = "NULL"
    <3>1. HRecvType = "eRecvHostDataMarker"
      BY <2>3, <2>5
    <3> QED BY <1>2, <2>5, <3>1 DEF m
  <2>6. CASE m.cmd = "RDY" /\ m.ctl = "HALT"
    <3>1. HRecvType = "eRecvHalt"
      BY <2>3, <2>6
    <3> QED BY <1>2, <2>6, <3>1 DEF m
  <2>7. CASE m.cmd = "RDY" /\ m.ctl = "DATA"
    <3>1. HRecvType = IF recvRtnArgc > 0 THEN "eRecvReturn" ELSE "eRecvHostData"
      BY <2>3, <2>7
    <3>2. CASE recvRtnArgc > 0
      BY <1>2, <2>7, <3>1, <3>2 DEF m
    <3>3. CASE recvRtnArgc = 0
      BY <1>2, <2>7, <3>1, <3>3 DEF m
    <3> QED BY <3>2, <3>3
  <2>8. CASE m.cmd = "RDY" /\ m.ctl = "CALL"
    <3>1. HRecvType = IF there THEN "eRecvReturn" ELSE "eRecvIdle"
      BY <2>3, <2>8
    <3> QED BY <1>2, <2>8, <3>1 DEF m, there
  <2>9. CASE m.cmd \in {"AVL", "PARAM"}
    <3>1. HRecvType = "assert"
      BY <2>3, <2>9
    <3> QED BY <1>2, <2>9, <3>1 DEF m
  <2> QED BY <2>2, <2>4, <2>5, <2>6, <2>7, <2>8, <2>9
<1> QED BY <1>1, <1>2

\* Every step of the host does one of these.
HostStep ==
  \/ HostSendStep \/ HostRecvStep \/ HostCall \/ HostTimerStep
  \/ HCallSendHostHalt \/ HCallHaltLoop \/ HClose

\* What each step of the host does to the streams.
LEMMA HostEffects ==
  ASSUME ParamAssumption, SharedTypeOK, HostInv, HostFlow, HostStep
  PROVE  HEffect
<1>t. /\ HostTypeOK /\ HostControl
      /\ inBlkWrIdx \in Nat /\ inBlkAvailCnt \in Nat /\ hN \in Nat /\ outBlkDataSize \in Nat
      /\ inPend \in Seq(CtrlMsg) /\ outMsgQue \in Seq(CtrlMsg) /\ recvRtnArgc \in Nat
  BY DEF HostInv, HostTypeOK, ParamAssumption
<1>f. /\ HFlushMsgs \in Seq(CtrlMsg) /\ Paired(HFlushMsgs) /\ Sized(HFlushMsgs)
      /\ Count("RDY", HFlushMsgs) = Len(HFlushMsgs) /\ Len(HFlushMsgs) \in Nat
      /\ Without({"AVL", "PARAM"}, HFlushMsgs) /\ Without({"USER"}, HFlushMsgs)
      /\ inBlkWrIdx > 0 => Len(HFlushMsgs) = 1
  BY <1>t, HFlushShape, HFlushMsgsType, LenProperties
<1>l. /\ inLock = "free" => inPend = <<>>
      /\ hPc = "data" => inPend = <<>>
  BY <1>t DEF HostControl
<1>r. /\ HRecvType # "eRecvIdle" => outMsgQue # <<>>
      /\ HRecvType = "eRecvHostMsg" => Head(outMsgQue).cmd = "USER"
      /\ HRecvType \in {"eRecvHostDataMarker", "eRecvHalt", "eRecvHostData", "eRecvReturn"}
           => Head(outMsgQue).cmd = "RDY"
  BY <1>t, HRecvTypes
<1>q. ASSUME HQuiet PROVE HEffect  BY <1>q DEF HEffect
<1>s. ASSUME HSection PROVE HEffect  BY <1>s DEF HEffect
<1>1. CASE HSendHostMsg
  <2> DEFINE u == UserMsg(Len(inSent) + 1)
  <2>1. u \in CtrlMsg /\ u.cmd = "USER" /\ <<u>> \in Seq(CtrlMsg)
    BY MsgType DEF SharedTypeOK, UserMsg
  <2> HIDE DEF u
  <2>2. Paired(<<u>>) /\ Sized(<<u>>) /\ Without({"AVL", "PARAM"}, <<u>>)
    BY <2>1 DEF Paired, Sized, Without, ArgCall
  <2>3. Append(HFlushMsgs, u) = HFlushMsgs \o <<u>> /\ Append(HFlushMsgs, u) \in Seq(CtrlMsg)
    BY <1>f, <2>1, AppendIsConcat
  <2>4. Paired(HFlushMsgs \o <<u>>) /\ Sized(HFlushMsgs \o <<u>>)
        /\ Without({"AVL", "PARAM"}, HFlushMsgs \o <<u>>)
    BY <1>f, <2>1, <2>2, PairedConcat
  <2>5. Count("RDY", Append(HFlushMsgs, u)) = Len(HFlushMsgs)
    <3>1. One(u.cmd = "RDY") = 0
      BY <2>1 DEF One
    <3> QED BY <1>f, <2>1, <3>1, CountAppend
  <2>6. /\ hPc = "lock" /\ hOp = "SendHostMsg" /\ hPc' = "write"
        /\ inPend' = Append(HFlushMsgs, u) /\ inPend = <<>>
        /\ inBlkAvailCnt' = inBlkAvailCnt - Len(HFlushMsgs)
        /\ UNCHANGED <<ctlIn, ctlOut, outMsgQue>>
    BY <1>1, <1>l DEF HSendHostMsg, HWriteThen, NextInBlks, hRecvVars, u
  <2>7. HSection
    BY <2>3, <2>4, <2>5, <2>6 DEF HSection, HStays
  <2> QED BY <2>7 DEF HEffect
<1>2. CASE HFlushHostData
  <2>1. CASE inBlkWrIdx = 0
    BY <1>2, <1>q, <2>1 DEF HFlushHostData, HReturn, hSendVars, hRecvVars, shared, HQuiet, HStays
  <2>2. CASE inBlkWrIdx > 0
    <3>1. /\ hPc = "lock" /\ hPc' = "write" /\ inPend' = HFlushMsgs /\ inPend = <<>>
          /\ inBlkAvailCnt' = inBlkAvailCnt - 1
          /\ UNCHANGED <<ctlIn, ctlOut, outMsgQue>>
      BY <1>2, <1>l, <2>2 DEF HFlushHostData, HWriteThen, NextInBlks, hRecvVars, shared
    <3> QED BY <1>f, <1>s, <2>2, <3>1 DEF HSection, HStays
  <2> QED BY <1>t, <2>1, <2>2
<1>3. CASE HSendCtlFirst
  <2>1. hPc = "lock" /\ HCtlOp /\ inPend = <<>> /\ HSendCtl(HFlushMsgs)
    BY <1>3, <1>l DEF HSendCtlFirst
  <2> QED BY <1>f, <1>s, <2>1, HSendCtlSection
<1>4. CASE HSendCtlNoCredit
  <2>1. CASE inBlkWrIdx = 0
    BY <1>4, <1>q, <2>1 DEF HSendCtlNoCredit, hSendVars, hRecvVars, shared, HQuiet, HStays
  <2>2. CASE inBlkWrIdx > 0
    <3>1. /\ hPc = "lock" /\ hPc' = "write" /\ inPend' = HFlushMsgs /\ inPend = <<>>
          /\ inBlkAvailCnt' = inBlkAvailCnt - 1
          /\ UNCHANGED <<ctlIn, ctlOut, outMsgQue>>
      BY <1>4, <1>l, <2>2 DEF HSendCtlNoCredit, HWriteThen, NextInBlks, hRecvVars, shared
    <3> QED BY <1>f, <1>s, <2>2, <3>1 DEF HSection, HStays
  <2> QED BY <1>t, <2>1, <2>2
<1>5. CASE HSendCtlRetry
  <2>1. CASE HSendCtl(<<>>)
    <3>1. hPc = "relock" /\ HCtlOp /\ inPend = <<>> /\ inBlkWrIdx = 0
      BY <1>5, <1>l DEF HSendCtlRetry, HostFlow, HostCalls
    <3>2. <<>> \in Seq(CtrlMsg)
      OBVIOUS
    <3> QED BY <1>s, <2>1, <3>1, <3>2, HSendCtlSection
  <2>2. CASE ~HSendCtl(<<>>)
    BY <1>5, <1>q, <2>2 DEF HSendCtlRetry, HReturn, hSendVars, hRecvVars, shared, HQuiet, HStays
  <2> QED BY <2>1, <2>2
<1>6. CASE HSendDataLock \/ HSendDataNoCredit \/ HSendDataRetry
  BY <1>6, <1>q DEF HSendDataLock, HSendDataNoCredit, HSendDataRetry, HReturn, hSendVars,
     hRecvVars, shared, HQuiet, HStays
<1>7. CASE HSendDataChunk
  <2>1. CASE inPend' = inPend /\ inBlkAvailCnt' = inBlkAvailCnt /\ hPc' = "idle"
    BY <1>7, <1>q, <2>1 DEF HSendDataChunk, hRecvVars, HQuiet, HStays
  <2>2. CASE ~(inPend' = inPend /\ inBlkAvailCnt' = inBlkAvailCnt /\ hPc' = "idle")
    <3> DEFINE s == <<Rdy("DATA", InBlkSize)>>
    <3>1. /\ hPc = "data" /\ hPc' = "write" /\ inPend' = s /\ inPend = <<>>
          /\ inBlkAvailCnt' = inBlkAvailCnt - 1
          /\ UNCHANGED <<ctlIn, ctlOut, outMsgQue>>
      BY <1>7, <1>l, <2>2 DEF HSendDataChunk, HWriteThen, NextInBlks, hRecvVars, HReturn
    <3>2. /\ s \in Seq(CtrlMsg) /\ Len(s) = 1
          /\ \A i \in 1..Len(s) : s[i].cmd = "RDY" /\ s[i].ctl = "DATA"
      BY MsgType DEF Ctl, ParamAssumption, Rdy
    <3> HIDE DEF s
    <3>3. Paired(s) /\ Sized(s)
      BY <3>2 DEF Paired, Sized, ArgCall
    <3>4. Count("RDY", s) = 1 /\ Without({"AVL", "PARAM"}, s) /\ Without({"USER"}, s)
      BY <3>2, CountRdy
    <3> QED BY <1>s, <3>1, <3>2, <3>3, <3>4 DEF HSection, HStays
  <2> QED BY <2>1, <2>2
<1>8. CASE HWrite
  <2>1. HStays("next") /\ HStays("clear")
    BY <1>8, <1>t DEF HWrite, HostControl, hPcVars, HReturn, HStays
  <2> QED BY <1>8, <2>1 DEF HWrite, PutCtlIn, hRecvVars, HEffect, HPut
<1>9. CASE HQueCredit \/ HQueClear \/ HQueMsg
  BY <1>9, <1>t DEF HQueCredit, HQueClear, HQueMsg, HostControl, hPcVars, hSendVars, hRecvVars,
     shared, HEffect, HCounts, HClears, HTakes, HStays
<1>10. CASE HQueDone
  BY <1>10, <1>q, <1>t DEF HQueDone, HostControl, hSendVars, hRecvVars, shared, HQuiet, HStays
<1>11. CASE HRecvNothing \/ HRecvHostData \/ HHaltLoopAssert
  BY <1>11, <1>q DEF HRecvNothing, HRecvHostData, HHaltLoopAssert, HLooks, HReturn, hLookKeeps,
     hSendVars, HQuiet, HStays
<1>12. CASE HRecvHostMsg \/ HHaltLoopMsg
  <2>1. HRecvType = "eRecvHostMsg" /\ hPc = "look" /\ hPc' = "idle" /\ HPop
        /\ UNCHANGED <<ctlIn, inPend, inBlkAvailCnt, ctlOut>>
    BY <1>12 DEF HRecvHostMsg, HHaltLoopMsg, HLooks, HReturn, hLookKeeps, hSendVars
  <2> QED BY <1>r, <2>1 DEF HEffect, HPopsMsg, HStays
<1>13. CASE HRecvHostDataMarker \/ HRecvReturn \/ HRecvHalt \/ HHaltLoopBlk
  <2>1. HRecvType \in {"eRecvHostDataMarker", "eRecvHalt", "eRecvHostData", "eRecvReturn"}
        /\ hPc = "look" /\ hPc' = "next" /\ HPop
        /\ UNCHANGED <<ctlIn, inPend, inBlkAvailCnt, ctlOut>>
    BY <1>13 DEF HRecvHostDataMarker, HRecvReturn, HRecvHalt, HHaltLoopBlk, HLooks, HPopBlkThen,
       hLookKeeps, hSendVars
  <2> QED BY <1>r, <2>1 DEF HEffect, HPopsBlk
<1>14. CASE HRecvReturnArgs \/ HCopyData
  <2>1. HFrontIsData
    BY <1>14 DEF HRecvReturnArgs, HCopyData, HostFlow, HostFront, HArgsNext
  <2>2. CASE HPop /\ hPc' = "next"
    BY <1>14, <2>1, <2>2 DEF HRecvReturnArgs, HCopyData, HFrontIsData, hLookKeeps, hSendVars,
       HEffect, HPopsBlk
  <2>3. CASE ~(HPop /\ hPc' = "next")
    <3>1. hPc = "copy" /\ hPc' = "idle"
          /\ UNCHANGED <<ctlIn, inPend, inBlkAvailCnt, ctlOut, outMsgQue>>
      BY <1>14, <2>3 DEF HRecvReturnArgs, HCopyData, HPopBlkThen, HReturn, hSendVars
    <3> QED BY <1>q, <3>1 DEF HQuiet, HStays
  <2> QED BY <2>2, <2>3
<1>15. CASE HNextOutBlk
  BY <1>15, <1>l DEF HNextOutBlk, shared, HEffect, HGive
<1>16. CASE HostCall \/ HCallSendHostHalt \/ HCallHaltLoop \/ HClose
  BY <1>16, <1>q DEF HostCall, HCallSend, HBeginSend, HCallRecv, HCallRecvMarker, HCallRecvData,
     HBeginRecv, HDelete, HCallSendHostHalt, HCallHaltLoop, HClose, hPcVars, hSendVars, hRecvVars,
     shared, HQuiet, HStays
<1>17. CASE HTimerFlush
  <2>1. /\ hPc' = hPc /\ inPend' = HFlushMsgs /\ inPend = <<>> /\ inBlkWrIdx > 0
        /\ inBlkAvailCnt' = inBlkAvailCnt - 1
        /\ UNCHANGED <<ctlIn, ctlOut, outMsgQue>>
    BY <1>17, <1>l DEF HTimerFlush, NextInBlks, hPcVars, hRecvVars, shared
  <2> QED BY <1>f, <1>s, <2>1 DEF HSection, HStays
<1>18. CASE HTimerWrite
  BY <1>18 DEF HTimerWrite, PutCtlIn, hPcVars, hRecvVars, HEffect, HPut, HStays
<1> QED BY <1>1, <1>2, <1>3, <1>4, <1>5, <1>6, <1>7, <1>8, <1>9, <1>10, <1>11, <1>12, <1>13,
           <1>14, <1>15, <1>16, <1>17, <1>18
        DEF HostStep, HostSendStep, HostRecvStep, HostTimerStep

\* What a step of the host does to the streams keeps calls and their arguments
\* together in both.
LEMMA HostEffectsKeepFlow ==
  ASSUME QueuesTyped, InFlow, OutFlow, HEffect, UNCHANGED <<inMsgQue, outPend>>
  PROVE  InFlow' /\ OutFlow'
<1>i. ctlIn \in Seq(CtrlMsg) /\ inPend \in Seq(CtrlMsg) /\ inMsgQue \in Seq(CtrlMsg)
  BY DEF QueuesTyped
<1>o. ctlOut \in Seq(CtrlMsg) /\ outPend \in Seq(CtrlMsg) /\ outMsgQue \in Seq(CtrlMsg)
  BY DEF QueuesTyped
<1> DEFINE b == ctlOut \o outPend
<1>b. b \in Seq(CtrlMsg)
  BY <1>o, StreamIndex
<1>1. ASSUME UNCHANGED <<ctlIn, inPend>> PROVE InFlow'
  BY <1>1 DEF InFlow, InStream
<1>2. ASSUME UNCHANGED <<ctlOut, outMsgQue>> PROVE OutFlow'
  BY <1>2 DEF OutFlow, OutStream
<1>3. ASSUME inPend = <<>>, inPend' \in Seq(CtrlMsg), ctlIn' = ctlIn,
             Paired(inPend'), Sized(inPend'), Without({"PARAM"}, inPend')
      PROVE  InFlow'
  <2> DEFINE before == inMsgQue \o ctlIn
  <2>1. before \in Seq(CtrlMsg) /\ InStream = before
    BY <1>3, <1>i, StreamIndex DEF InStream
  <2>2. InStream' = before \o inPend'
    <3>1. inMsgQue' = inMsgQue /\ ctlIn' = ctlIn
      BY <1>3
    <3> DEFINE q == inPend'
    <3>2. q \in Seq(CtrlMsg)
      BY <1>3
    <3>3. InStream' = inMsgQue \o (ctlIn \o q)
      BY <3>1 DEF InStream
    <3> HIDE DEF q
    <3>4. \A r \in Seq(CtrlMsg) : inMsgQue \o (ctlIn \o r) = (inMsgQue \o ctlIn) \o r
      BY <1>i, ConcatAssociative, SMTT(30)
    <3> QED BY <3>2, <3>3, <3>4 DEF q
  <2> HIDE DEF before
  <2>3. Paired(before \o inPend') /\ Sized(before \o inPend')
    BY <1>3, <2>1, PairedConcat DEF InFlow
  <2> QED BY <1>3, <2>2, <2>3 DEF InFlow
<1>4. CASE HQuiet \/ HCounts
  BY <1>1, <1>2, <1>4 DEF HQuiet, HCounts
<1>5. CASE HSection
  BY <1>2, <1>3, <1>5 DEF HSection, Without
<1>6. CASE HGive
  <2>1. <<AvlMsg>> \in Seq(CtrlMsg)
    BY MsgType
  <2>2. Paired(<<AvlMsg>>) /\ Sized(<<AvlMsg>>) /\ Without({"PARAM"}, <<AvlMsg>>)
    BY DEF Paired, Sized, Without, ArgCall, AvlMsg
  <2> QED BY <1>2, <1>3, <1>6, <2>1, <2>2 DEF HGive
<1>7. CASE HPut
  <2>1. ctlIn' \o inPend' = ctlIn \o inPend
    BY <1>7, <1>i, MoveHead DEF HPut
  <2>2. Without({"PARAM"}, inPend')
    BY <1>7, <1>i, PairedTail DEF HPut, InFlow
  <2>3. InFlow'
    BY <2>1, <2>2 DEF InFlow, InStream
  <2> QED BY <1>2, <1>7, <2>3 DEF HPut
<1>8. CASE HClears
  <2>1. Tail(ctlOut) \o outPend = Tail(b) /\ Head(b) = Head(ctlOut) /\ b # <<>>
    BY <1>8, <1>o, StreamTail DEF HClears
  <2>2. OutStream' = outMsgQue \o Tail(b) /\ OutStream = outMsgQue \o b
    BY <1>8, <2>1 DEF HClears, OutStream
  <2> HIDE DEF b
  <2>3. Head(b).cmd # "RDY"
    BY <1>8, <2>1 DEF HClears
  <2>4. Paired(OutStream') /\ Sized(OutStream') /\ Without({"PARAM"}, OutStream')
    BY <1>b, <1>o, <2>1, <2>2, <2>3, PairedDrop DEF OutFlow
  <2> QED BY <1>1, <1>8, <2>4 DEF HClears, OutFlow
<1>9. CASE HTakes
  <2>1. Tail(ctlOut) \o outPend = Tail(b) /\ Head(b) = Head(ctlOut) /\ b # <<>>
    BY <1>9, <1>o, StreamTail DEF HTakes
  <2>2. OutStream' = Append(outMsgQue, Head(b)) \o Tail(b) /\ OutStream = outMsgQue \o b
    BY <1>9, <2>1 DEF HTakes, OutStream
  <2> HIDE DEF b
  <2>3. OutStream' = OutStream
    BY <1>b, <1>o, <2>1, <2>2, MoveHead
  <2>4. Without({"AVL"}, outMsgQue')
    <3>1. Head(ctlOut) \in CtrlMsg /\ Head(ctlOut).cmd # "AVL"
          /\ outMsgQue' = Append(outMsgQue, Head(ctlOut))
      BY <1>9, <1>o DEF HTakes
    <3>2. \A i \in 1..Len(outMsgQue') :
            outMsgQue'[i] = Head(ctlOut) \/ (i \in 1..Len(outMsgQue) /\ outMsgQue'[i] = outMsgQue[i])
      BY <1>o, <3>1
    <3> QED BY <3>1, <3>2 DEF OutFlow, Without
  <2> QED BY <1>1, <1>9, <2>3, <2>4 DEF HTakes, OutFlow
<1>10. CASE HPopsMsg \/ HPopsBlk
  <2>1. outMsgQue # <<>> /\ outMsgQue' = Tail(outMsgQue) /\ UNCHANGED <<ctlIn, inPend, ctlOut>>
    BY <1>10 DEF HPopsMsg, HPopsBlk, HPop
  <2>2. OutStream' = Tail(OutStream) /\ OutStream # <<>> /\ OutStream \in Seq(CtrlMsg)
    BY <1>b, <1>o, <2>1, StreamTail, StreamIndex DEF OutStream
  <2>3. Paired(OutStream') /\ Sized(OutStream') /\ Without({"PARAM"}, OutStream')
    BY <2>2, PairedTail DEF OutFlow
  <2>4. Without({"AVL"}, outMsgQue')
    BY <1>o, <2>1, PairedTail DEF OutFlow
  <2> QED BY <1>1, <2>1, <2>3, <2>4 DEF OutFlow
<1> QED BY <1>4, <1>5, <1>6, <1>7, <1>8, <1>9, <1>10 DEF HEffect

\* Nor does it lose a block or count one twice.
LEMMA HostEffectsKeepCredit ==
  ASSUME QueuesTyped,
         inBlkAvailCnt \in Nat, outBlkAvailCnt \in Nat,
         CreditConserved, HEffect, UNCHANGED modelVars
  PROVE  CreditConserved'
<1>m. UNCHANGED <<inMsgQue, outPend, outBlkAvailCnt, mPc>>
  BY DEF modelVars, mPcVars, mSendVars, mRecvVars
<1>c. /\ Count("RDY", ctlIn) \in Nat /\ Count("AVL", ctlIn) \in Nat
      /\ Count("RDY", inPend) \in Nat /\ Count("AVL", inPend) \in Nat
      /\ Count("RDY", ctlOut) \in Nat /\ Count("AVL", ctlOut) \in Nat
      /\ Count("RDY", outPend) \in Nat /\ Count("AVL", outPend) \in Nat
      /\ Count("RDY", inMsgQue) \in Nat /\ Count("RDY", outMsgQue) \in Nat
  BY CountType DEF QueuesTyped
<1>e. inPend = <<>> => Count("RDY", inPend) = 0 /\ Count("AVL", inPend) = 0
  BY CountEmpty
<1> DEFINE nx == One(hPc = "next")
           cl == One(hPc = "clear")
           mnx == One(mPc = "next")
           mcl == One(mPc = "clear")
<1>n. nx \in {0, 1} /\ nx' \in {0, 1} /\ cl \in {0, 1} /\ cl' \in {0, 1}
      /\ mnx \in {0, 1} /\ mcl \in {0, 1} /\ mnx' = mnx /\ mcl' = mcl
  BY <1>m DEF One
<1>h. ASSUME HStays("next"), HStays("clear") PROVE nx' = nx /\ cl' = cl
  BY <1>h DEF HStays, One
<1>i. /\ InCredit = inBlkAvailCnt + Count("RDY", inPend) + Count("RDY", ctlIn)
                    + Count("RDY", inMsgQue) + mnx + Count("AVL", outPend)
                    + Count("AVL", ctlOut) - cl
      /\ InCredit' = inBlkAvailCnt' + Count("RDY", inPend') + Count("RDY", ctlIn')
                    + Count("RDY", inMsgQue') + mnx' + Count("AVL", outPend')
                    + Count("AVL", ctlOut') - cl'
  BY DEF InCredit
<1>j. /\ OutCredit = outBlkAvailCnt + Count("RDY", outPend) + Count("RDY", ctlOut)
                    + Count("RDY", outMsgQue) + nx + Count("AVL", inPend)
                    + Count("AVL", ctlIn) - mcl
      /\ OutCredit' = outBlkAvailCnt' + Count("RDY", outPend') + Count("RDY", ctlOut')
                    + Count("RDY", outMsgQue') + nx' + Count("AVL", inPend')
                    + Count("AVL", ctlIn') - mcl'
  BY DEF OutCredit
<1> HIDE DEF nx, cl, mnx, mcl
\* What each step has to leave alone.
<1> DEFINE InSum == inBlkAvailCnt + Count("RDY", inPend) + Count("RDY", ctlIn)
                    + Count("AVL", ctlOut) - cl
           OutSum == Count("RDY", ctlOut) + Count("RDY", outMsgQue) + nx
                     + Count("AVL", inPend) + Count("AVL", ctlIn)
<1>g. ASSUME InSum' = InSum, OutSum' = OutSum, inBlkAvailCnt' \in Int,
             Count("RDY", inPend') \in Nat, Count("RDY", ctlIn') \in Nat,
             Count("AVL", inPend') \in Nat, Count("AVL", ctlIn') \in Nat,
             Count("RDY", ctlOut') \in Nat, Count("AVL", ctlOut') \in Nat,
             Count("RDY", outMsgQue') \in Nat
      PROVE  CreditConserved'
  <2>2. InCredit' = InCredit
    <3> DEFINE rest == Count("RDY", inMsgQue) + mnx + Count("AVL", outPend)
    <3>1. InCredit = InSum + rest
      BY <1>c, <1>n, <1>i
    <3>2. InCredit' = InSum' + rest'
      BY <1>c, <1>n, <1>i, <1>g, <1>m
    <3>3. rest' = rest
      BY <1>m, <1>n
    <3> QED BY <1>g, <3>1, <3>2, <3>3
  <2>3. OutCredit' = OutCredit
    <3> DEFINE rest == outBlkAvailCnt + Count("RDY", outPend) - mcl
    <3>1. OutCredit = OutSum + rest
      BY <1>c, <1>n, <1>j
    <3>2. OutCredit' = OutSum' + rest'
      BY <1>c, <1>n, <1>j, <1>g, <1>m
    <3>3. rest' = rest
      BY <1>m, <1>n
    <3> QED BY <1>g, <3>1, <3>2, <3>3
  <2> QED BY <2>2, <2>3 DEF CreditConserved
<1>1. CASE HQuiet
  <2>1. nx' = nx /\ cl' = cl
    BY <1>h, <1>1 DEF HQuiet
  <2> QED BY <1>c, <1>g, <1>1, <2>1 DEF HQuiet
<1>2. CASE HSection
  <2>1. Count("AVL", inPend') = 0 /\ Count("RDY", inPend') \in Nat
    BY <1>2, CountWithout, CountType DEF HSection
  <2>2. nx' = nx /\ cl' = cl
    BY <1>h, <1>2 DEF HSection
  <2>3. /\ inBlkAvailCnt' = inBlkAvailCnt - Count("RDY", inPend')
        /\ Count("RDY", inPend) = 0 /\ Count("AVL", inPend) = 0
        /\ UNCHANGED <<ctlIn, ctlOut, outMsgQue>>
    BY <1>e, <1>2 DEF HSection
  <2> QED BY <1>c, <1>n, <1>g, <2>1, <2>2, <2>3
<1>3. CASE HGive
  <2>1. Count("AVL", inPend') = 1 /\ Count("RDY", inPend') = 0
    <3>1. AvlMsg \in CtrlMsg /\ inPend' = <<AvlMsg>> /\ AvlMsg.cmd = "AVL"
      BY <1>3, MsgType DEF HGive, AvlMsg
    <3>2. Count("AVL", <<AvlMsg>>) = One(AvlMsg.cmd = "AVL")
          /\ Count("RDY", <<AvlMsg>>) = One(AvlMsg.cmd = "RDY")
      BY <3>1, CountSingle
    <3> QED BY <3>1, <3>2 DEF One
  <2>2. /\ nx = 1 /\ nx' = 0
        /\ cl = 0 /\ cl' = 0
    BY <1>3 DEF HGive, One, nx, cl
  <2>3. /\ Count("RDY", inPend) = 0 /\ Count("AVL", inPend) = 0
        /\ UNCHANGED <<ctlIn, inBlkAvailCnt, ctlOut, outMsgQue>>
    BY <1>e, <1>3 DEF HGive
  <2> QED BY <1>c, <1>g, <2>1, <2>2, <2>3
<1>4. CASE HPut
  <2>1. \A c : Count(c, ctlIn') + Count(c, inPend') = Count(c, ctlIn) + Count(c, inPend)
               /\ Count(c, ctlIn') \in Nat /\ Count(c, inPend') \in Nat
    <3>0. Head(inPend) \in CtrlMsg /\ Tail(inPend) \in Seq(CtrlMsg) /\ inPend # <<>>
          /\ ctlIn' = Append(ctlIn, Head(inPend)) /\ inPend' = Tail(inPend)
      BY <1>4 DEF QueuesTyped, HPut
    <3>1. SUFFICES ASSUME NEW c
                   PROVE  Count(c, ctlIn') + Count(c, inPend') = Count(c, ctlIn) + Count(c, inPend)
                          /\ Count(c, ctlIn') \in Nat /\ Count(c, inPend') \in Nat
      OBVIOUS
    <3> DEFINE o == One(Head(inPend).cmd = c)
    <3>2. Count(c, inPend) = o + Count(c, Tail(inPend))
      BY <3>0, CountHead DEF QueuesTyped
    <3>3. Count(c, Append(ctlIn, Head(inPend))) = Count(c, ctlIn) + o
      BY <3>0, CountAppend DEF QueuesTyped
    <3>4. Count(c, Tail(inPend)) \in Nat /\ Count(c, ctlIn) \in Nat
      BY <3>0, CountType DEF QueuesTyped
    <3>5. o \in Nat
      BY DEF One
    <3> HIDE DEF o
    <3> QED BY <3>0, <3>2, <3>3, <3>4, <3>5
  <2>2. nx' = nx /\ cl' = cl
    BY <1>h, <1>4 DEF HPut
  <2>3. UNCHANGED <<inBlkAvailCnt, ctlOut, outMsgQue>>
    BY <1>4 DEF HPut
  <2>4. Count("RDY", ctlIn') + Count("RDY", inPend') = Count("RDY", ctlIn) + Count("RDY", inPend)
        /\ Count("AVL", ctlIn') + Count("AVL", inPend') = Count("AVL", ctlIn) + Count("AVL", inPend)
        /\ Count("RDY", ctlIn') \in Nat /\ Count("RDY", inPend') \in Nat
        /\ Count("AVL", ctlIn') \in Nat /\ Count("AVL", inPend') \in Nat
    BY <2>1
  <2>5. InSum' = InSum /\ OutSum' = OutSum
    <3>1. InSum' = inBlkAvailCnt + Count("RDY", inPend') + Count("RDY", ctlIn')
                   + Count("AVL", ctlOut) - cl
      BY <2>2, <2>3
    <3>2. OutSum' = Count("RDY", ctlOut) + Count("RDY", outMsgQue) + nx
                    + Count("AVL", inPend') + Count("AVL", ctlIn')
      BY <2>2, <2>3
    <3>3. InSum' = InSum
      BY <1>c, <1>n, <2>4, <3>1
    <3>4. OutSum' = OutSum
      BY <1>c, <1>n, <2>4, <3>2
    <3> QED BY <3>3, <3>4
  <2> QED BY <1>c, <1>g, <2>3, <2>4, <2>5
<1>5. CASE HCounts
  <2>1. /\ nx = 0 /\ nx' = 0
        /\ cl = 0 /\ cl' = 1
    BY <1>5 DEF HCounts, One, nx, cl
  <2> QED BY <1>c, <1>g, <1>5, <2>1 DEF HCounts
<1>6. CASE HClears
  <2>0. Head(ctlOut) \in CtrlMsg /\ Tail(ctlOut) \in Seq(CtrlMsg) /\ ctlOut # <<>>
        /\ ctlOut' = Tail(ctlOut) /\ Head(ctlOut).cmd = "AVL"
    BY <1>6 DEF QueuesTyped, HClears
  <2>1. Count("RDY", ctlOut) = One(Head(ctlOut).cmd = "RDY") + Count("RDY", ctlOut')
        /\ Count("AVL", ctlOut) = One(Head(ctlOut).cmd = "AVL") + Count("AVL", ctlOut')
    BY <2>0, CountHead DEF QueuesTyped
  <2>2. Count("RDY", ctlOut') \in Nat /\ Count("AVL", ctlOut') \in Nat
    BY <2>0, CountType
  <2>3. One(Head(ctlOut).cmd = "RDY") = 0 /\ One(Head(ctlOut).cmd = "AVL") = 1
    BY <2>0 DEF One
  <2>4. /\ nx = 0 /\ nx' = 0
        /\ cl = 1 /\ cl' = 0
    BY <1>6 DEF HClears, One, nx, cl
  <2>5. Count("RDY", ctlOut') = Count("RDY", ctlOut) /\ Count("AVL", ctlOut) = 1 + Count("AVL", ctlOut')
    BY <2>1, <2>2, <2>3
  <2>6. UNCHANGED <<ctlIn, inPend, inBlkAvailCnt, outMsgQue>>
    BY <1>6 DEF HClears
  <2> QED BY <1>c, <1>g, <2>2, <2>4, <2>5, <2>6
<1>7. CASE HTakes
  <2>0. Head(ctlOut) \in CtrlMsg /\ Tail(ctlOut) \in Seq(CtrlMsg) /\ ctlOut # <<>>
        /\ outMsgQue' = Append(outMsgQue, Head(ctlOut)) /\ ctlOut' = Tail(ctlOut)
        /\ Head(ctlOut).cmd # "AVL"
    BY <1>7 DEF QueuesTyped, HTakes
  <2> DEFINE r == One(Head(ctlOut).cmd = "RDY")
  <2>1. Count("RDY", ctlOut) = r + Count("RDY", ctlOut')
        /\ Count("AVL", ctlOut) = One(Head(ctlOut).cmd = "AVL") + Count("AVL", ctlOut')
    BY <2>0, CountHead DEF QueuesTyped
  <2>2. Count("RDY", outMsgQue') = Count("RDY", outMsgQue) + r
    BY <2>0, CountAppend DEF QueuesTyped
  <2>3. Count("RDY", ctlOut') \in Nat /\ Count("AVL", ctlOut') \in Nat
    BY <2>0, CountType
  <2>4. r \in Nat /\ One(Head(ctlOut).cmd = "AVL") = 0
    BY <2>0 DEF One
  <2> HIDE DEF r
  <2>5. Count("AVL", ctlOut') = Count("AVL", ctlOut)
        /\ Count("RDY", ctlOut') + Count("RDY", outMsgQue')
             = Count("RDY", ctlOut) + Count("RDY", outMsgQue)
        /\ Count("RDY", outMsgQue') \in Nat
    <3>1. Count("AVL", ctlOut') = Count("AVL", ctlOut)
      BY <2>1, <2>3, <2>4
    <3>2. Count("RDY", outMsgQue') \in Nat
      BY <1>c, <2>2, <2>4
    <3>3. Count("RDY", ctlOut') + (Count("RDY", outMsgQue) + r)
             = Count("RDY", ctlOut) + Count("RDY", outMsgQue)
      BY <1>c, <2>1, <2>3, <2>4, OneMoves
    <3> QED BY <2>2, <3>1, <3>2, <3>3
  <2>6. nx' = nx /\ cl' = cl
    BY <1>h, <1>7 DEF HTakes
  <2>7. UNCHANGED <<ctlIn, inPend, inBlkAvailCnt>>
    BY <1>7 DEF HTakes
  <2>8. InSum' = InSum /\ OutSum' = OutSum
    BY <1>c, <1>n, <2>3, <2>5, <2>6, <2>7
  <2> QED BY <1>c, <1>g, <2>3, <2>5, <2>7, <2>8
<1>8. CASE HPopsMsg \/ HPopsBlk
  <2>0. Tail(outMsgQue) \in Seq(CtrlMsg) /\ outMsgQue # <<>> /\ outMsgQue' = Tail(outMsgQue)
        /\ UNCHANGED <<ctlIn, inPend, inBlkAvailCnt, ctlOut>>
    BY <1>8 DEF QueuesTyped, HPopsMsg, HPopsBlk, HPop
  <2> DEFINE r == One(Head(outMsgQue).cmd = "RDY")
  <2>1. Count("RDY", outMsgQue) = r + Count("RDY", outMsgQue')
    BY <2>0, CountHead DEF QueuesTyped
  <2>2. Count("RDY", outMsgQue') \in Nat
    BY <2>0, CountType
  <2>3. CASE HPopsMsg
    <3>1. r = 0
      BY <2>3 DEF HPopsMsg, One
    <3>2. nx' = nx /\ cl' = cl
      BY <1>h, <2>3 DEF HPopsMsg
    <3> HIDE DEF r
    <3>3. Count("RDY", outMsgQue') = Count("RDY", outMsgQue)
      BY <2>1, <2>2, <3>1
    <3> QED BY <1>c, <1>g, <2>0, <2>2, <3>2, <3>3
  <2>4. CASE HPopsBlk
    <3>1. r = 1
      BY <2>4 DEF HPopsBlk, One
    <3>2. /\ nx = 0 /\ nx' = 1
          /\ cl = 0 /\ cl' = 0
      BY <2>4 DEF HPopsBlk, One, nx, cl
    <3> HIDE DEF r
    <3> QED BY <1>c, <1>g, <2>0, <2>1, <2>2, <3>1, <3>2, SMTT(30)
  <2> QED BY <1>8, <2>3, <2>4
<1> QED BY <1>1, <1>2, <1>3, <1>4, <1>5, <1>6, <1>7, <1>8 DEF HEffect

\* The host's calls go on as they began.
LEMMA HostKeepsCalls ==
  ASSUME ParamAssumption, HostInv, HostCalls, HostStep
  PROVE  HostCalls'
<1>t. HostControl /\ inBlkWrIdx \in Nat
  BY DEF HostInv, HostTypeOK, ParamAssumption
<1>o. HostOps \cap {"SendHostHalt", "HaltLoop", "none"} = {}
  BY DEF ParamAssumption, SendOps, RecvOps
<1>r. ASSUME HReturn PROVE HostCalls'
  BY <1>r DEF HReturn, HostCalls, HCtlOp
<1>1. CASE HSendHostMsg \/ HFlushHostData \/ HSendDataLock \/ HSendDataNoCredit \/ HSendDataRetry
  <2>1. CASE ~HReturn
    BY <1>1, <2>1 DEF HSendHostMsg, HFlushHostData, HSendDataLock, HSendDataNoCredit,
       HSendDataRetry, HWriteThen, NextInBlks, HostCalls, HCtlOp
  <2> QED BY <1>r, <2>1
<1>2. CASE HSendCtlFirst \/ HSendCtlRetry
  <2>1. CASE ~HReturn
    <3>1. /\ hPc \in {"lock", "relock"} /\ hPc' = "write" /\ hThen' = "idle" /\ hOp' = hOp
          /\ HCtlOp
          /\ hPhase' = IF hOp = "SendHostHalt" THEN "drain" ELSE hPhase
      BY <1>2, <2>1 DEF HSendCtlFirst, HSendCtlRetry, HSendCtl, HWriteThen
    <3> QED BY <3>1 DEF HostCalls, HCtlOp
  <2> QED BY <1>r, <2>1
<1>3. CASE HSendCtlNoCredit
  <2>1. /\ hPc = "lock" /\ HCtlOp /\ hOp' = hOp /\ hPhase' = hPhase /\ inBlkWrIdx' = 0
        /\ \/ hPc' = "que" /\ hThen' = "relock"
           \/ hPc' = "write" /\ hThen' = "que"
    BY <1>3 DEF HSendCtlNoCredit, hSendVars, HWriteThen, NextInBlks
  <2> QED BY <2>1 DEF HostCalls, HCtlOp
<1>4. CASE HSendDataChunk
  <2>1. CASE ~HReturn
    <3>1. /\ hPc = "data" /\ hPc' = "write" /\ hThen' \in {"idle", "data"} /\ hOp' = hOp
          /\ hPhase' = hPhase
      BY <1>4, <2>1 DEF HSendDataChunk, HWriteThen
    <3> QED BY <3>1 DEF HostCalls, HCtlOp
  <2> QED BY <1>r, <2>1
<1>5. CASE HWrite
  <2>1. CASE ~HReturn
    <3>1. /\ hPc = "write" /\ hOp' = hOp /\ hPhase' = hPhase /\ inBlkWrIdx' = inBlkWrIdx
          /\ \/ hPc' = hPc /\ hThen' = hThen
             \/ /\ hThen # "idle" /\ hPc' = hThen
                /\ hThen' = IF hThen # "que" THEN "idle"
                              ELSE IF hOp = "RecvHostData" THEN "look" ELSE "relock"
      BY <1>5, <2>1 DEF HWrite, PutCtlIn, hPcVars
    <3>2. hThen \in {"idle", "data", "que", "args"}
      BY <1>t, <3>1 DEF HostControl
    <3> QED BY <3>1, <3>2 DEF HostCalls, HCtlOp
  <2> QED BY <1>r, <2>1
<1>6. CASE HQueCredit \/ HQueClear \/ HQueMsg \/ HQueDone
  BY <1>6, <1>t DEF HQueCredit, HQueClear, HQueMsg, HQueDone, HostControl, hPcVars, hSendVars,
     HostCalls, HCtlOp
<1>7. CASE \/ HRecvNothing \/ HRecvHostMsg \/ HRecvHostDataMarker \/ HRecvReturn
           \/ HRecvReturnArgs \/ HRecvHalt \/ HHaltLoopMsg \/ HHaltLoopBlk \/ HHaltLoopAssert
           \/ HRecvHostData \/ HCopyData
  <2>1. CASE ~HReturn
    <3>1. /\ hPc \in {"look", "args", "copy"} /\ hOp' = hOp /\ hPhase' = hPhase
          /\ \/ hPc' = "next" /\ hThen' \in {"idle", "que"}
             \/ hPc' = "next" /\ hThen' = "args" /\ hOp = "RecvReturn"
             \/ hPc' = "copy" /\ hThen' = hThen /\ hOp = "RecvHostData"
             \/ hPc' = "assert" /\ hThen' = hThen
      BY <1>7, <2>1 DEF HRecvNothing, HRecvHostMsg, HRecvHostDataMarker, HRecvReturn,
         HRecvReturnArgs, HRecvHalt, HHaltLoopMsg, HHaltLoopBlk, HHaltLoopAssert, HRecvHostData,
         HCopyData, HLooks, HPopBlkThen, hLookKeeps
    <3> QED BY <3>1 DEF HostCalls, HCtlOp
  <2> QED BY <1>r, <2>1
<1>8. CASE HNextOutBlk
  <2>1. hPc = "next" /\ hPc' = "write" /\ hThen' = hThen /\ hOp' = hOp /\ hPhase' = hPhase
    BY <1>8 DEF HNextOutBlk
  <2> QED BY <2>1 DEF HostCalls, HCtlOp
<1>9. CASE HostCall
  <2>1. CASE HDelete
    BY <2>1 DEF HDelete, hPcVars, HostCalls, HCtlOp
  <2>2. CASE HCallSend
    <3>1. hPhase' = "run" /\ hPc' = "lock" /\ hThen' = "idle" /\ hOp' \in HostOps
      BY <2>2 DEF HCallSend, HBeginSend
    <3> QED BY <1>o, <3>1 DEF HostCalls, HCtlOp
  <2>3. CASE HCallRecv \/ HCallRecvMarker \/ HCallRecvData
    <3>1. /\ hPhase' = "run"
          /\ \/ hPc' = "que" /\ hThen' = "look"
             \/ hPc' = "copy" /\ hThen' = "idle" /\ hOp' = "RecvHostData"
          /\ hOp' \in {"RecvHostMsg", "RecvPoll", "RecvReturn", "RecvHostDataMarker",
                       "RecvHostData"}
      BY <2>3 DEF HCallRecv, HCallRecvMarker, HCallRecvData, HBeginRecv
    <3> QED BY <3>1 DEF HostCalls, HCtlOp
  <2> QED BY <1>9, <2>1, <2>2, <2>3 DEF HostCall
<1>10. CASE HCallSendHostHalt
  <2>1. hPhase' = "halt" /\ hPc = "idle" /\ hPc' = "lock" /\ hThen' = hThen /\ hOp' = "SendHostHalt"
    BY <1>10 DEF HCallSendHostHalt
  <2> QED BY <2>1 DEF HostCalls, HCtlOp
<1>11. CASE HCallHaltLoop
  <2>1. hPhase' \in {"halt", "drain"} /\ hPc' = "que" /\ hThen' = "look" /\ hOp' = "HaltLoop"
    BY <1>11 DEF HCallHaltLoop, HBeginRecv
  <2> QED BY <2>1 DEF HostCalls, HCtlOp
<1>12. CASE HClose
  BY <1>12 DEF HClose, hPcVars, HostCalls, HCtlOp
<1>13. CASE HostTimerStep
  BY <1>13 DEF HostTimerStep, HTimerFlush, HTimerWrite, PutCtlIn, NextInBlks, hPcVars,
     HostCalls, HCtlOp
<1> QED BY <1>1, <1>2, <1>3, <1>4, <1>5, <1>6, <1>7, <1>8, <1>9, <1>10, <1>11, <1>12, <1>13
        DEF HostStep, HostSendStep, HostRecvStep

\* What the host reads at its front it goes on reading, and RecvReturn finds
\* the arguments after the return.
LEMMA HostKeepsFront ==
  ASSUME ParamAssumption, QueuesTyped, HostInv, OutFlow, HostCalls, HostFront, HostStep
  PROVE  HostFront'
<1>t. /\ HostControl /\ hN \in Nat /\ outBlkDataSize \in Nat /\ outBlkRdIdx \in Nat
      /\ recvRtnArgc \in Nat
  BY DEF HostInv, HostTypeOK
<1>q. outMsgQue # <<>> => Head(outMsgQue) \in CtrlMsg /\ Head(outMsgQue).arg \in Nat
  <2>1. outMsgQue # <<>> => Head(outMsgQue) \in CtrlMsg
    BY DEF QueuesTyped
  <2> QED BY <2>1 DEF CtrlMsg
<1>r. /\ HRecvType = "eRecvHostMsg" => Head(outMsgQue).cmd = "USER"
      /\ HRecvType = "eRecvHostDataMarker" => Head(outMsgQue).ctl = "NULL"
      /\ HRecvType = "eRecvHalt" => Head(outMsgQue).ctl = "HALT"
      /\ HRecvType = "eRecvHostData" => HFrontIsData
      /\ HRecvType = "eRecvReturn" =>
           /\ outMsgQue # <<>> /\ Head(outMsgQue).cmd = "RDY"
           /\ \/ Head(outMsgQue).ctl = "DATA" /\ recvRtnArgc > 0
              \/ Head(outMsgQue).ctl = "CALL" /\ HArgsThere(Head(outMsgQue))
  <2>1. outMsgQue \in Seq(CtrlMsg)
    BY DEF QueuesTyped
  <2> QED BY <1>t, <2>1, HRecvTypes DEF HFrontIsData
\* The receiving side is left alone, and not entered.
<1>k. ASSUME UNCHANGED hRecvVars, hPhase' = hPhase \/ hPhase' # "run",
             ~HArgsNext, ~HArgsNext', hPc \notin {"next"}, hPc' \notin {"next", "copy"}
      PROVE  HostFront'
  BY <1>k DEF HostFront, hRecvVars, HFrontIsData
<1>1. CASE HSendHostMsg \/ HFlushHostData \/ HSendDataLock \/ HSendDataNoCredit
           \/ HSendDataRetry \/ HSendDataChunk \/ HSendCtlFirst \/ HSendCtlNoCredit \/ HSendCtlRetry
  <2>1. /\ UNCHANGED hRecvVars /\ (hPhase' = hPhase \/ hPhase' # "run")
        /\ hPc \in {"lock", "relock", "data"} /\ hPc' \in {"idle", "write", "data", "que"}
        /\ hThen' # "args" \/ hPc' = "data"
    BY <1>1 DEF HSendHostMsg, HFlushHostData, HSendDataLock, HSendDataNoCredit, HSendDataRetry,
       HSendDataChunk, HSendCtlFirst, HSendCtlNoCredit, HSendCtlRetry, HSendCtl, HReturn, HWriteThen
  <2> QED BY <1>k, <2>1 DEF HArgsNext
<1>2. CASE HWrite
  <2>1. /\ UNCHANGED <<hPhase, hRecvVars>> /\ hPc = "write"
        /\ \/ hPc' = hPc /\ hThen' = hThen
           \/ hThen = "idle" /\ HReturn
           \/ hThen # "idle" /\ hPc' = hThen /\ hThen' # "args"
    BY <1>2 DEF HWrite, PutCtlIn, hPcVars
  <2>2. hThen \in {"idle", "data", "que", "args"}
    BY <1>t, <2>1 DEF HostControl
  <2> QED BY <2>1, <2>2 DEF HostFront, HArgsNext, hRecvVars, HFrontIsData, HReturn
<1>3. CASE HQueCredit \/ HQueClear \/ HQueDone
  <2>1. /\ UNCHANGED <<hPhase, hRecvVars>> /\ hPc \in {"que", "clear"}
        /\ hPc' \in {"que", "clear", "relock", "look"}
    BY <1>3, <1>t DEF HQueCredit, HQueClear, HQueDone, HostControl
  <2> QED BY <1>k, <2>1 DEF HArgsNext
<1>4. CASE HQueMsg
  <2>1. /\ UNCHANGED <<hPhase, hPcVars, outBlkDataSize, outBlkRdIdx, recvRtnArgc>>
        /\ ctlOut # <<>> /\ outMsgQue' = Append(outMsgQue, Head(ctlOut))
    BY <1>4 DEF HQueMsg
  <2>2. outMsgQue # <<>> => outMsgQue' # <<>> /\ Head(outMsgQue') = Head(outMsgQue)
    BY <2>1, HeadOfAppend, SMTT(30) DEF QueuesTyped
  <2> QED BY <2>1, <2>2 DEF HostFront, HArgsNext, HFrontIsData, hPcVars
<1>5. CASE HRecvNothing
  <2>1. /\ hPc = "look" /\ HReturn /\ HSeeFront
        /\ UNCHANGED <<hPhase, outMsgQue, recvRtnArgc, outBlkRdIdx>>
    BY <1>5 DEF HRecvNothing, hLookKeeps
  <2> QED BY <1>t, <1>q, <2>1 DEF HostFront, HArgsNext, HFrontIsData, HReturn, HSeeFront
<1>6. CASE HRecvHostData
  <2>1. /\ hPc = "look" /\ hPc' = "copy" /\ HSeeFront /\ hPhase = "run" /\ HFrontIsData
        /\ UNCHANGED <<hPhase, outMsgQue, recvRtnArgc, outBlkRdIdx>>
    BY <1>6, <1>r DEF HRecvHostData, hLookKeeps, HLooks, HostCalls
  <2> QED BY <1>t, <1>q, <2>1 DEF HostFront, HArgsNext, HFrontIsData, HSeeFront
<1>7. CASE HRecvHostMsg \/ HHaltLoopMsg \/ HRecvHostDataMarker \/ HRecvHalt
  <2>1. /\ hPc = "look" /\ hPc' \in {"idle", "next"} /\ hThen' = "idle"
        /\ UNCHANGED <<hPhase, recvRtnArgc, outBlkDataSize, outBlkRdIdx>>
        /\ ~HFrontIsData
    BY <1>7, <1>r DEF HRecvHostMsg, HHaltLoopMsg, HRecvHostDataMarker, HRecvHalt, HLooks,
       HReturn, HPopBlkThen, hLookKeeps, HFrontIsData
  <2> QED BY <1>t, <2>1 DEF HostFront, HArgsNext
<1>8. CASE HRecvReturn
  <2> DEFINE argc == Head(outMsgQue).arg
  <2>1. /\ hPc = "look" /\ hPc' = "next" /\ hPhase = "run"
        /\ hThen' = IF argc = 0 THEN "idle" ELSE "args"
        /\ recvRtnArgc' = argc /\ outMsgQue' = Tail(outMsgQue)
        /\ HRecvType = "eRecvReturn"
        /\ UNCHANGED <<hPhase, outBlkDataSize>>
    BY <1>8 DEF HRecvReturn, HPopBlkThen, HPop, HLooks, hLookKeeps, HostCalls
  <2>2. recvRtnArgc = 0
    BY <1>t, <2>1 DEF HostFront, HArgsNext
  <2>3. /\ outMsgQue # <<>> /\ Head(outMsgQue).cmd = "RDY" /\ Head(outMsgQue).ctl = "CALL"
        /\ argc = 0 \/ Len(outMsgQue) >= 2
    BY <1>r, <2>1, <2>2 DEF HArgsThere
  <2>4. outBlkDataSize = 0
    BY <1>t, <2>1, <2>3 DEF HostFront, HFrontIsData
  <2>5. argc \in Nat
    BY <1>q, <2>3
  <2>6. ASSUME argc # 0
        PROVE  Tail(outMsgQue) # <<>> /\ Head(Tail(outMsgQue)) = Rdy("DATA", argc)
    <3>1. ArgCall(Head(outMsgQue)) /\ Len(outMsgQue) >= 2
      BY <2>3, <2>5, <2>6 DEF ArgCall
    <3>2. Paired(outMsgQue \o (ctlOut \o outPend)) /\ outMsgQue \in Seq(CtrlMsg)
      BY DEF OutFlow, OutStream, QueuesTyped
    <3>3. ctlOut \o outPend \in Seq(CtrlMsg)
      BY StreamIndex DEF QueuesTyped
    <3> QED BY <3>1, <3>2, <3>3, PairedHead
  <2>7. argc # 0 => HFrontIsData' /\ Head(outMsgQue').arg = recvRtnArgc'
    BY <2>1, <2>6 DEF HFrontIsData, Rdy
  <2>8. CASE argc = 0
    BY <2>1, <2>4, <2>8 DEF HostFront, HArgsNext
  <2>9. CASE argc # 0
    <3>1. HFrontIsData' /\ Head(outMsgQue').arg = recvRtnArgc' /\ outBlkDataSize' = 0
      BY <2>1, <2>4, <2>7, <2>9
    <3>2. hPc' = "next" /\ HArgsNext'
      BY <2>1, <2>9 DEF HArgsNext
    <3> QED BY <3>1, <3>2 DEF HostFront
  <2> QED BY <2>8, <2>9
<1>9. CASE HRecvReturnArgs
  <2>1. /\ hPc = "args" /\ hPc' = "next" /\ hThen' = "idle" /\ recvRtnArgc' = 0
        /\ outBlkDataSize = 0 /\ outBlkDataSize' = 0
    BY <1>9 DEF HRecvReturnArgs, HPopBlkThen, HostFront, HArgsNext
  <2> QED BY <2>1 DEF HostFront, HArgsNext
<1>10. CASE HCopyData
  <2> DEFINE cnt == Lesser(outBlkDataSize, hN)
  <2>0. cnt \in Nat /\ cnt <= outBlkDataSize
    BY <1>t DEF Lesser
  <2>1. /\ hPc = "copy" /\ UNCHANGED <<hPhase, recvRtnArgc>>
        /\ outBlkRdIdx' = outBlkRdIdx + cnt /\ outBlkDataSize' = outBlkDataSize - cnt
        /\ \/ cnt = outBlkDataSize /\ hPc' = "next" /\ hThen' \in {"idle", "que"}
           \/ cnt < outBlkDataSize /\ HReturn /\ outMsgQue' = outMsgQue
    BY <1>10 DEF HCopyData, HPopBlkThen
  <2> HIDE DEF cnt
  <2>2. HFrontIsData /\ Head(outMsgQue).arg = outBlkRdIdx + outBlkDataSize /\ recvRtnArgc = 0
    BY <1>t, <2>1 DEF HostFront, HArgsNext
  <2>3. CASE cnt = outBlkDataSize /\ hPc' = "next" /\ hThen' \in {"idle", "que"}
    BY <1>t, <2>0, <2>1, <2>2, <2>3 DEF HostFront, HArgsNext
  <2>4. CASE cnt < outBlkDataSize /\ HReturn /\ outMsgQue' = outMsgQue
    <3>1. outBlkDataSize' > 0 /\ outBlkRdIdx' + outBlkDataSize' = outBlkRdIdx + outBlkDataSize
      BY <1>t, <2>0, <2>1, <2>4
    <3> QED BY <2>1, <2>2, <2>4, <3>1 DEF HostFront, HArgsNext, HReturn, HFrontIsData
  <2> QED BY <2>1, <2>3, <2>4
<1>11. CASE HNextOutBlk
  <2>1. /\ hPc = "next" /\ hPc' = "write" /\ hThen' = hThen /\ outBlkRdIdx' = 0
        /\ UNCHANGED <<hPhase, outMsgQue, outBlkDataSize, recvRtnArgc>>
    BY <1>11 DEF HNextOutBlk
  <2> QED BY <1>t, <2>1 DEF HostFront, HArgsNext, HFrontIsData
<1>12. CASE HHaltLoopBlk \/ HHaltLoopAssert
  <2>1. /\ hPc = "look" /\ hPhase # "run" /\ hPhase' = hPhase /\ recvRtnArgc' = recvRtnArgc
        /\ \/ hPc' = "next" /\ hThen' = "idle"
           \/ hPc' = "assert"
    BY <1>12 DEF HHaltLoopBlk, HHaltLoopAssert, HLooks, HPopBlkThen, hLookKeeps, HostCalls
  <2> QED BY <2>1 DEF HostFront, HArgsNext
<1>13. CASE HostCall
  <2>1. CASE HDelete \/ HCallSend \/ HCallRecv \/ HCallRecvMarker
    <3>1. /\ UNCHANGED hRecvVars /\ (hPhase' = hPhase \/ hPhase' # "run")
          /\ hPc = "idle" /\ hPc' \in {"idle", "lock", "que"}
      BY <2>1 DEF HDelete, HCallSend, HBeginSend, HCallRecv, HCallRecvMarker, HBeginRecv, hPcVars
    <3> QED BY <1>k, <3>1 DEF HArgsNext
  <2>2. CASE HCallRecvData
    <3>1. /\ UNCHANGED <<hPhase, hRecvVars>> /\ hPhase = "run" /\ hPc = "idle"
          /\ \/ hPc' = "que"
             \/ hPc' = "copy" /\ outBlkDataSize > 0
      BY <2>2 DEF HCallRecvData, HBeginRecv
    <3> QED BY <3>1 DEF HostFront, HArgsNext, hRecvVars, HFrontIsData
  <2> QED BY <1>13, <2>1, <2>2 DEF HostCall
<1>14. CASE HCallSendHostHalt \/ HCallHaltLoop \/ HClose
  <2>1. /\ UNCHANGED hRecvVars /\ (hPhase' = hPhase \/ hPhase' # "run")
        /\ hPc = "idle" /\ hPc' \in {"idle", "lock", "que"}
    BY <1>14 DEF HCallSendHostHalt, HCallHaltLoop, HClose, HBeginRecv, hPcVars
  <2> QED BY <1>k, <2>1 DEF HArgsNext
<1>15. CASE HostTimerStep
  <2>1. UNCHANGED <<hPhase, hPcVars, hRecvVars>>
    BY <1>15 DEF HostTimerStep, HTimerFlush, HTimerWrite, PutCtlIn
  <2> QED BY <2>1 DEF HostFront, HArgsNext, HFrontIsData, hPcVars, hRecvVars
<1> QED BY <1>1, <1>2, <1>3, <1>4, <1>5, <1>6, <1>7, <1>8, <1>9, <1>10, <1>11, <1>12, <1>13,
           <1>14, <1>15
        DEF HostStep, HostSendStep, HostRecvStep

----------------------------------------------------------------------------
\* What a step of the coprocessor does to the two streams and to its credit.
MStays(pc) == mPc' = pc <=> mPc = pc

\* Nothing.
MQuiet ==
  /\ MStays("next") /\ MStays("clear")
  /\ UNCHANGED <<ctlOut, outPend, outBlkAvailCnt, ctlIn, inMsgQue>>

\* It takes the lock and has messages to write that hand over blocks.
MSection ==
  /\ MStays("next") /\ MStays("clear")
  /\ outPend = <<>> /\ outPend' \in Seq(CtrlMsg)
  /\ Paired(outPend') /\ Sized(outPend') /\ Without({"AVL", "PARAM"}, outPend')
  /\ mOp = "SendHostMsg" \/ Without({"USER"}, outPend')
  /\ outBlkAvailCnt' = outBlkAvailCnt - Count("RDY", outPend')
  /\ UNCHANGED <<ctlOut, ctlIn, inMsgQue>>

\* It takes the lock to give a block back.
MGive ==
  /\ mPc = "next" /\ mPc' = "write"
  /\ outPend = <<>> /\ outPend' = <<AvlMsg>>
  /\ UNCHANGED <<ctlOut, outBlkAvailCnt, ctlIn, inMsgQue>>

\* It writes a message.
MPut ==
  /\ MStays("next") /\ MStays("clear")
  /\ outPend # <<>> /\ ctlOut' = Append(ctlOut, Head(outPend)) /\ outPend' = Tail(outPend)
  /\ UNCHANGED <<outBlkAvailCnt, ctlIn, inMsgQue>>

\* It counts a credit, and clears its slot.
MCounts ==
  /\ mPc = "que" /\ mPc' = "clear" /\ outBlkAvailCnt' = outBlkAvailCnt + 1
  /\ UNCHANGED <<ctlOut, outPend, ctlIn, inMsgQue>>
MClears ==
  /\ mPc = "clear" /\ mPc' = "que"
  /\ ctlIn # <<>> /\ Head(ctlIn).cmd = "AVL" /\ ctlIn' = Tail(ctlIn)
  /\ UNCHANGED <<ctlOut, outPend, outBlkAvailCnt, inMsgQue>>

\* It takes a message off the control queue, and off its own, with its block
\* if it came with one.
MTakes ==
  /\ MStays("next") /\ MStays("clear")
  /\ ctlIn # <<>> /\ Head(ctlIn).cmd # "AVL"
  /\ inMsgQue' = Append(inMsgQue, Head(ctlIn)) /\ ctlIn' = Tail(ctlIn)
  /\ UNCHANGED <<ctlOut, outPend, outBlkAvailCnt>>
MPopsMsg ==
  /\ MStays("next") /\ MStays("clear")
  /\ inMsgQue # <<>> /\ Head(inMsgQue).cmd \in {"USER", "PARAM"} /\ MPop
  /\ UNCHANGED <<ctlOut, outPend, outBlkAvailCnt, ctlIn>>
MPopsBlk ==
  /\ mPc \in {"look", "copy", "args"} /\ mPc' = "next"
  /\ inMsgQue # <<>> /\ Head(inMsgQue).cmd = "RDY" /\ MPop
  /\ UNCHANGED <<ctlOut, outPend, outBlkAvailCnt, ctlIn>>

MEffect ==
  \/ MQuiet \/ MSection \/ MGive \/ MPut
  \/ MCounts \/ MClears \/ MTakes \/ MPopsMsg \/ MPopsBlk

\* The flush, and the marker, halt or call after it.
LEMMA MFlushShape ==
  ASSUME ModelTypeOK, ParamAssumption
  PROVE  /\ MFlushMsgs \in Seq(CtrlMsg) /\ Paired(MFlushMsgs) /\ Sized(MFlushMsgs)
         /\ \A i \in 1..Len(MFlushMsgs) : MFlushMsgs[i].cmd = "RDY"
         /\ Count("RDY", MFlushMsgs) = Len(MFlushMsgs)
         /\ Without({"AVL", "PARAM"}, MFlushMsgs) /\ Without({"USER"}, MFlushMsgs)
<1>1. MFlushMsgs \in Seq(CtrlMsg)
  BY MFlushMsgsType
<1>2. \A i \in 1..Len(MFlushMsgs) : MFlushMsgs[i] = Rdy("DATA", outBlkWrIdx)
  BY DEF MFlushMsgs
<1>3. \A i \in 1..Len(MFlushMsgs) : MFlushMsgs[i].cmd = "RDY" /\ MFlushMsgs[i].ctl = "DATA"
  BY <1>2 DEF Rdy
<1>4. Paired(MFlushMsgs) /\ Sized(MFlushMsgs)
  BY <1>3 DEF Paired, Sized, ArgCall
<1> QED BY <1>1, <1>3, <1>4, CountRdy

\* An empty block is announced, or a return's arguments are: whole blocks, paired.
LEMMA MCtlShape ==
  ASSUME ModelTypeOK, MCtlOp
  PROVE  /\ MCtlMsgs(0) \in Seq(CtrlMsg) /\ Paired(MCtlMsgs(0)) /\ Sized(MCtlMsgs(0))
         /\ \A i \in 1..Len(MCtlMsgs(0)) : MCtlMsgs(0)[i].cmd = "RDY"
<1>1. MCtlMsgs(0) \in Seq(CtrlMsg)
  BY MCtlMsgsType
<1>2. CASE mOp = "SendHostDataMarker" \/ mOp = "SendHostHalt" \/ mN = 0
  <2>1. \E c \in {"NULL", "HALT", "CALL"} : MCtlMsgs(0) = <<Rdy(c, 0)>>
    BY <1>2 DEF MCtlMsgs, MCtlOp
  <2>2. PICK c \in {"NULL", "HALT", "CALL"} : MCtlMsgs(0) = <<Rdy(c, 0)>>
    BY <2>1
  <2>3. Len(MCtlMsgs(0)) = 1 /\ MCtlMsgs(0)[1].cmd = "RDY" /\ MCtlMsgs(0)[1].arg = 0
    BY <2>2 DEF Rdy
  <2> QED BY <1>1, <2>3 DEF Paired, Sized, ArgCall
<1>3. CASE mOp = "SendReturn" /\ mN # 0
  <2>1. MCtlMsgs(0) = <<Rdy("CALL", mN), Rdy("DATA", mN)>>
    BY <1>3 DEF MCtlMsgs
  <2>2. /\ Len(MCtlMsgs(0)) = 2
        /\ MCtlMsgs(0)[1] = Rdy("CALL", mN) /\ MCtlMsgs(0)[2] = Rdy("DATA", mN)
    BY <2>1
  <2> QED BY <1>1, <2>2 DEF Paired, Sized, ArgCall, Rdy
<1> QED BY <1>2, <1>3 DEF MCtlOp

\* The message of a return, marker or halt, with the open block before it.
LEMMA MSendCtlSection ==
  ASSUME ParamAssumption, ModelInv, outPend = <<>>, mPc \in {"lock", "relock"}, MCtlOp,
         NEW flush \in Seq(CtrlMsg), MSendCtl(flush),
         \/ flush = MFlushMsgs
         \/ flush = <<>> /\ outBlkWrIdx = 0
  PROVE  MSection
<1>t. ModelTypeOK
  BY DEF ModelInv
<1>0. flush = <<>> => outBlkWrIdx = 0
  <2>1. CASE flush = MFlushMsgs /\ flush = <<>>
    BY <2>1 DEF MFlushMsgs
  <2> QED BY <2>1
<1>1. (IF flush = <<>> THEN outBlkWrIdx ELSE 0) = 0
  BY <1>0
<1>2. /\ outPend' = flush \o MCtlMsgs(0) /\ mPc' = "write"
      /\ outBlkAvailCnt' = outBlkAvailCnt - (Len(flush) + Len(MCtlMsgs(0)))
      /\ UNCHANGED <<ctlOut, ctlIn, inMsgQue>>
  BY <1>1 DEF MSendCtl, MWriteThen, NextOutBlks, mRecvVars
<1>3. /\ Paired(flush) /\ Sized(flush) /\ \A i \in 1..Len(flush) : flush[i].cmd = "RDY"
  <2>1. CASE flush = MFlushMsgs
    BY <1>t, <2>1, MFlushShape
  <2>2. CASE flush = <<>>
    BY <2>2 DEF Paired, Sized
  <2> QED BY <2>1, <2>2
<1>4. /\ MCtlMsgs(0) \in Seq(CtrlMsg) /\ Paired(MCtlMsgs(0)) /\ Sized(MCtlMsgs(0))
      /\ \A i \in 1..Len(MCtlMsgs(0)) : MCtlMsgs(0)[i].cmd = "RDY"
  BY <1>t, MCtlShape
<1>5. flush \o MCtlMsgs(0) \in Seq(CtrlMsg) /\ Len(flush \o MCtlMsgs(0)) = Len(flush) + Len(MCtlMsgs(0))
  BY <1>4, StreamIndex
<1>6. Paired(flush \o MCtlMsgs(0)) /\ Sized(flush \o MCtlMsgs(0))
  BY <1>3, <1>4, PairedConcat
<1>7. \A i \in 1..Len(flush \o MCtlMsgs(0)) : (flush \o MCtlMsgs(0))[i].cmd = "RDY"
  BY <1>3, <1>4
<1>8. Count("RDY", flush \o MCtlMsgs(0)) = Len(flush) + Len(MCtlMsgs(0))
      /\ Without({"AVL", "PARAM"}, flush \o MCtlMsgs(0))
      /\ Without({"USER"}, flush \o MCtlMsgs(0))
  BY <1>5, <1>7, CountRdy
<1> QED BY <1>2, <1>5, <1>6, <1>8 DEF MSection, MStays

\* What MsgLoop's result says of the message at the front.
LEMMA MRecvTypes ==
  ASSUME inMsgQue \in Seq(CtrlMsg)
  PROVE  /\ MRecvType # "eRecvIdle" => inMsgQue # <<>>
         /\ MRecvType = "none" => Head(inMsgQue).cmd = "PARAM"
         /\ MRecvType = "eRecvHostMsg" => Head(inMsgQue).cmd = "USER"
         /\ MRecvType = "eRecvHostDataMarker" =>
              Head(inMsgQue).cmd = "RDY" /\ Head(inMsgQue).ctl = "NULL"
         /\ MRecvType = "eRecvHalt" =>
              Head(inMsgQue).cmd = "RDY" /\ Head(inMsgQue).ctl = "HALT"
         /\ MRecvType = "eRecvHostData" =>
              Head(inMsgQue).cmd = "RDY" /\ Head(inMsgQue).ctl = "DATA"
         /\ MRecvType = "eRecvCall" =>
              /\ Head(inMsgQue).cmd = "RDY" /\ Head(inMsgQue).ctl = "CALL"
              /\ MArgsThere(Head(inMsgQue))
         /\ MRecvType = "assert" => inMsgQue # <<>> /\ Head(inMsgQue).cmd = "AVL"
<1>1. CASE inMsgQue = <<>>
  BY <1>1 DEF MRecvType
<1>2. CASE inMsgQue # <<>>
  <2> DEFINE m == Head(inMsgQue)
  <2>1. m \in CtrlMsg
    BY <1>2
  <2>2. m.cmd \in {"PARAM", "AVL", "RDY", "USER"} /\ m.ctl \in {"DATA", "NULL", "CALL", "HALT"}
    BY <2>1 DEF CtrlMsg, Ctl
  <2> DEFINE there == MArgsThere(m)
  <2>3. MRecvType =
          CASE m.cmd = "PARAM" -> "none"
            [] m.cmd = "USER" -> "eRecvHostMsg"
            [] m.cmd = "RDY" /\ m.ctl = "NULL" -> "eRecvHostDataMarker"
            [] m.cmd = "RDY" /\ m.ctl = "HALT" -> "eRecvHalt"
            [] m.cmd = "RDY" /\ m.ctl = "DATA" -> "eRecvHostData"
            [] m.cmd = "RDY" /\ m.ctl = "CALL" ->
                 IF there THEN "eRecvCall" ELSE "eRecvIdle"
            [] OTHER -> "assert"
    BY <1>2 DEF MRecvType
  <2> HIDE DEF m, there
  <2>a. CASE m.cmd = "PARAM"
    <3>1. MRecvType = "none"
      BY <2>3, <2>a
    <3> QED BY <1>2, <2>a, <3>1 DEF m
  <2>4. CASE m.cmd = "USER"
    <3>1. MRecvType = "eRecvHostMsg"
      BY <2>3, <2>4
    <3> QED BY <1>2, <2>4, <3>1 DEF m
  <2>5. CASE m.cmd = "RDY" /\ m.ctl = "NULL"
    <3>1. MRecvType = "eRecvHostDataMarker"
      BY <2>3, <2>5
    <3> QED BY <1>2, <2>5, <3>1 DEF m
  <2>6. CASE m.cmd = "RDY" /\ m.ctl = "HALT"
    <3>1. MRecvType = "eRecvHalt"
      BY <2>3, <2>6
    <3> QED BY <1>2, <2>6, <3>1 DEF m
  <2>7. CASE m.cmd = "RDY" /\ m.ctl = "DATA"
    <3>1. MRecvType = "eRecvHostData"
      BY <2>3, <2>7
    <3> QED BY <1>2, <2>7, <3>1 DEF m
  <2>8. CASE m.cmd = "RDY" /\ m.ctl = "CALL"
    <3>1. MRecvType = IF there THEN "eRecvCall" ELSE "eRecvIdle"
      BY <2>3, <2>8
    <3> QED BY <1>2, <2>8, <3>1 DEF m, there
  <2>9. CASE m.cmd = "AVL"
    <3>1. MRecvType = "assert"
      BY <2>3, <2>9
    <3> QED BY <1>2, <2>9, <3>1 DEF m
  <2> QED BY <2>2, <2>a, <2>4, <2>5, <2>6, <2>7, <2>8, <2>9
<1> QED BY <1>1, <1>2

\* Every step of the coprocessor does one of these.
ModelStep == ModelSendStep \/ ModelRecvStep \/ ModelCall \/ ModelTimerStep

\* What each step of the coprocessor does to the streams.
LEMMA ModelEffects ==
  ASSUME ParamAssumption, SharedTypeOK, ModelInv, ModelFlow, ModelStep
  PROVE  MEffect
<1>t. /\ ModelTypeOK /\ ModelControl
      /\ outBlkWrIdx \in Nat /\ outBlkAvailCnt \in Nat /\ mN \in Nat /\ inBlkDataSize \in Nat
      /\ outPend \in Seq(CtrlMsg) /\ inMsgQue \in Seq(CtrlMsg)
  BY DEF ModelInv, ModelTypeOK, ParamAssumption
<1>f. /\ MFlushMsgs \in Seq(CtrlMsg) /\ Paired(MFlushMsgs) /\ Sized(MFlushMsgs)
      /\ Count("RDY", MFlushMsgs) = Len(MFlushMsgs) /\ Len(MFlushMsgs) \in Nat
      /\ Without({"AVL", "PARAM"}, MFlushMsgs) /\ Without({"USER"}, MFlushMsgs)
      /\ outBlkWrIdx > 0 => Len(MFlushMsgs) = 1
  BY <1>t, MFlushShape, MFlushMsgsType, LenProperties
<1>l. /\ outLock = "free" => outPend = <<>>
      /\ mPc = "data" => outPend = <<>>
  BY <1>t DEF ModelControl
<1>r. /\ MRecvType # "eRecvIdle" => inMsgQue # <<>>
      /\ MRecvType = "eRecvHostMsg" => Head(inMsgQue).cmd = "USER"
      /\ MRecvType = "none" => Head(inMsgQue).cmd = "PARAM"
      /\ MRecvType \in {"eRecvHostDataMarker", "eRecvHalt", "eRecvHostData", "eRecvCall"}
           => Head(inMsgQue).cmd = "RDY"
  BY <1>t, MRecvTypes
<1>q. ASSUME MQuiet PROVE MEffect  BY <1>q DEF MEffect
<1>s. ASSUME MSection PROVE MEffect  BY <1>s DEF MEffect
<1>1. CASE MSendHostMsg
  <2> DEFINE u == UserMsg(Len(outSent) + 1)
  <2>1. u \in CtrlMsg /\ u.cmd = "USER" /\ <<u>> \in Seq(CtrlMsg)
    BY MsgType DEF SharedTypeOK, UserMsg
  <2> HIDE DEF u
  <2>2. Paired(<<u>>) /\ Sized(<<u>>) /\ Without({"AVL", "PARAM"}, <<u>>)
    BY <2>1 DEF Paired, Sized, Without, ArgCall
  <2>3. Append(MFlushMsgs, u) = MFlushMsgs \o <<u>> /\ Append(MFlushMsgs, u) \in Seq(CtrlMsg)
    BY <1>f, <2>1, AppendIsConcat
  <2>4. Paired(MFlushMsgs \o <<u>>) /\ Sized(MFlushMsgs \o <<u>>)
        /\ Without({"AVL", "PARAM"}, MFlushMsgs \o <<u>>)
    BY <1>f, <2>1, <2>2, PairedConcat
  <2>5. Count("RDY", Append(MFlushMsgs, u)) = Len(MFlushMsgs)
    <3>1. One(u.cmd = "RDY") = 0
      BY <2>1 DEF One
    <3> QED BY <1>f, <2>1, <3>1, CountAppend
  <2>6. /\ mPc = "lock" /\ mOp = "SendHostMsg" /\ mPc' = "write"
        /\ outPend' = Append(MFlushMsgs, u) /\ outPend = <<>>
        /\ outBlkAvailCnt' = outBlkAvailCnt - Len(MFlushMsgs)
        /\ UNCHANGED <<ctlOut, ctlIn, inMsgQue>>
    BY <1>1, <1>l DEF MSendHostMsg, MWriteThen, NextOutBlks, mRecvVars, u
  <2>7. MSection
    BY <2>3, <2>4, <2>5, <2>6 DEF MSection, MStays
  <2> QED BY <2>7 DEF MEffect
<1>2. CASE MFlushHostData
  <2>1. CASE outBlkWrIdx = 0
    BY <1>2, <1>q, <2>1 DEF MFlushHostData, MReturn, mSendVars, mRecvVars, shared, MQuiet, MStays
  <2>2. CASE outBlkWrIdx > 0
    <3>1. /\ mPc = "lock" /\ mPc' = "write" /\ outPend' = MFlushMsgs /\ outPend = <<>>
          /\ outBlkAvailCnt' = outBlkAvailCnt - 1
          /\ UNCHANGED <<ctlOut, ctlIn, inMsgQue>>
      BY <1>2, <1>l, <2>2 DEF MFlushHostData, MWriteThen, NextOutBlks, mRecvVars, shared
    <3> QED BY <1>f, <1>s, <2>2, <3>1 DEF MSection, MStays
  <2> QED BY <1>t, <2>1, <2>2
<1>3. CASE MSendCtlFirst
  <2>1. mPc = "lock" /\ MCtlOp /\ outPend = <<>> /\ MSendCtl(MFlushMsgs)
    BY <1>3, <1>l DEF MSendCtlFirst
  <2> QED BY <1>f, <1>s, <2>1, MSendCtlSection
<1>4. CASE MSendCtlNoCredit
  <2>1. CASE outBlkWrIdx = 0
    BY <1>4, <1>q, <2>1 DEF MSendCtlNoCredit, mSendVars, mRecvVars, shared, MQuiet, MStays
  <2>2. CASE outBlkWrIdx > 0
    <3>1. /\ mPc = "lock" /\ mPc' = "write" /\ outPend' = MFlushMsgs /\ outPend = <<>>
          /\ outBlkAvailCnt' = outBlkAvailCnt - 1
          /\ UNCHANGED <<ctlOut, ctlIn, inMsgQue>>
      BY <1>4, <1>l, <2>2 DEF MSendCtlNoCredit, MWriteThen, NextOutBlks, mRecvVars, shared
    <3> QED BY <1>f, <1>s, <2>2, <3>1 DEF MSection, MStays
  <2> QED BY <1>t, <2>1, <2>2
<1>5. CASE MSendCtlRetry
  <2>1. CASE MSendCtl(<<>>)
    <3>1. mPc = "relock" /\ MCtlOp /\ outPend = <<>> /\ outBlkWrIdx = 0
      BY <1>5, <1>l DEF MSendCtlRetry, ModelFlow, ModelCalls
    <3>2. <<>> \in Seq(CtrlMsg)
      OBVIOUS
    <3> QED BY <1>s, <2>1, <3>1, <3>2, MSendCtlSection
  <2>2. CASE ~MSendCtl(<<>>)
    BY <1>5, <1>q, <2>2 DEF MSendCtlRetry, MReturn, mSendVars, mRecvVars, shared, MQuiet, MStays
  <2> QED BY <2>1, <2>2
<1>6. CASE MSendDataLock \/ MSendDataNoCredit \/ MSendDataRetry
  BY <1>6, <1>q DEF MSendDataLock, MSendDataNoCredit, MSendDataRetry, MReturn, mSendVars,
     mRecvVars, shared, MQuiet, MStays
<1>7. CASE MSendDataChunk
  <2>1. CASE outPend' = outPend /\ outBlkAvailCnt' = outBlkAvailCnt /\ mPc' = "idle"
    BY <1>7, <1>q, <2>1 DEF MSendDataChunk, mRecvVars, MQuiet, MStays
  <2>2. CASE ~(outPend' = outPend /\ outBlkAvailCnt' = outBlkAvailCnt /\ mPc' = "idle")
    <3> DEFINE s == <<Rdy("DATA", OutBlkSize)>>
    <3>1. /\ mPc = "data" /\ mPc' = "write" /\ outPend' = s /\ outPend = <<>>
          /\ outBlkAvailCnt' = outBlkAvailCnt - 1
          /\ UNCHANGED <<ctlOut, ctlIn, inMsgQue>>
      BY <1>7, <1>l, <2>2 DEF MSendDataChunk, MWriteThen, NextOutBlks, mRecvVars, MReturn
    <3>2. /\ s \in Seq(CtrlMsg) /\ Len(s) = 1
          /\ \A i \in 1..Len(s) : s[i].cmd = "RDY" /\ s[i].ctl = "DATA"
      BY MsgType DEF Ctl, ParamAssumption, Rdy
    <3> HIDE DEF s
    <3>3. Paired(s) /\ Sized(s)
      BY <3>2 DEF Paired, Sized, ArgCall
    <3>4. Count("RDY", s) = 1 /\ Without({"AVL", "PARAM"}, s) /\ Without({"USER"}, s)
      BY <3>2, CountRdy
    <3> QED BY <1>s, <3>1, <3>2, <3>3, <3>4 DEF MSection, MStays
  <2> QED BY <2>1, <2>2
<1>8. CASE MWrite
  <2>1. MStays("next") /\ MStays("clear")
    BY <1>8, <1>t DEF MWrite, ModelControl, mPcVars, MReturn, MStays
  <2> QED BY <1>8, <2>1 DEF MWrite, PutCtlOut, mRecvVars, MEffect, MPut
<1>9. CASE MQueCredit \/ MQueClear \/ MQueMsg
  BY <1>9, <1>t DEF MQueCredit, MQueClear, MQueMsg, ModelControl, mPcVars, mSendVars, mRecvVars,
     shared, MEffect, MCounts, MClears, MTakes, MStays
<1>10. CASE MQueDone
  BY <1>10, <1>q, <1>t DEF MQueDone, ModelControl, mSendVars, mRecvVars, shared, MQuiet, MStays
<1>11. CASE MRecvNothing \/ MRecvHostData \/ MHaltSeen \/ MDone
  BY <1>11, <1>q DEF MRecvNothing, MRecvHostData, MHaltSeen, MDone, mPcVars, mRecvVars, shared, MLooks,
      MReturn, mLookKeeps,
     mSendVars, MQuiet, MStays
<1>12. CASE MRecvHostMsg \/ MParam
  <2>1. MRecvType \in {"eRecvHostMsg", "none"} /\ mPc = "look" /\ mPc' \in {"idle", "look"} /\ MPop
        /\ UNCHANGED <<ctlOut, outPend, outBlkAvailCnt, ctlIn>>
    BY <1>12 DEF MRecvHostMsg, MParam, MLooks, MReturn, mLookKeeps, mPcVars, mSendVars,
       shared
  <2> QED BY <1>r, <2>1 DEF MEffect, MPopsMsg, MStays
<1>13. CASE MRecvHostDataMarker \/ MRecvCall \/ MRecvHalt
  <2>1. MRecvType \in {"eRecvHostDataMarker", "eRecvHalt", "eRecvHostData", "eRecvCall"}
        /\ mPc = "look" /\ mPc' = "next" /\ MPop
        /\ UNCHANGED <<ctlOut, outPend, outBlkAvailCnt, ctlIn>>
    BY <1>13 DEF MRecvHostDataMarker, MRecvCall, MRecvHalt, MLooks, MPopBlkThen,
       mLookKeeps, mSendVars
  <2> QED BY <1>r, <2>1 DEF MEffect, MPopsBlk
<1>14. CASE MRecvCallArgs \/ MCopyData
  <2>1. MFrontIsData
    BY <1>14 DEF MRecvCallArgs, MCopyData, ModelFlow, ModelFront, MArgsNext
  <2>2. CASE MPop /\ mPc' = "next"
    BY <1>14, <2>1, <2>2 DEF MRecvCallArgs, MCopyData, MFrontIsData, mLookKeeps, mSendVars,
       MEffect, MPopsBlk
  <2>3. CASE ~(MPop /\ mPc' = "next")
    <3>1. mPc = "copy" /\ mPc' = "idle"
          /\ UNCHANGED <<ctlOut, outPend, outBlkAvailCnt, ctlIn, inMsgQue>>
      BY <1>14, <2>3 DEF MRecvCallArgs, MCopyData, MPopBlkThen, MReturn, mSendVars
    <3> QED BY <1>q, <3>1 DEF MQuiet, MStays
  <2> QED BY <2>2, <2>3
<1>15. CASE MNextInBlk
  BY <1>15, <1>l DEF MNextInBlk, shared, MEffect, MGive
<1>16. CASE ModelCall
  BY <1>16, <1>q DEF ModelCall, MCallSend, MBeginSend, MCallRecv, MCallRecvMarker, MCallRecvData,
     MBeginRecv, mPcVars, mSendVars, mRecvVars,
     shared, MQuiet, MStays
<1>17. CASE MTimerFlush
  <2>1. /\ mPc' = mPc /\ outPend' = MFlushMsgs /\ outPend = <<>> /\ outBlkWrIdx > 0
        /\ outBlkAvailCnt' = outBlkAvailCnt - 1
        /\ UNCHANGED <<ctlOut, ctlIn, inMsgQue>>
    BY <1>17, <1>l DEF MTimerFlush, NextOutBlks, mPcVars, mRecvVars, shared
  <2> QED BY <1>f, <1>s, <2>1 DEF MSection, MStays
<1>18. CASE MTimerWrite
  BY <1>18 DEF MTimerWrite, PutCtlOut, mPcVars, mRecvVars, MEffect, MPut, MStays
<1> QED BY <1>1, <1>2, <1>3, <1>4, <1>5, <1>6, <1>7, <1>8, <1>9, <1>10, <1>11, <1>12, <1>13,
           <1>14, <1>15, <1>16, <1>17, <1>18
        DEF ModelStep, ModelSendStep, ModelRecvStep, ModelTimerStep

\* What a step of the coprocessor does to the streams keeps calls and their
\* arguments together in both.
LEMMA ModelEffectsKeepFlow ==
  ASSUME QueuesTyped, OutFlow, InFlow, MEffect, UNCHANGED <<outMsgQue, inPend>>
  PROVE  OutFlow' /\ InFlow'
<1>i. ctlOut \in Seq(CtrlMsg) /\ outPend \in Seq(CtrlMsg) /\ outMsgQue \in Seq(CtrlMsg)
  BY DEF QueuesTyped
<1>o. ctlIn \in Seq(CtrlMsg) /\ inPend \in Seq(CtrlMsg) /\ inMsgQue \in Seq(CtrlMsg)
  BY DEF QueuesTyped
<1> DEFINE b == ctlIn \o inPend
<1>b. b \in Seq(CtrlMsg)
  BY <1>o, StreamIndex
<1>1. ASSUME UNCHANGED <<ctlOut, outPend>> PROVE OutFlow'
  BY <1>1 DEF OutFlow, OutStream
<1>2. ASSUME UNCHANGED <<ctlIn, inMsgQue>> PROVE InFlow'
  BY <1>2 DEF InFlow, InStream
<1>3. ASSUME outPend = <<>>, outPend' \in Seq(CtrlMsg), ctlOut' = ctlOut,
             Paired(outPend'), Sized(outPend'), Without({"PARAM"}, outPend')
      PROVE  OutFlow'
  <2> DEFINE before == outMsgQue \o ctlOut
  <2>1. before \in Seq(CtrlMsg) /\ OutStream = before
    BY <1>3, <1>i, StreamIndex DEF OutStream
  <2>2. OutStream' = before \o outPend'
    <3>1. outMsgQue' = outMsgQue /\ ctlOut' = ctlOut
      BY <1>3
    <3> DEFINE q == outPend'
    <3>2. q \in Seq(CtrlMsg)
      BY <1>3
    <3>3. OutStream' = outMsgQue \o (ctlOut \o q)
      BY <3>1 DEF OutStream
    <3> HIDE DEF q
    <3>4. \A r \in Seq(CtrlMsg) : outMsgQue \o (ctlOut \o r) = (outMsgQue \o ctlOut) \o r
      BY <1>i, ConcatAssociative, SMTT(30)
    <3> QED BY <3>2, <3>3, <3>4 DEF q
  <2> HIDE DEF before
  <2>3. Paired(before \o outPend') /\ Sized(before \o outPend')
        /\ Without({"PARAM"}, before \o outPend')
    BY <1>3, <2>1, PairedConcat DEF OutFlow
  <2> QED BY <1>3, <2>2, <2>3 DEF OutFlow
<1>4. CASE MQuiet \/ MCounts
  BY <1>1, <1>2, <1>4 DEF MQuiet, MCounts
<1>5. CASE MSection
  BY <1>2, <1>3, <1>5 DEF MSection, Without
<1>6. CASE MGive
  <2>1. <<AvlMsg>> \in Seq(CtrlMsg)
    BY MsgType
  <2>2. Paired(<<AvlMsg>>) /\ Sized(<<AvlMsg>>) /\ Without({"PARAM"}, <<AvlMsg>>)
    BY DEF Paired, Sized, Without, ArgCall, AvlMsg
  <2> QED BY <1>2, <1>3, <1>6, <2>1, <2>2 DEF MGive
<1>7. CASE MPut
  <2>1. ctlOut' \o outPend' = ctlOut \o outPend
    BY <1>7, <1>i, MoveHead DEF MPut
  <2>3. OutFlow'
    BY <1>7, <2>1 DEF MPut, OutFlow, OutStream
  <2> QED BY <1>2, <1>7, <2>3 DEF MPut
<1>8. CASE MClears
  <2>1. Tail(ctlIn) \o inPend = Tail(b) /\ Head(b) = Head(ctlIn) /\ b # <<>>
    BY <1>8, <1>o, StreamTail DEF MClears
  <2>2. InStream' = inMsgQue \o Tail(b) /\ InStream = inMsgQue \o b
    BY <1>8, <2>1 DEF MClears, InStream
  <2> HIDE DEF b
  <2>3. Head(b).cmd # "RDY"
    BY <1>8, <2>1 DEF MClears
  <2>4. Paired(InStream') /\ Sized(InStream')
    BY <1>b, <1>o, <2>1, <2>2, <2>3, PairedDrop DEF InFlow
  <2> QED BY <1>1, <1>8, <2>4 DEF MClears, InFlow
<1>9. CASE MTakes
  <2>1. Tail(ctlIn) \o inPend = Tail(b) /\ Head(b) = Head(ctlIn) /\ b # <<>>
    BY <1>9, <1>o, StreamTail DEF MTakes
  <2>2. InStream' = Append(inMsgQue, Head(b)) \o Tail(b) /\ InStream = inMsgQue \o b
    BY <1>9, <2>1 DEF MTakes, InStream
  <2> HIDE DEF b
  <2>3. InStream' = InStream
    BY <1>b, <1>o, <2>1, <2>2, MoveHead
  <2>4. Without({"AVL"}, inMsgQue')
    <3>1. Head(ctlIn) \in CtrlMsg /\ Head(ctlIn).cmd # "AVL"
          /\ inMsgQue' = Append(inMsgQue, Head(ctlIn))
      BY <1>9, <1>o DEF MTakes
    <3>2. \A i \in 1..Len(inMsgQue') :
            inMsgQue'[i] = Head(ctlIn) \/ (i \in 1..Len(inMsgQue) /\ inMsgQue'[i] = inMsgQue[i])
      BY <1>o, <3>1
    <3> QED BY <3>1, <3>2 DEF InFlow, Without
  <2> QED BY <1>1, <1>9, <2>3, <2>4 DEF MTakes, InFlow
<1>10. CASE MPopsMsg \/ MPopsBlk
  <2>1. inMsgQue # <<>> /\ inMsgQue' = Tail(inMsgQue) /\ UNCHANGED <<ctlOut, outPend, ctlIn>>
    BY <1>10 DEF MPopsMsg, MPopsBlk, MPop
  <2>2. InStream' = Tail(InStream) /\ InStream # <<>> /\ InStream \in Seq(CtrlMsg)
    BY <1>b, <1>o, <2>1, StreamTail, StreamIndex DEF InStream
  <2>3. Paired(InStream') /\ Sized(InStream')
    BY <2>2, PairedTail DEF InFlow
  <2>4. Without({"AVL"}, inMsgQue')
    BY <1>o, <2>1, PairedTail DEF InFlow
  <2> QED BY <1>1, <2>1, <2>3, <2>4 DEF InFlow
<1> QED BY <1>4, <1>5, <1>6, <1>7, <1>8, <1>9, <1>10 DEF MEffect

\* Nor does it lose a block or count one twice.
LEMMA ModelEffectsKeepCredit ==
  ASSUME QueuesTyped,
         outBlkAvailCnt \in Nat, inBlkAvailCnt \in Nat,
         CreditConserved, MEffect, UNCHANGED hostVars
  PROVE  CreditConserved'
<1>m. UNCHANGED <<outMsgQue, inPend, inBlkAvailCnt, hPc>>
  BY DEF hostVars, hPcVars, hSendVars, hRecvVars
<1>c. /\ Count("RDY", ctlOut) \in Nat /\ Count("AVL", ctlOut) \in Nat
      /\ Count("RDY", outPend) \in Nat /\ Count("AVL", outPend) \in Nat
      /\ Count("RDY", ctlIn) \in Nat /\ Count("AVL", ctlIn) \in Nat
      /\ Count("RDY", inPend) \in Nat /\ Count("AVL", inPend) \in Nat
      /\ Count("RDY", outMsgQue) \in Nat /\ Count("RDY", inMsgQue) \in Nat
  BY CountType DEF QueuesTyped
<1>e. outPend = <<>> => Count("RDY", outPend) = 0 /\ Count("AVL", outPend) = 0
  BY CountEmpty
<1> DEFINE mnx == One(mPc = "next")
           mcl == One(mPc = "clear")
           nx == One(hPc = "next")
           cl == One(hPc = "clear")
<1>n. mnx \in {0, 1} /\ mnx' \in {0, 1} /\ mcl \in {0, 1} /\ mcl' \in {0, 1}
      /\ nx \in {0, 1} /\ cl \in {0, 1} /\ nx' = nx /\ cl' = cl
  BY <1>m DEF One
<1>h. ASSUME MStays("next"), MStays("clear") PROVE mnx' = mnx /\ mcl' = mcl
  BY <1>h DEF MStays, One
<1>i. /\ OutCredit = outBlkAvailCnt + Count("RDY", outPend) + Count("RDY", ctlOut)
                    + Count("RDY", outMsgQue) + nx + Count("AVL", inPend)
                    + Count("AVL", ctlIn) - mcl
      /\ OutCredit' = outBlkAvailCnt' + Count("RDY", outPend') + Count("RDY", ctlOut')
                    + Count("RDY", outMsgQue') + nx' + Count("AVL", inPend')
                    + Count("AVL", ctlIn') - mcl'
  BY DEF OutCredit
<1>j. /\ InCredit = inBlkAvailCnt + Count("RDY", inPend) + Count("RDY", ctlIn)
                    + Count("RDY", inMsgQue) + mnx + Count("AVL", outPend)
                    + Count("AVL", ctlOut) - cl
      /\ InCredit' = inBlkAvailCnt' + Count("RDY", inPend') + Count("RDY", ctlIn')
                    + Count("RDY", inMsgQue') + mnx' + Count("AVL", outPend')
                    + Count("AVL", ctlOut') - cl'
  BY DEF InCredit
<1> HIDE DEF mnx, mcl, nx, cl
\* What each step has to leave alone.
<1> DEFINE OutSum == outBlkAvailCnt + Count("RDY", outPend) + Count("RDY", ctlOut)
                    + Count("AVL", ctlIn) - mcl
           InSum == Count("RDY", ctlIn) + Count("RDY", inMsgQue) + mnx
                     + Count("AVL", outPend) + Count("AVL", ctlOut)
<1>g. ASSUME OutSum' = OutSum, InSum' = InSum, outBlkAvailCnt' \in Int,
             Count("RDY", outPend') \in Nat, Count("RDY", ctlOut') \in Nat,
             Count("AVL", outPend') \in Nat, Count("AVL", ctlOut') \in Nat,
             Count("RDY", ctlIn') \in Nat, Count("AVL", ctlIn') \in Nat,
             Count("RDY", inMsgQue') \in Nat
      PROVE  CreditConserved'
  <2>2. OutCredit' = OutCredit
    <3> DEFINE rest == Count("RDY", outMsgQue) + nx + Count("AVL", inPend)
    <3>1. OutCredit = OutSum + rest
      BY <1>c, <1>n, <1>i
    <3>2. OutCredit' = OutSum' + rest'
      BY <1>c, <1>n, <1>i, <1>g, <1>m
    <3>3. rest' = rest
      BY <1>m, <1>n
    <3> QED BY <1>g, <3>1, <3>2, <3>3
  <2>3. InCredit' = InCredit
    <3> DEFINE rest == inBlkAvailCnt + Count("RDY", inPend) - cl
    <3>1. InCredit = InSum + rest
      BY <1>c, <1>n, <1>j
    <3>2. InCredit' = InSum' + rest'
      BY <1>c, <1>n, <1>j, <1>g, <1>m
    <3>3. rest' = rest
      BY <1>m, <1>n
    <3> QED BY <1>g, <3>1, <3>2, <3>3
  <2> QED BY <2>2, <2>3 DEF CreditConserved
<1>1. CASE MQuiet
  <2>1. mnx' = mnx /\ mcl' = mcl
    BY <1>h, <1>1 DEF MQuiet
  <2> QED BY <1>c, <1>g, <1>1, <2>1 DEF MQuiet
<1>2. CASE MSection
  <2>1. Count("AVL", outPend') = 0 /\ Count("RDY", outPend') \in Nat
    BY <1>2, CountWithout, CountType DEF MSection
  <2>2. mnx' = mnx /\ mcl' = mcl
    BY <1>h, <1>2 DEF MSection
  <2>3. /\ outBlkAvailCnt' = outBlkAvailCnt - Count("RDY", outPend')
        /\ Count("RDY", outPend) = 0 /\ Count("AVL", outPend) = 0
        /\ UNCHANGED <<ctlOut, ctlIn, inMsgQue>>
    BY <1>e, <1>2 DEF MSection
  <2> QED BY <1>c, <1>n, <1>g, <2>1, <2>2, <2>3
<1>3. CASE MGive
  <2>1. Count("AVL", outPend') = 1 /\ Count("RDY", outPend') = 0
    <3>1. AvlMsg \in CtrlMsg /\ outPend' = <<AvlMsg>> /\ AvlMsg.cmd = "AVL"
      BY <1>3, MsgType DEF MGive, AvlMsg
    <3>2. Count("AVL", <<AvlMsg>>) = One(AvlMsg.cmd = "AVL")
          /\ Count("RDY", <<AvlMsg>>) = One(AvlMsg.cmd = "RDY")
      BY <3>1, CountSingle
    <3> QED BY <3>1, <3>2 DEF One
  <2>2. /\ mnx = 1 /\ mnx' = 0
        /\ mcl = 0 /\ mcl' = 0
    BY <1>3 DEF MGive, One, mnx, mcl
  <2>3. /\ Count("RDY", outPend) = 0 /\ Count("AVL", outPend) = 0
        /\ UNCHANGED <<ctlOut, outBlkAvailCnt, ctlIn, inMsgQue>>
    BY <1>e, <1>3 DEF MGive
  <2> QED BY <1>c, <1>g, <2>1, <2>2, <2>3
<1>4. CASE MPut
  <2>1. \A c : Count(c, ctlOut') + Count(c, outPend') = Count(c, ctlOut) + Count(c, outPend)
               /\ Count(c, ctlOut') \in Nat /\ Count(c, outPend') \in Nat
    <3>0. Head(outPend) \in CtrlMsg /\ Tail(outPend) \in Seq(CtrlMsg) /\ outPend # <<>>
          /\ ctlOut' = Append(ctlOut, Head(outPend)) /\ outPend' = Tail(outPend)
      BY <1>4 DEF QueuesTyped, MPut
    <3>1. SUFFICES ASSUME NEW c
                   PROVE  Count(c, ctlOut') + Count(c, outPend') = Count(c, ctlOut) + Count(c, outPend)
                          /\ Count(c, ctlOut') \in Nat /\ Count(c, outPend') \in Nat
      OBVIOUS
    <3> DEFINE o == One(Head(outPend).cmd = c)
    <3>2. Count(c, outPend) = o + Count(c, Tail(outPend))
      BY <3>0, CountHead DEF QueuesTyped
    <3>3. Count(c, Append(ctlOut, Head(outPend))) = Count(c, ctlOut) + o
      BY <3>0, CountAppend DEF QueuesTyped
    <3>4. Count(c, Tail(outPend)) \in Nat /\ Count(c, ctlOut) \in Nat
      BY <3>0, CountType DEF QueuesTyped
    <3>5. o \in Nat
      BY DEF One
    <3> HIDE DEF o
    <3> QED BY <3>0, <3>2, <3>3, <3>4, <3>5
  <2>2. mnx' = mnx /\ mcl' = mcl
    BY <1>h, <1>4 DEF MPut
  <2>3. UNCHANGED <<outBlkAvailCnt, ctlIn, inMsgQue>>
    BY <1>4 DEF MPut
  <2>4. Count("RDY", ctlOut') + Count("RDY", outPend') = Count("RDY", ctlOut) + Count("RDY", outPend)
        /\ Count("AVL", ctlOut') + Count("AVL", outPend') = Count("AVL", ctlOut) + Count("AVL", outPend)
        /\ Count("RDY", ctlOut') \in Nat /\ Count("RDY", outPend') \in Nat
        /\ Count("AVL", ctlOut') \in Nat /\ Count("AVL", outPend') \in Nat
    BY <2>1
  <2>5. OutSum' = OutSum /\ InSum' = InSum
    <3>1. OutSum' = outBlkAvailCnt + Count("RDY", outPend') + Count("RDY", ctlOut')
                   + Count("AVL", ctlIn) - mcl
      BY <2>2, <2>3
    <3>2. InSum' = Count("RDY", ctlIn) + Count("RDY", inMsgQue) + mnx
                    + Count("AVL", outPend') + Count("AVL", ctlOut')
      BY <2>2, <2>3
    <3>3. OutSum' = OutSum
      BY <1>c, <1>n, <2>4, <3>1
    <3>4. InSum' = InSum
      BY <1>c, <1>n, <2>4, <3>2
    <3> QED BY <3>3, <3>4
  <2> QED BY <1>c, <1>g, <2>3, <2>4, <2>5
<1>5. CASE MCounts
  <2>1. /\ mnx = 0 /\ mnx' = 0
        /\ mcl = 0 /\ mcl' = 1
    BY <1>5 DEF MCounts, One, mnx, mcl
  <2> QED BY <1>c, <1>g, <1>5, <2>1 DEF MCounts
<1>6. CASE MClears
  <2>0. Head(ctlIn) \in CtrlMsg /\ Tail(ctlIn) \in Seq(CtrlMsg) /\ ctlIn # <<>>
        /\ ctlIn' = Tail(ctlIn) /\ Head(ctlIn).cmd = "AVL"
    BY <1>6 DEF QueuesTyped, MClears
  <2>1. Count("RDY", ctlIn) = One(Head(ctlIn).cmd = "RDY") + Count("RDY", ctlIn')
        /\ Count("AVL", ctlIn) = One(Head(ctlIn).cmd = "AVL") + Count("AVL", ctlIn')
    BY <2>0, CountHead DEF QueuesTyped
  <2>2. Count("RDY", ctlIn') \in Nat /\ Count("AVL", ctlIn') \in Nat
    BY <2>0, CountType
  <2>3. One(Head(ctlIn).cmd = "RDY") = 0 /\ One(Head(ctlIn).cmd = "AVL") = 1
    BY <2>0 DEF One
  <2>4. /\ mnx = 0 /\ mnx' = 0
        /\ mcl = 1 /\ mcl' = 0
    BY <1>6 DEF MClears, One, mnx, mcl
  <2>5. Count("RDY", ctlIn') = Count("RDY", ctlIn) /\ Count("AVL", ctlIn) = 1 + Count("AVL", ctlIn')
    BY <2>1, <2>2, <2>3
  <2>6. UNCHANGED <<ctlOut, outPend, outBlkAvailCnt, inMsgQue>>
    BY <1>6 DEF MClears
  <2> QED BY <1>c, <1>g, <2>2, <2>4, <2>5, <2>6
<1>7. CASE MTakes
  <2>0. Head(ctlIn) \in CtrlMsg /\ Tail(ctlIn) \in Seq(CtrlMsg) /\ ctlIn # <<>>
        /\ inMsgQue' = Append(inMsgQue, Head(ctlIn)) /\ ctlIn' = Tail(ctlIn)
        /\ Head(ctlIn).cmd # "AVL"
    BY <1>7 DEF QueuesTyped, MTakes
  <2> DEFINE r == One(Head(ctlIn).cmd = "RDY")
  <2>1. Count("RDY", ctlIn) = r + Count("RDY", ctlIn')
        /\ Count("AVL", ctlIn) = One(Head(ctlIn).cmd = "AVL") + Count("AVL", ctlIn')
    BY <2>0, CountHead DEF QueuesTyped
  <2>2. Count("RDY", inMsgQue') = Count("RDY", inMsgQue) + r
    BY <2>0, CountAppend DEF QueuesTyped
  <2>3. Count("RDY", ctlIn') \in Nat /\ Count("AVL", ctlIn') \in Nat
    BY <2>0, CountType
  <2>4. r \in Nat /\ One(Head(ctlIn).cmd = "AVL") = 0
    BY <2>0 DEF One
  <2> HIDE DEF r
  <2>5. Count("AVL", ctlIn') = Count("AVL", ctlIn)
        /\ Count("RDY", ctlIn') + Count("RDY", inMsgQue')
             = Count("RDY", ctlIn) + Count("RDY", inMsgQue)
        /\ Count("RDY", inMsgQue') \in Nat
    <3>1. Count("AVL", ctlIn') = Count("AVL", ctlIn)
      BY <2>1, <2>3, <2>4
    <3>2. Count("RDY", inMsgQue') \in Nat
      BY <1>c, <2>2, <2>4
    <3>3. Count("RDY", ctlIn') + (Count("RDY", inMsgQue) + r)
             = Count("RDY", ctlIn) + Count("RDY", inMsgQue)
      BY <1>c, <2>1, <2>3, <2>4, OneMoves
    <3> QED BY <2>2, <3>1, <3>2, <3>3
  <2>6. mnx' = mnx /\ mcl' = mcl
    BY <1>h, <1>7 DEF MTakes
  <2>7. UNCHANGED <<ctlOut, outPend, outBlkAvailCnt>>
    BY <1>7 DEF MTakes
  <2>8. OutSum' = OutSum /\ InSum' = InSum
    BY <1>c, <1>n, <2>3, <2>5, <2>6, <2>7
  <2> QED BY <1>c, <1>g, <2>3, <2>5, <2>7, <2>8
<1>8. CASE MPopsMsg \/ MPopsBlk
  <2>0. Tail(inMsgQue) \in Seq(CtrlMsg) /\ inMsgQue # <<>> /\ inMsgQue' = Tail(inMsgQue)
        /\ UNCHANGED <<ctlOut, outPend, outBlkAvailCnt, ctlIn>>
    BY <1>8, SMTT(30) DEF QueuesTyped, MPopsMsg, MPopsBlk, MPop
  <2> DEFINE r == One(Head(inMsgQue).cmd = "RDY")
  <2>1. Count("RDY", inMsgQue) = r + Count("RDY", inMsgQue')
    BY <2>0, CountHead DEF QueuesTyped
  <2>2. Count("RDY", inMsgQue') \in Nat
    BY <2>0, CountType
  <2>3. CASE MPopsMsg
    <3>1. r = 0
      BY <2>3 DEF MPopsMsg, One
    <3>2. mnx' = mnx /\ mcl' = mcl
      BY <1>h, <2>3 DEF MPopsMsg
    <3> HIDE DEF r
    <3>3. Count("RDY", inMsgQue') = Count("RDY", inMsgQue)
      BY <2>1, <2>2, <3>1
    <3> QED BY <1>c, <1>g, <2>0, <2>2, <3>2, <3>3
  <2>4. CASE MPopsBlk
    <3>1. r = 1
      BY <2>4 DEF MPopsBlk, One
    <3>2. /\ mnx = 0 /\ mnx' = 1
          /\ mcl = 0 /\ mcl' = 0
      BY <2>4 DEF MPopsBlk, One, mnx, mcl
    <3> HIDE DEF r
    <3> QED BY <1>c, <1>g, <2>0, <2>1, <2>2, <3>1, <3>2
  <2> QED BY <1>8, <2>3, <2>4
<1> QED BY <1>1, <1>2, <1>3, <1>4, <1>5, <1>6, <1>7, <1>8 DEF MEffect

\* The coprocessor's calls go on as they began.
LEMMA ModelKeepsCalls ==
  ASSUME ParamAssumption, ModelInv, ModelCalls, ModelStep
  PROVE  ModelCalls'
<1>t. ModelControl /\ outBlkWrIdx \in Nat
  BY DEF ModelInv, ModelTypeOK, ParamAssumption
<1>r. ASSUME MReturn PROVE ModelCalls'
  BY <1>r DEF MReturn, ModelCalls, MCtlOp
<1>1. CASE MSendHostMsg \/ MFlushHostData \/ MSendDataLock \/ MSendDataNoCredit \/ MSendDataRetry
  <2>1. CASE ~MReturn
    BY <1>1, <2>1 DEF MSendHostMsg, MFlushHostData, MSendDataLock, MSendDataNoCredit,
       MSendDataRetry, MWriteThen, NextOutBlks, ModelCalls, MCtlOp
  <2> QED BY <1>r, <2>1
<1>2. CASE MSendCtlFirst \/ MSendCtlRetry
  <2>1. CASE ~MReturn
    <3>1. /\ mPc \in {"lock", "relock"} /\ mOp' = mOp /\ MCtlOp
          /\ \/ mPc' = "write" /\ mThen' \in {"idle", "halted"}
             \/ mPc = "relock" /\ mPc' = "que" /\ mThen' = "lock" /\ outBlkWrIdx' = outBlkWrIdx
      BY <1>2, <2>1 DEF MSendCtlFirst, MSendCtlRetry, MSendCtl, MWriteThen, mSendVars
    <3> QED BY <3>1 DEF ModelCalls, MCtlOp
  <2> QED BY <1>r, <2>1
<1>3. CASE MSendCtlNoCredit
  <2>1. /\ mPc = "lock" /\ MCtlOp /\ mOp' = mOp /\ outBlkWrIdx' = 0
        /\ \/ mPc' = "que" /\ mThen' = "relock"
           \/ mPc' = "write" /\ mThen' = "que"
    BY <1>3 DEF MSendCtlNoCredit, mSendVars, MWriteThen, NextOutBlks
  <2> QED BY <2>1 DEF ModelCalls, MCtlOp
<1>4. CASE MSendDataChunk
  <2>1. CASE ~MReturn
    <3>1. mPc = "data" /\ mPc' = "write" /\ mThen' \in {"idle", "data"} /\ mOp' = mOp
      BY <1>4, <2>1 DEF MSendDataChunk, MWriteThen
    <3> QED BY <3>1 DEF ModelCalls, MCtlOp
  <2> QED BY <1>r, <2>1
<1>5. CASE MWrite
  <2>1. CASE ~MReturn
    <3>1. /\ mPc = "write" /\ mOp' = mOp /\ outBlkWrIdx' = outBlkWrIdx
          /\ \/ mPc' = mPc /\ mThen' = mThen
             \/ /\ mThen # "idle" /\ mPc' = mThen
                /\ mThen' = IF mThen # "que" THEN "idle"
                              ELSE IF mOp = "RecvHostData" THEN "look" ELSE "relock"
      BY <1>5, <2>1 DEF MWrite, PutCtlOut, mPcVars
    <3>2. mThen \in {"idle", "data", "que", "args", "lock", "halted"}
      BY <1>t, <3>1 DEF ModelControl
    <3> QED BY <3>1, <3>2 DEF ModelCalls, MCtlOp
  <2> QED BY <1>r, <2>1
<1>6. CASE MQueCredit \/ MQueClear \/ MQueMsg \/ MQueDone
  BY <1>6, <1>t DEF MQueCredit, MQueClear, MQueMsg, MQueDone, ModelControl, mPcVars, mSendVars,
     ModelCalls, MCtlOp
<1>7. CASE \/ MRecvNothing \/ MRecvHostMsg \/ MRecvHostDataMarker \/ MRecvCall
           \/ MRecvCallArgs \/ MRecvHostData \/ MCopyData
  <2>1. CASE ~MReturn
    <3>1. /\ mPc \in {"look", "args", "copy"} /\ mOp' = mOp
          /\ \/ mPc' = "next" /\ mThen' \in {"idle", "que", "args"}
             \/ mPc' = "copy" /\ mThen' = mThen /\ mOp = "RecvHostData"
      BY <1>7, <2>1 DEF MRecvNothing, MRecvHostMsg, MRecvHostDataMarker, MRecvCall,
         MRecvCallArgs, MRecvHostData, MCopyData, MLooks, MPopBlkThen, mLookKeeps
    <3> QED BY <3>1 DEF ModelCalls, MCtlOp
  <2> QED BY <1>r, <2>1
<1>8. CASE MNextInBlk
  <2>1. mPc = "next" /\ mPc' = "write" /\ mThen' = mThen /\ mOp' = mOp
        /\ mThen \in {"idle", "que", "args", "lock"}
    BY <1>8, <1>t DEF MNextInBlk, ModelControl
  <2> QED BY <2>1 DEF ModelCalls, MCtlOp
<1>9. CASE MRecvHalt
  <2>1. mPc' = "next" /\ mThen' = "lock"
    BY <1>9 DEF MRecvHalt, MPopBlkThen
  <2> QED BY <2>1 DEF ModelCalls
<1>10. CASE MParam \/ MDone
  BY <1>10 DEF MParam, MDone, mPcVars, mSendVars, ModelCalls, MCtlOp
<1>11. CASE MHaltSeen
  BY <1>11, <1>r DEF MHaltSeen
<1>12. CASE ModelCall
  <2>1. CASE MCallSend
    <3>1. mPc' = "lock" /\ mThen' = "idle"
      BY <2>1 DEF MCallSend, MBeginSend
    <3> QED BY <3>1 DEF ModelCalls
  <2>2. CASE MCallRecv \/ MCallRecvMarker \/ MCallRecvData
    <3>1. /\ \/ mPc' = "que" /\ mThen' = "look"
             \/ mPc' = "copy" /\ mThen' = "idle" /\ mOp' = "RecvHostData"
          /\ mOp' \in {"RecvHostMsg", "RecvPoll", "RecvCall", "RecvHostDataMarker",
                       "RecvHostData"}
      BY <2>2 DEF MCallRecv, MCallRecvMarker, MCallRecvData, MBeginRecv
    <3> QED BY <3>1 DEF ModelCalls, MCtlOp
  <2> QED BY <1>12, <2>1, <2>2 DEF ModelCall
<1>13. CASE ModelTimerStep
  <2>1. /\ UNCHANGED mPcVars
        /\ outBlkWrIdx' \in {outBlkWrIdx, 0}
    BY <1>13 DEF ModelTimerStep, MTimerFlush, MTimerWrite, PutCtlOut, NextOutBlks
  <2> QED BY <2>1 DEF ModelCalls, MCtlOp, mPcVars
<1> QED BY <1>1, <1>2, <1>3, <1>4, <1>5, <1>6, <1>7, <1>8, <1>9, <1>10, <1>11, <1>12, <1>13
        DEF ModelStep, ModelSendStep, ModelRecvStep

\* What the coprocessor reads at its front it goes on reading, and RecvCall finds
\* the arguments after the call.
LEMMA ModelKeepsFront ==
  ASSUME ParamAssumption, QueuesTyped, ModelInv, InFlow, ModelCalls, ModelFront, ModelStep
  PROVE  ModelFront'
<1>t. ModelControl /\ mN \in Nat /\ inBlkDataSize \in Nat /\ inBlkRdIdx \in Nat
  BY DEF ModelInv, ModelTypeOK
<1>q. inMsgQue # <<>> => Head(inMsgQue) \in CtrlMsg /\ Head(inMsgQue).arg \in Nat
  <2>1. inMsgQue # <<>> => Head(inMsgQue) \in CtrlMsg
    BY DEF QueuesTyped
  <2> QED BY <2>1 DEF CtrlMsg
<1>r. /\ MRecvType = "eRecvHostMsg" => Head(inMsgQue).cmd = "USER"
      /\ MRecvType = "eRecvHostDataMarker" => Head(inMsgQue).ctl = "NULL"
      /\ MRecvType = "eRecvHalt" => Head(inMsgQue).ctl = "HALT"
      /\ MRecvType = "eRecvHostData" => MFrontIsData
      /\ MRecvType = "eRecvCall" =>
           /\ inMsgQue # <<>> /\ Head(inMsgQue).cmd = "RDY"
           /\ Head(inMsgQue).ctl = "CALL" /\ MArgsThere(Head(inMsgQue))
      /\ MRecvType = "none" => Head(inMsgQue).cmd = "PARAM"
  <2>1. inMsgQue \in Seq(CtrlMsg)
    BY DEF QueuesTyped
  <2> QED BY <1>t, <2>1, MRecvTypes DEF MFrontIsData
\* The receiving side is left alone, and not entered.
<1>k. ASSUME UNCHANGED mRecvVars, ~MArgsNext, ~MArgsNext', mPc \notin {"next"}, mPc' \notin {"next", "copy"}
      PROVE  ModelFront'
  BY <1>k DEF ModelFront, mRecvVars, MFrontIsData
<1>1. CASE MSendHostMsg \/ MFlushHostData \/ MSendDataLock \/ MSendDataNoCredit
           \/ MSendDataRetry \/ MSendDataChunk \/ MSendCtlFirst \/ MSendCtlNoCredit \/ MSendCtlRetry
  <2>1. /\ UNCHANGED mRecvVars
        /\ mPc \in {"lock", "relock", "data"} /\ mPc' \in {"idle", "write", "data", "que"}
        /\ mThen' # "args" \/ mPc' = "data"
    BY <1>1 DEF MSendHostMsg, MFlushHostData, MSendDataLock, MSendDataNoCredit, MSendDataRetry,
       MSendDataChunk, MSendCtlFirst, MSendCtlNoCredit, MSendCtlRetry, MSendCtl, MReturn, MWriteThen
  <2> QED BY <1>k, <2>1 DEF MArgsNext
<1>2. CASE MWrite
  <2>1. /\ UNCHANGED mRecvVars /\ mPc = "write"
        /\ \/ mPc' = mPc /\ mThen' = mThen /\ mN' = mN
           \/ mThen = "idle" /\ MReturn
           \/ mThen # "idle" /\ mPc' = mThen /\ mThen' # "args" /\ mN' = mN
    BY <1>2 DEF MWrite, PutCtlOut, mPcVars
  <2>2. mThen \in {"idle", "data", "que", "args", "lock", "halted"}
    BY <1>t, <2>1 DEF ModelControl
  <2> QED BY <2>1, <2>2 DEF ModelFront, MArgsNext, mRecvVars, MFrontIsData, MReturn
<1>3. CASE MQueCredit \/ MQueClear \/ MQueDone
  <2>1. /\ UNCHANGED mRecvVars /\ mPc \in {"que", "clear"}
        /\ mPc' \in {"que", "clear", "relock", "look", "lock"}
    BY <1>3, <1>t DEF MQueCredit, MQueClear, MQueDone, ModelControl
  <2> QED BY <1>k, <2>1 DEF MArgsNext
<1>4. CASE MQueMsg
  <2>1. /\ UNCHANGED <<mPcVars, inBlkDataSize, inBlkRdIdx>>
        /\ ctlIn # <<>> /\ inMsgQue' = Append(inMsgQue, Head(ctlIn))
    BY <1>4 DEF MQueMsg
  <2>2. inMsgQue # <<>> => inMsgQue' # <<>> /\ Head(inMsgQue') = Head(inMsgQue)
    BY <2>1, HeadOfAppend DEF QueuesTyped
  <2> QED BY <2>1, <2>2 DEF ModelFront, MArgsNext, MFrontIsData, mPcVars
<1>5. CASE MRecvNothing
  <2>1. /\ mPc = "look" /\ MReturn /\ MSeeFront
        /\ UNCHANGED <<inMsgQue, inBlkRdIdx>>
    BY <1>5 DEF MRecvNothing, mLookKeeps
  <2> QED BY <1>t, <1>q, <2>1 DEF ModelFront, MArgsNext, MFrontIsData, MReturn, MSeeFront
<1>6. CASE MRecvHostData
  <2>1. /\ mPc = "look" /\ mPc' = "copy" /\ MSeeFront /\ MFrontIsData
        /\ UNCHANGED <<inMsgQue, inBlkRdIdx>>
    BY <1>6, <1>r DEF MRecvHostData, mLookKeeps, MLooks
  <2> QED BY <1>t, <1>q, <2>1 DEF ModelFront, MArgsNext, MFrontIsData, MSeeFront
<1>7. CASE MRecvHostMsg \/ MParam \/ MRecvHostDataMarker \/ MRecvHalt
  <2>1. /\ mPc = "look" /\ UNCHANGED <<inBlkDataSize, inBlkRdIdx>>
        /\ ~MFrontIsData /\ ~MArgsNext
    <3>1. MRecvType \in {"eRecvHostMsg", "none", "eRecvHostDataMarker", "eRecvHalt"}
          /\ mPc = "look" /\ UNCHANGED <<inBlkDataSize, inBlkRdIdx>>
      BY <1>7 DEF MRecvHostMsg, MParam, MRecvHostDataMarker, MRecvHalt, MLooks, mLookKeeps
    <3> QED BY <1>r, <3>1 DEF MFrontIsData, MArgsNext
  <2>2. \/ mPc' \in {"idle", "look"}
        \/ mPc' = "next" /\ mThen' # "args"
    BY <1>7, <2>1 DEF MRecvHostMsg, MParam, MRecvHostDataMarker, MRecvHalt, MReturn,
       MPopBlkThen, mPcVars
  <2> QED BY <1>t, <2>1, <2>2 DEF ModelFront, MArgsNext
<1>8. CASE MRecvCall
  <2> DEFINE argc == Head(inMsgQue).arg
  <2>1. /\ mPc = "look" /\ mPc' = "next"
        /\ mThen' = IF argc = 0 THEN "idle" ELSE "args"
        /\ mN' = argc /\ inMsgQue' = Tail(inMsgQue)
        /\ MRecvType = "eRecvCall"
        /\ UNCHANGED inBlkDataSize
    BY <1>8 DEF MRecvCall, MPopBlkThen, MPop, MLooks, mLookKeeps
  <2>3. /\ inMsgQue # <<>> /\ Head(inMsgQue).cmd = "RDY" /\ Head(inMsgQue).ctl = "CALL"
        /\ argc = 0 \/ Len(inMsgQue) >= 2
    BY <1>r, <2>1 DEF MArgsThere
  <2>4. inBlkDataSize = 0
    BY <1>t, <2>1, <2>3 DEF ModelFront, MFrontIsData
  <2>5. argc \in Nat
    BY <1>q, <2>3
  <2>6. ASSUME argc # 0
        PROVE  Tail(inMsgQue) # <<>> /\ Head(Tail(inMsgQue)) = Rdy("DATA", argc)
    <3>1. ArgCall(Head(inMsgQue)) /\ Len(inMsgQue) >= 2
      BY <2>3, <2>5, <2>6 DEF ArgCall
    <3>2. Paired(inMsgQue \o (ctlIn \o inPend)) /\ inMsgQue \in Seq(CtrlMsg)
      BY DEF InFlow, InStream, QueuesTyped
    <3>3. ctlIn \o inPend \in Seq(CtrlMsg)
      BY StreamIndex DEF QueuesTyped
    <3> QED BY <3>1, <3>2, <3>3, PairedHead
  <2>7. argc # 0 => MFrontIsData' /\ Head(inMsgQue').arg = mN'
    BY <2>1, <2>6 DEF MFrontIsData, Rdy
  <2>8. CASE argc = 0
    BY <2>1, <2>4, <2>8 DEF ModelFront, MArgsNext
  <2>9. CASE argc # 0
    <3>1. MFrontIsData' /\ Head(inMsgQue').arg = mN' /\ inBlkDataSize' = 0
      BY <2>1, <2>4, <2>7, <2>9
    <3>2. mPc' = "next" /\ MArgsNext'
      BY <2>1, <2>9 DEF MArgsNext
    <3> QED BY <3>1, <3>2 DEF ModelFront
  <2> QED BY <2>8, <2>9
<1>9. CASE MRecvCallArgs
  <2>1. /\ mPc = "args" /\ mPc' = "next" /\ mThen' = "idle"
        /\ inBlkDataSize = 0 /\ inBlkDataSize' = 0
    BY <1>9 DEF MRecvCallArgs, MPopBlkThen, ModelFront, MArgsNext
  <2> QED BY <2>1 DEF ModelFront, MArgsNext
<1>10. CASE MCopyData
  <2> DEFINE cnt == Lesser(inBlkDataSize, mN)
  <2>0. cnt \in Nat /\ cnt <= inBlkDataSize
    BY <1>t DEF Lesser
  <2>1. /\ mPc = "copy"
        /\ inBlkRdIdx' = inBlkRdIdx + cnt /\ inBlkDataSize' = inBlkDataSize - cnt
        /\ \/ cnt = inBlkDataSize /\ mPc' = "next" /\ mThen' \in {"idle", "que"}
           \/ cnt < inBlkDataSize /\ MReturn /\ inMsgQue' = inMsgQue
    BY <1>10 DEF MCopyData, MPopBlkThen
  <2> HIDE DEF cnt
  <2>2. MFrontIsData /\ Head(inMsgQue).arg = inBlkRdIdx + inBlkDataSize
    BY <1>t, <2>1 DEF ModelFront, MArgsNext
  <2>3. CASE cnt = inBlkDataSize /\ mPc' = "next" /\ mThen' \in {"idle", "que"}
    BY <1>t, <2>0, <2>1, <2>2, <2>3 DEF ModelFront, MArgsNext
  <2>4. CASE cnt < inBlkDataSize /\ MReturn /\ inMsgQue' = inMsgQue
    <3>1. inBlkDataSize' > 0 /\ inBlkRdIdx' + inBlkDataSize' = inBlkRdIdx + inBlkDataSize
      BY <1>t, <2>0, <2>1, <2>4
    <3> QED BY <2>1, <2>2, <2>4, <3>1 DEF ModelFront, MArgsNext, MReturn, MFrontIsData
  <2> QED BY <2>1, <2>3, <2>4
<1>11. CASE MNextInBlk
  <2>1. /\ mPc = "next" /\ mPc' = "write" /\ mThen' = mThen /\ inBlkRdIdx' = 0
        /\ UNCHANGED <<inMsgQue, inBlkDataSize, mN>>
    BY <1>11 DEF MNextInBlk
  <2> QED BY <1>t, <2>1 DEF ModelFront, MArgsNext, MFrontIsData
<1>12. CASE MHaltSeen \/ MDone
  <2>1. /\ UNCHANGED mRecvVars
        /\ \/ UNCHANGED mPcVars
           \/ mPc = "halted" /\ mPc' = "idle"
    BY <1>12 DEF MHaltSeen, MDone, MReturn
  <2> QED BY <2>1 DEF ModelFront, MArgsNext, mRecvVars, mPcVars, MFrontIsData
<1>13. CASE ModelCall
  <2>1. CASE MCallSend \/ MCallRecv \/ MCallRecvMarker
    <3>1. /\ UNCHANGED mRecvVars
          /\ mPc = "idle" /\ mPc' \in {"idle", "lock", "que"}
      BY <2>1 DEF MCallSend, MBeginSend, MCallRecv, MCallRecvMarker, MBeginRecv
    <3> QED BY <1>k, <3>1 DEF MArgsNext
  <2>2. CASE MCallRecvData
    <3>1. /\ UNCHANGED mRecvVars /\ mPc = "idle"
          /\ \/ mPc' = "que"
             \/ mPc' = "copy" /\ inBlkDataSize > 0
      BY <2>2 DEF MCallRecvData, MBeginRecv
    <3> QED BY <3>1 DEF ModelFront, MArgsNext, mRecvVars, MFrontIsData
  <2> QED BY <1>13, <2>1, <2>2 DEF ModelCall
<1>14. CASE ModelTimerStep
  <2>1. UNCHANGED <<mPcVars, mRecvVars>>
    BY <1>14 DEF ModelTimerStep, MTimerFlush, MTimerWrite, PutCtlOut
  <2> QED BY <2>1 DEF ModelFront, MArgsNext, MFrontIsData, mPcVars, mRecvVars
<1> QED BY <1>1, <1>2, <1>3, <1>4, <1>5, <1>6, <1>7, <1>8, <1>9, <1>10, <1>11, <1>12, <1>13,
           <1>14
        DEF ModelStep, ModelSendStep, ModelRecvStep

----------------------------------------------------------------------------
\* The streams and the credit of both sides together.
Conserves == Flow /\ CreditConserved
FlowInv == IInv /\ Conserves

\* The constructor leaves the parameters and a credit for every out block in
\* one control queue, and nothing in the other.
LEMMA InitQueues ==
  ASSUME Init
  PROVE  /\ ctlIn \in Seq(CtrlMsg)
         /\ \A i \in 1..Len(ctlIn) : ctlIn[i].cmd = IF i = 1 THEN "PARAM" ELSE "AVL"
         /\ Len(ctlIn) = OutBlkCnt + 1
         /\ ctlOut = <<>> /\ inPend = <<>> /\ outPend = <<>>
         /\ inMsgQue = <<>> /\ outMsgQue = <<>>
<1> DEFINE avls == [i \in 1..OutBlkCnt |-> AvlMsg]
<1>1. /\ avls \in Seq(CtrlMsg) /\ Len(avls) = OutBlkCnt
      /\ \A i \in 1..Len(avls) : avls[i].cmd = "AVL"
  BY ParamAssumption, MsgType DEF ParamAssumption, AvlMsg
<1>2. <<ParamMsg>> \in Seq(CtrlMsg) /\ Len(<<ParamMsg>>) = 1 /\ <<ParamMsg>>[1].cmd = "PARAM"
  BY MsgType DEF ParamMsg
<1>3. /\ ctlIn = <<ParamMsg>> \o avls /\ ctlOut = <<>> /\ inPend = <<>> /\ outPend = <<>>
      /\ inMsgQue = <<>> /\ outMsgQue = <<>>
  BY DEF Init, SharedInit, HostInit, ModelInit
<1> HIDE DEF avls
<1> DEFINE one == <<ParamMsg>>
<1> HIDE DEF one
<1>4. /\ one \o avls \in Seq(CtrlMsg) /\ Len(one \o avls) = 1 + OutBlkCnt
      /\ (one \o avls)[1].cmd = "PARAM"
      /\ \A i \in 1..OutBlkCnt : (one \o avls)[1 + i].cmd = "AVL"
  <2>1. one \in Seq(CtrlMsg) /\ Len(one) = 1 /\ one[1].cmd = "PARAM"
    BY <1>2 DEF one
  <2>2. /\ one \o avls \in Seq(CtrlMsg) /\ Len(one \o avls) = Len(one) + Len(avls)
        /\ \A i \in 1..Len(one) : (one \o avls)[i] = one[i]
        /\ \A i \in 1..Len(avls) : (one \o avls)[Len(one) + i] = avls[i]
    <3>1. one \in Seq(CtrlMsg) /\ avls \in Seq(CtrlMsg)
      BY <1>1, <2>1
    <3> QED BY <3>1, StreamIndex
  <2>3. (one \o avls)[1] = one[1]
    BY <2>1, <2>2
  <2>4. \A i \in 1..OutBlkCnt : (one \o avls)[1 + i].cmd = "AVL"
    BY <1>1, <2>1, <2>2
  <2> QED BY <1>1, <2>1, <2>2, <2>3, <2>4
<1>5. \A i \in 1..(OutBlkCnt + 1) : i # 1 => i - 1 \in 1..OutBlkCnt /\ 1 + (i - 1) = i
  BY ParamAssumption DEF ParamAssumption
<1>6. OutBlkCnt \in Nat
  BY ParamAssumption DEF ParamAssumption
<1> QED BY <1>3, <1>4, <1>5, <1>6 DEF one

\* So the streams hold no blocks yet, and every block of both directions is
\* its sender's.
LEMMA InitConserves == Init => Conserves
<1> SUFFICES ASSUME Init PROVE Conserves
  OBVIOUS
<1>1. /\ ctlIn \in Seq(CtrlMsg)
      /\ \A i \in 1..Len(ctlIn) : ctlIn[i].cmd = IF i = 1 THEN "PARAM" ELSE "AVL"
      /\ Len(ctlIn) = OutBlkCnt + 1
      /\ ctlOut = <<>> /\ inPend = <<>> /\ outPend = <<>>
      /\ inMsgQue = <<>> /\ outMsgQue = <<>>
  BY InitQueues
<1>2. /\ hPc = "idle" /\ hThen = "idle" /\ hOp = "none" /\ hPhase = "run"
      /\ outBlkDataSize = 0 /\ outBlkRdIdx = 0 /\ recvRtnArgc = 0 /\ inBlkAvailCnt = InBlkCnt
      /\ mPc = "idle" /\ mThen = "idle" /\ mOp = "none"
      /\ inBlkDataSize = 0 /\ inBlkRdIdx = 0 /\ outBlkAvailCnt = 0
  BY DEF Init, HostInit, ModelInit
<1>3. HostFlow
  BY <1>2 DEF HostFlow, HostCalls, HostFront, HArgsNext, HCtlOp
<1>4. ModelFlow
  BY <1>2 DEF ModelFlow, ModelCalls, ModelFront, MArgsNext, MCtlOp
<1> DEFINE none == <<>>
<1>e. none \in Seq(CtrlMsg) /\ Len(none) = 0
  OBVIOUS
<1> HIDE DEF none
<1>5. /\ Paired(none) /\ Sized(none) /\ \A cmds : Without(cmds, none)
  BY <1>e DEF Paired, Sized, Without
<1>6. InFlow
  <2>1. Paired(ctlIn) /\ Sized(ctlIn)
    <3>1. \A i \in 1..Len(ctlIn) : ctlIn[i].cmd # "RDY"
      BY <1>1
    <3> QED BY <3>1 DEF Paired, Sized, ArgCall
  <2>2. Paired(ctlIn \o none) /\ Sized(ctlIn \o none) /\ ctlIn \o none \in Seq(CtrlMsg)
    BY <1>1, <1>e, <1>5, <2>1, PairedConcat, StreamIndex
  <2>3. Paired(none \o (ctlIn \o none)) /\ Sized(none \o (ctlIn \o none))
    BY <1>e, <1>5, <2>2, PairedConcat
  <2>4. inMsgQue = none /\ inPend = none
    BY <1>1 DEF none
  <2> QED BY <1>5, <2>3, <2>4 DEF InFlow, InStream
<1>7. OutFlow
  <2>1. Paired(none \o none) /\ Sized(none \o none) /\ none \o none \in Seq(CtrlMsg)
        /\ Without({"PARAM"}, none \o none)
    BY <1>e, <1>5, PairedConcat, StreamIndex
  <2>2. Paired(none \o (none \o none)) /\ Sized(none \o (none \o none))
        /\ Without({"PARAM"}, none \o (none \o none))
    BY <1>e, <1>5, <2>1, PairedConcat
  <2>3. outMsgQue = none /\ ctlOut = none /\ outPend = none
    BY <1>1 DEF none
  <2> QED BY <1>5, <2>2, <2>3 DEF OutFlow, OutStream
<1>8. CreditConserved
  <2>1. \A c : Count(c, none) = 0
    BY CountEmpty DEF none
  <2>2. Count("RDY", ctlIn) = 0
    <3>1. Without({"RDY"}, ctlIn)
      BY <1>1 DEF Without
    <3> QED BY <1>1, <3>1, CountWithout
  <2>3. Count("AVL", ctlIn) = OutBlkCnt
    <3> DEFINE n == Len(ctlIn)
    <3>1. {i \in 1..n : ctlIn[i].cmd = "AVL"} = 2..n
      BY <1>1, ParamAssumption DEF ParamAssumption
    <3>2. Count("AVL", ctlIn) = Cardinality(2..n)
      <4>1. Count("AVL", ctlIn) = Cardinality({i \in 1..Len(ctlIn) : ctlIn[i].cmd = "AVL"})
        BY <1>1, CountType
      <4> QED BY <3>1, <4>1
    <3>3. n \in Int /\ n = OutBlkCnt + 1 /\ OutBlkCnt \in Nat /\ OutBlkCnt > 1
      BY <1>1, ParamAssumption DEF ParamAssumption
    <3> HIDE DEF n
    <3>4. Cardinality(2..n) = IF 2 > n THEN 0 ELSE n - 2 + 1
      BY <3>3, FS_Interval
    <3> QED BY <3>2, <3>3, <3>4
  <2>4. One(hPc = "next") = 0 /\ One(hPc = "clear") = 0
        /\ One(mPc = "next") = 0 /\ One(mPc = "clear") = 0
    BY <1>2 DEF One
  <2>5. InCredit = InBlkCnt + 0 + 0 + 0 + 0 + 0 + 0 - 0
    BY <1>1, <1>2, <2>1, <2>2, <2>4 DEF InCredit, none
  <2>6. OutCredit = 0 + 0 + 0 + 0 + 0 + 0 + OutBlkCnt - 0
    BY <1>1, <1>2, <2>1, <2>3, <2>4 DEF OutCredit, none
  <2> QED BY <2>5, <2>6, ParamAssumption DEF CreditConserved, ParamAssumption
<1> QED BY <1>3, <1>4, <1>6, <1>7, <1>8 DEF Conserves, Flow

\* A step of the host keeps them.
LEMMA HostConserves ==
  ASSUME FlowInv, HostStep, UNCHANGED modelVars
  PROVE  Conserves'
<1>1. /\ SharedTypeOK /\ HostInv /\ ModelInv /\ InFlow /\ OutFlow /\ HostFlow /\ ModelFlow
      /\ CreditConserved
  BY DEF FlowInv, IInv, Conserves, Flow
<1>2. QueuesTyped /\ inBlkAvailCnt \in Nat /\ outBlkAvailCnt \in Nat
  BY <1>1 DEF SharedTypeOK, HostInv, ModelInv, HostTypeOK, ModelTypeOK, QueuesTyped
<1>3. HEffect
  BY <1>1, ParamAssumption, HostEffects
<1>4. UNCHANGED <<inMsgQue, outPend>>
  BY DEF modelVars, mSendVars, mRecvVars
<1>5. InFlow' /\ OutFlow'
  BY <1>1, <1>2, <1>3, <1>4, HostEffectsKeepFlow
<1>6. CreditConserved'
  BY <1>1, <1>2, <1>3, HostEffectsKeepCredit
<1>7. HostFlow'
  BY <1>1, <1>2, ParamAssumption, HostKeepsCalls, HostKeepsFront DEF HostFlow
<1>8. ModelFlow'
  BY <1>1 DEF ModelFlow, ModelCalls, ModelFront, MArgsNext, MCtlOp, MFrontIsData,
     modelVars, mPcVars, mSendVars, mRecvVars
<1> QED BY <1>5, <1>6, <1>7, <1>8 DEF Conserves, Flow

\* And one of the coprocessor.
LEMMA ModelConserves ==
  ASSUME FlowInv, ModelStep, UNCHANGED hostVars
  PROVE  Conserves'
<1>1. /\ SharedTypeOK /\ HostInv /\ ModelInv /\ InFlow /\ OutFlow /\ HostFlow /\ ModelFlow
      /\ CreditConserved
  BY DEF FlowInv, IInv, Conserves, Flow
<1>2. QueuesTyped /\ inBlkAvailCnt \in Nat /\ outBlkAvailCnt \in Nat
  BY <1>1 DEF SharedTypeOK, HostInv, ModelInv, HostTypeOK, ModelTypeOK, QueuesTyped
<1>3. MEffect
  BY <1>1, ParamAssumption, ModelEffects
<1>4. UNCHANGED <<outMsgQue, inPend>>
  BY DEF hostVars, hSendVars, hRecvVars
<1>5. InFlow' /\ OutFlow'
  BY <1>1, <1>2, <1>3, <1>4, ModelEffectsKeepFlow
<1>6. CreditConserved'
  BY <1>1, <1>2, <1>3, ModelEffectsKeepCredit
<1>7. ModelFlow'
  BY <1>1, <1>2, ParamAssumption, ModelKeepsCalls, ModelKeepsFront DEF ModelFlow
<1>8. HostFlow'
  BY <1>1 DEF HostFlow, HostCalls, HostFront, HArgsNext, HCtlOp, HFrontIsData,
     hostVars, hPcVars, hSendVars, hRecvVars
<1> QED BY <1>5, <1>6, <1>7, <1>8 DEF Conserves, Flow

\* Every step of the link is one of a side, or changes nothing.
LEMMA NextSteps ==
  ASSUME [Next]_vars
  PROVE  \/ HostStep /\ UNCHANGED modelVars
         \/ ModelStep /\ UNCHANGED hostVars
         \/ UNCHANGED vars
BY DEF Next, HostLib, HostApp, HostDelete, HostTick, ModelLib, ModelApp, ModelTick, Closed,
   HostStep, HostDeleteStep, ModelStep

\* Every step keeps the credit and the shape of the streams.
LEMMA NextConserves == FlowInv /\ [Next]_vars => FlowInv'
<1> SUFFICES ASSUME FlowInv, [Next]_vars PROVE FlowInv'
  OBVIOUS
<1>1. IInv'
  BY NextIInv DEF FlowInv
<1>2. CASE UNCHANGED vars
  BY <1>1, <1>2 DEF FlowInv, Conserves, Flow, InFlow, OutFlow, InStream, OutStream, HostFlow,
     HostCalls, HostFront, HArgsNext, HCtlOp, HFrontIsData, ModelFlow, ModelCalls, ModelFront,
     MArgsNext, MCtlOp, MFrontIsData, CreditConserved, InCredit, OutCredit, vars, shared,
     hostVars, hPcVars, hSendVars, hRecvVars, modelVars, mPcVars, mSendVars, mRecvVars
<1> QED BY <1>1, <1>2, NextSteps, HostConserves, ModelConserves DEF FlowInv

\* The inductive invariant of the streams holds in every state of the link.
THEOREM FlowInvariance == Spec => []FlowInv
<1>1. Init => FlowInv
  BY InitIInv, InitConserves DEF FlowInv
<1> QED BY <1>1, NextConserves, PTL DEF Spec

\* No block of either direction is lost, or in use by two: m_inBlkAvailCnt and
\* m_outBlkAvailCnt and the messages that hand blocks over and give them back
\* always account for all of them.
THEOREM CreditCorrect == Spec => []CreditConserved
<1>1. FlowInv => CreditConserved
  BY DEF FlowInv, Conserves
<1> QED BY <1>1, FlowInvariance, PTL

\* The asserts of MsgLoop, RecvCall, RecvReturn and RecvHostData never fail:
\* the block after a call is the one with its arguments, whatever the two
\* sides and their timers do in between.
THEOREM ReceiveCorrect == Spec => []ReceiveAsserts
<1>1. ASSUME FlowInv PROVE ReceiveAsserts
  <2>1. /\ SharedTypeOK /\ HostInv /\ ModelInv /\ InFlow /\ OutFlow /\ HostFlow /\ ModelFlow
    BY <1>1 DEF FlowInv, IInv, Conserves, Flow
  <2>2. QueuesTyped /\ recvRtnArgc \in Nat
    BY <2>1 DEF SharedTypeOK, HostInv, ModelInv, HostTypeOK, ModelTypeOK, QueuesTyped
  <2>3. outMsgQue # <<>> => Head(outMsgQue).cmd \notin {"AVL", "PARAM"}
                            /\ (Head(outMsgQue).cmd = "RDY" /\ Head(outMsgQue).ctl \in {"NULL", "HALT"}
                                  => Head(outMsgQue).arg = 0)
    <3> SUFFICES ASSUME outMsgQue # <<>>
                 PROVE  Head(outMsgQue).cmd \notin {"AVL", "PARAM"}
                        /\ (Head(outMsgQue).cmd = "RDY" /\ Head(outMsgQue).ctl \in {"NULL", "HALT"}
                              => Head(outMsgQue).arg = 0)
      OBVIOUS
    <3> DEFINE rest == ctlOut \o outPend
    <3>1. rest \in Seq(CtrlMsg)
      BY <2>2, StreamIndex DEF QueuesTyped
    <3> HIDE DEF rest
    <3>2. OutStream = outMsgQue \o rest
      BY DEF OutStream, rest
    <3>3. /\ OutStream \in Seq(CtrlMsg) /\ OutStream # <<>> /\ Head(OutStream) = Head(outMsgQue)
      BY <2>2, <3>1, <3>2, StreamTail, StreamIndex DEF QueuesTyped
    <3>4. Head(OutStream) = OutStream[1] /\ 1 \in 1..Len(OutStream)
      BY <3>3, TailIndex
    <3>5. Head(outMsgQue) = outMsgQue[1] /\ 1 \in 1..Len(outMsgQue)
      BY <2>2, TailIndex DEF QueuesTyped
    <3> QED BY <2>1, <3>3, <3>4, <3>5 DEF OutFlow, Sized, Without
  <2>4. inMsgQue # <<>> => Head(inMsgQue).cmd # "AVL"
                           /\ (Head(inMsgQue).cmd = "RDY" /\ Head(inMsgQue).ctl \in {"NULL", "HALT"}
                                 => Head(inMsgQue).arg = 0)
    <3> SUFFICES ASSUME inMsgQue # <<>>
                 PROVE  Head(inMsgQue).cmd # "AVL"
                        /\ (Head(inMsgQue).cmd = "RDY" /\ Head(inMsgQue).ctl \in {"NULL", "HALT"}
                              => Head(inMsgQue).arg = 0)
      OBVIOUS
    <3> DEFINE rest == ctlIn \o inPend
    <3>1. rest \in Seq(CtrlMsg)
      BY <2>2, StreamIndex DEF QueuesTyped
    <3> HIDE DEF rest
    <3>2. InStream = inMsgQue \o rest
      BY DEF InStream, rest
    <3>3. /\ InStream \in Seq(CtrlMsg) /\ InStream # <<>> /\ Head(InStream) = Head(inMsgQue)
      BY <2>2, <3>1, <3>2, StreamTail, StreamIndex DEF QueuesTyped
    <3>4. Head(InStream) = InStream[1] /\ 1 \in 1..Len(InStream)
      BY <3>3, TailIndex
    <3>5. Head(inMsgQue) = inMsgQue[1] /\ 1 \in 1..Len(inMsgQue)
      BY <2>2, TailIndex DEF QueuesTyped
    <3> QED BY <2>1, <3>3, <3>4, <3>5 DEF InFlow, Sized, Without
  <2>5. HRecvType # "assert"
    <3>1. HRecvType = "assert" => outMsgQue # <<>> /\ Head(outMsgQue).cmd \in {"AVL", "PARAM"}
      BY <2>2, HRecvTypes DEF QueuesTyped
    <3> QED BY <2>3, <3>1
  <2>6. MRecvType # "assert"
    <3>1. MRecvType = "assert" => inMsgQue # <<>> /\ Head(inMsgQue).cmd = "AVL"
      BY <2>2, MRecvTypes DEF QueuesTyped
    <3> QED BY <2>4, <3>1
  <2>7. \A m \in {Head(q) : q \in {outMsgQue, inMsgQue} \ {<<>>}} :
          m.cmd = "RDY" /\ m.ctl \in {"NULL", "HALT"} => m.arg = 0
    BY <2>3, <2>4
  <2>8. /\ hPc = "args" => HFrontIsData /\ Head(outMsgQue).arg = recvRtnArgc
        /\ mPc = "args" => MFrontIsData /\ Head(inMsgQue).arg = mN
        /\ outBlkDataSize > 0 /\ hPhase = "run" =>
             HFrontIsData /\ Head(outMsgQue).arg = outBlkRdIdx + outBlkDataSize
        /\ inBlkDataSize > 0 =>
             MFrontIsData /\ Head(inMsgQue).arg = inBlkRdIdx + inBlkDataSize
    BY <2>1 DEF HostFlow, HostFront, HArgsNext, ModelFlow, ModelFront, MArgsNext
  <2> QED BY <2>5, <2>6, <2>7, <2>8 DEF ReceiveAsserts
<1> QED BY <1>1, FlowInvariance, PTL

----------------------------------------------------------------------------
\* Room in the control queues.  The length of a queue is its messages of each
\* kind together.
LEMMA CountAll ==
  ASSUME NEW s \in Seq(CtrlMsg), Without({"USER"}, s)
  PROVE  Len(s) = Count("RDY", s) + Count("AVL", s) + Count("PARAM", s)
<1> DEFINE At(c) == {i \in 1..Len(s) : s[i].cmd = c}
<1>1. \A c : IsFiniteSet(At(c)) /\ Count(c, s) = Cardinality(At(c)) /\ Count(c, s) \in Nat
  BY CountType
<1>2. /\ 1..Len(s) = (At("RDY") \cup At("AVL")) \cup At("PARAM")
      /\ At("RDY") \cap At("AVL") = {}
      /\ (At("RDY") \cup At("AVL")) \cap At("PARAM") = {}
  <2>1. \A i \in 1..Len(s) : s[i] \in CtrlMsg
    OBVIOUS
  <2>2. \A i \in 1..Len(s) : s[i].cmd \in {"PARAM", "AVL", "RDY"}
    BY <2>1 DEF Without, CtrlMsg
  <2> QED BY <2>2
<1>3. Cardinality(1..Len(s)) = Len(s)
  <2> DEFINE n == Len(s)
  <2>1. n \in Nat
    BY LenProperties
  <2> HIDE DEF n
  <2>2. Cardinality(1..n) = IF 1 > n THEN 0 ELSE n - 1 + 1
    BY <2>1, FS_Interval
  <2>3. Cardinality(1..n) = n
    BY <2>1, <2>2
  <2> QED BY <2>3 DEF n
<1> HIDE DEF At
<1> DEFINE two == At("RDY") \cup At("AVL")
<1>4. IsFiniteSet(two) /\ Cardinality(two) = Cardinality(At("RDY")) + Cardinality(At("AVL")) - 0
  <2>1. IsFiniteSet(two) /\ Cardinality(two) =
          Cardinality(At("RDY")) + Cardinality(At("AVL")) - Cardinality(At("RDY") \cap At("AVL"))
    BY <1>1, FS_Union
  <2> QED BY <1>2, <2>1, FS_EmptySet
<1>5. Cardinality(two \cup At("PARAM")) = Cardinality(two) + Cardinality(At("PARAM")) - 0
  <2>1. Cardinality(two \cup At("PARAM")) =
          Cardinality(two) + Cardinality(At("PARAM")) - Cardinality(two \cap At("PARAM"))
    BY <1>1, <1>4, FS_Union
  <2> QED BY <1>2, <2>1, FS_EmptySet
<1>6. Cardinality(two \cup At("PARAM")) = Len(s)
  BY <1>2, <1>3
<1> HIDE DEF two
<1>7. /\ Count("RDY", s) = Cardinality(At("RDY")) /\ Count("AVL", s) = Cardinality(At("AVL"))
      /\ Count("PARAM", s) = Cardinality(At("PARAM"))
      /\ Count("RDY", s) \in Nat /\ Count("AVL", s) \in Nat /\ Count("PARAM", s) \in Nat
  BY <1>1
<1> QED BY <1>4, <1>5, <1>6, <1>7

\* What a stream is without, its parts are without.
LEMMA WithoutParts ==
  ASSUME NEW s \in Seq(CtrlMsg), NEW t \in Seq(CtrlMsg), NEW cmds, Without(cmds, s \o t)
  PROVE  Without(cmds, s) /\ Without(cmds, t)
<1>1. /\ Len(s \o t) = Len(s) + Len(t) /\ Len(s) \in Nat /\ Len(t) \in Nat
      /\ \A i \in 1..Len(s) : (s \o t)[i] = s[i]
      /\ \A i \in 1..Len(t) : (s \o t)[Len(s) + i] = t[i]
  BY StreamIndex
<1>2. Without(cmds, s)
  <2>1. \A i \in 1..Len(s) : i \in 1..Len(s \o t)
    BY <1>1
  <2> QED BY <1>1, <2>1 DEF Without
<1>3. Without(cmds, t)
  <2>1. \A i \in 1..Len(t) : Len(s) + i \in 1..Len(s \o t)
    BY <1>1
  <2> QED BY <1>1, <2>1 DEF Without
<1> QED BY <1>2, <1>3

\* Taking the oldest message of b to the end of a.
LEMMA WithoutMove ==
  ASSUME NEW a \in Seq(CtrlMsg), NEW b \in Seq(CtrlMsg), b # <<>>, NEW cmds,
         Without(cmds, b)
  PROVE  /\ Head(b).cmd \notin cmds /\ Without(cmds, Tail(b))
         /\ Without(cmds, a) => Without(cmds, Append(a, Head(b)))
<1>1. Head(b) = b[1] /\ 1 \in 1..Len(b) /\ Head(b) \in CtrlMsg
  BY TailIndex
<1>2. Head(b).cmd \notin cmds
  BY <1>1 DEF Without
<1>3. \A i \in 1..Len(Append(a, Head(b))) :
        Append(a, Head(b))[i] = Head(b)
        \/ (i \in 1..Len(a) /\ Append(a, Head(b))[i] = a[i])
  BY <1>1
<1> QED BY <1>2, <1>3, PairedTail DEF Without

\* With no user messages; the parameters come first and only once.
NoUser ==
  /\ Without({"USER"}, ctlIn) /\ Without({"USER"}, inPend)
  /\ Without({"USER"}, ctlOut) /\ Without({"USER"}, outPend)
ParamsFirst == \A i \in 2..Len(ctlIn) : ctlIn[i].cmd # "PARAM"
SlotInv == NoUser /\ ParamsFirst

\* A step of the host writes no parameters, and no user message unless it is
\* in SendHostMsg.
LEMMA HostKeepsSlots ==
  ASSUME QueuesTyped, InFlow, HEffect, hOp # "SendHostMsg", SlotInv, UNCHANGED outPend
  PROVE  SlotInv'
<1>t. /\ ctlIn \in Seq(CtrlMsg) /\ inPend \in Seq(CtrlMsg) /\ ctlOut \in Seq(CtrlMsg)
  BY DEF QueuesTyped
<1>1. CASE UNCHANGED <<ctlIn, ctlOut>> /\ Without({"USER"}, inPend')
  BY <1>1 DEF SlotInv, NoUser, ParamsFirst
<1>2. CASE UNCHANGED <<ctlIn, inPend>> /\ ctlOut # <<>> /\ ctlOut' = Tail(ctlOut)
  <2>1. Without({"USER"}, Tail(ctlOut))
    BY <1>t, <1>2, PairedTail DEF SlotInv, NoUser
  <2> QED BY <1>2, <2>1 DEF SlotInv, NoUser, ParamsFirst
<1>3. CASE HPut
  <2>1. /\ Without({"USER"}, ctlIn') /\ Without({"USER"}, inPend')
    BY <1>3, <1>t, WithoutMove DEF HPut, SlotInv, NoUser
  <2>2. Head(inPend).cmd # "PARAM" /\ Head(inPend) \in CtrlMsg
    BY <1>3, <1>t, WithoutMove, TailIndex DEF HPut, InFlow
  <2>3. ParamsFirst'
    <3>1. \A i \in 2..Len(ctlIn') :
            ctlIn'[i] = Head(inPend) \/ (i \in 2..Len(ctlIn) /\ ctlIn'[i] = ctlIn[i])
      BY <1>3, <1>t, <2>2 DEF HPut
    <3> QED BY <2>2, <3>1 DEF SlotInv, ParamsFirst
  <2> QED BY <1>3, <2>1, <2>3 DEF HPut, SlotInv, NoUser
<1>4. CASE HSection
  BY <1>1, <1>4 DEF HSection
<1>5. CASE HGive
  <2>1. Without({"USER"}, <<AvlMsg>>)
    BY DEF Without, AvlMsg
  <2> QED BY <1>1, <1>5, <2>1 DEF HGive
<1>6. CASE HQuiet \/ HCounts \/ HPopsMsg \/ HPopsBlk
  BY <1>1, <1>6 DEF HQuiet, HCounts, HPopsMsg, HPopsBlk, SlotInv, NoUser
<1>7. CASE HClears \/ HTakes
  BY <1>2, <1>7 DEF HClears, HTakes
<1> QED BY <1>3, <1>4, <1>5, <1>6, <1>7 DEF HEffect

\* Nor does one of the coprocessor; taking the oldest message off leaves the
\* parameters first.
LEMMA ModelKeepsSlots ==
  ASSUME QueuesTyped, MEffect, mOp # "SendHostMsg", SlotInv, UNCHANGED inPend
  PROVE  SlotInv'
<1>t. /\ ctlOut \in Seq(CtrlMsg) /\ outPend \in Seq(CtrlMsg) /\ ctlIn \in Seq(CtrlMsg)
  BY DEF QueuesTyped
<1>1. CASE UNCHANGED <<ctlIn, ctlOut>> /\ Without({"USER"}, outPend')
  BY <1>1 DEF SlotInv, NoUser, ParamsFirst
<1>2. CASE UNCHANGED <<ctlOut, outPend>> /\ ctlIn # <<>> /\ ctlIn' = Tail(ctlIn)
  <2>1. Without({"USER"}, Tail(ctlIn))
    BY <1>t, <1>2, PairedTail DEF SlotInv, NoUser
  <2>2. ParamsFirst'
    <3>1. /\ Len(Tail(ctlIn)) = Len(ctlIn) - 1 /\ Len(ctlIn) \in Nat
          /\ \A i \in 1..Len(Tail(ctlIn)) : Tail(ctlIn)[i] = ctlIn[i + 1]
      BY <1>t, <1>2, TailIndex
    <3>2. \A i \in 2..Len(Tail(ctlIn)) : i + 1 \in 2..Len(ctlIn) /\ Tail(ctlIn)[i] = ctlIn[i + 1]
      BY <3>1
    <3> QED BY <1>2, <3>2 DEF SlotInv, ParamsFirst
  <2> QED BY <1>2, <2>1, <2>2 DEF SlotInv, NoUser
<1>3. CASE MPut
  <2>1. /\ Without({"USER"}, ctlOut') /\ Without({"USER"}, outPend')
    BY <1>3, <1>t, WithoutMove DEF MPut, SlotInv, NoUser
  <2> QED BY <1>3, <2>1 DEF MPut, SlotInv, NoUser, ParamsFirst
<1>4. CASE MSection
  BY <1>1, <1>4 DEF MSection
<1>5. CASE MGive
  <2>1. Without({"USER"}, <<AvlMsg>>)
    BY DEF Without, AvlMsg
  <2> QED BY <1>1, <1>5, <2>1 DEF MGive
<1>6. CASE MQuiet \/ MCounts \/ MPopsMsg \/ MPopsBlk
  BY <1>1, <1>6 DEF MQuiet, MCounts, MPopsMsg, MPopsBlk, SlotInv, NoUser
<1>7. CASE MClears \/ MTakes
  BY <1>2, <1>7 DEF MClears, MTakes
<1> QED BY <1>3, <1>4, <1>5, <1>6, <1>7 DEF MEffect

\* The parameters take one slot at most, and none while a credit that has
\* been counted is at the front.
LEMMA ParamsCount ==
  ASSUME ctlIn \in Seq(CtrlMsg), ParamsFirst, ModelControl
  PROVE  Count("PARAM", ctlIn) + One(mPc = "clear") <= 1 /\ Count("PARAM", ctlIn) \in Nat
<1> DEFINE P == {i \in 1..Len(ctlIn) : ctlIn[i].cmd = "PARAM"}
<1>1. IsFiniteSet(P) /\ Count("PARAM", ctlIn) = Cardinality(P) /\ Count("PARAM", ctlIn) \in Nat
  BY CountType
<1>2. P \subseteq {1}
  BY LenProperties DEF ParamsFirst
<1>3. CASE mPc = "clear"
  <2>1. ctlIn # <<>> /\ Head(ctlIn).cmd = "AVL" /\ Head(ctlIn) = ctlIn[1]
    BY <1>3, TailIndex DEF ModelControl
  <2>2. P = {}
    BY <1>2, <2>1
  <2> QED BY <1>1, <1>3, <2>2, FS_EmptySet DEF One
<1>4. CASE mPc # "clear"
  <2>1. P = {} \/ P = {1}
    BY <1>2
  <2>2. Cardinality(P) \in {0, 1}
    BY <2>1, FS_EmptySet, FS_Singleton
  <2> QED BY <1>1, <1>4, <2>2 DEF One
<1> QED BY <1>3, <1>4

\* The sums of the credit leave a slot for whoever still has to write.
LEMMA RoomLeft ==
  ASSUME NEW n \in Nat, NEW r \in Nat, NEW a \in Nat, NEW p \in Nat,
         NEW pn \in Nat, NEW pr \in Nat, NEW pa \in Nat,
         NEW total \in Nat, NEW back \in Nat, NEW clears \in Nat,
         n = r + a + p, pn = pr + pa, pn > 0,
         r + pr <= total, a + pa <= back + clears, p + clears <= 1
  PROVE  n <= total + back
OBVIOUS

\* Whoever has a message to write finds a slot for it, in a state with the
\* invariants.
LEMMA RoomForAll ==
  ASSUME FlowInv, SlotInv, CtlQueSize > InBlkCnt + OutBlkCnt
  PROVE  SlotWhenNeeded
<1>1. /\ SharedTypeOK /\ HostInv /\ ModelInv /\ InFlow /\ OutFlow /\ CreditConserved
      /\ ModelControl
  BY DEF FlowInv, IInv, Conserves, Flow, ModelInv
<1>2. QueuesTyped /\ inBlkAvailCnt \in Nat /\ outBlkAvailCnt \in Nat
  BY <1>1 DEF SharedTypeOK, HostInv, ModelInv, HostTypeOK, ModelTypeOK, QueuesTyped
<1>3. /\ Without({"PARAM"}, ctlOut) /\ Without({"PARAM"}, outPend) /\ Without({"PARAM"}, inPend)
  <2>1. ctlOut \o outPend \in Seq(CtrlMsg)
    BY <1>2, StreamIndex DEF QueuesTyped
  <2>2. Without({"PARAM"}, ctlOut \o outPend)
    BY <1>1, <1>2, <2>1, WithoutParts DEF OutFlow, OutStream, QueuesTyped
  <2> QED BY <1>1, <1>2, <2>2, WithoutParts DEF InFlow, QueuesTyped
<1>4. /\ Count("PARAM", ctlOut) = 0 /\ Count("PARAM", outPend) = 0 /\ Count("PARAM", inPend) = 0
  BY <1>2, <1>3, CountWithout DEF QueuesTyped
<1>5. /\ Len(ctlIn) = Count("RDY", ctlIn) + Count("AVL", ctlIn) + Count("PARAM", ctlIn)
      /\ Len(inPend) = Count("RDY", inPend) + Count("AVL", inPend) + Count("PARAM", inPend)
      /\ Len(ctlOut) = Count("RDY", ctlOut) + Count("AVL", ctlOut) + Count("PARAM", ctlOut)
      /\ Len(outPend) = Count("RDY", outPend) + Count("AVL", outPend) + Count("PARAM", outPend)
  BY <1>2, CountAll DEF QueuesTyped, SlotInv, NoUser
<1>6. /\ Len(ctlIn) \in Nat /\ Len(ctlOut) \in Nat
      /\ inPend # <<>> => Len(inPend) > 0
      /\ outPend # <<>> => Len(outPend) > 0
  BY <1>2, EmptySeq, LenProperties DEF QueuesTyped
<1>7. /\ Count("RDY", ctlIn) \in Nat /\ Count("AVL", ctlIn) \in Nat
      /\ Count("RDY", inPend) \in Nat /\ Count("AVL", inPend) \in Nat
      /\ Count("RDY", ctlOut) \in Nat /\ Count("AVL", ctlOut) \in Nat
      /\ Count("RDY", outPend) \in Nat /\ Count("AVL", outPend) \in Nat
      /\ Count("RDY", inMsgQue) \in Nat /\ Count("RDY", outMsgQue) \in Nat
      /\ Count("PARAM", ctlIn) \in Nat
  BY <1>2, CountType DEF QueuesTyped
<1> DEFINE mnx == One(mPc = "next")
           mcl == One(mPc = "clear")
           nx == One(hPc = "next")
           cl == One(hPc = "clear")
           par == Count("PARAM", ctlIn)
<1>8. mnx \in {0, 1} /\ mcl \in {0, 1} /\ nx \in {0, 1} /\ cl \in {0, 1}
  BY DEF One
<1>9. par + mcl <= 1 /\ par \in Nat
  BY <1>1, <1>2, ParamsCount DEF QueuesTyped, SlotInv
<1>10. inBlkAvailCnt
       + Count("RDY", inPend) + Count("RDY", ctlIn) + Count("RDY", inMsgQue)
       + mnx + Count("AVL", outPend) + Count("AVL", ctlOut) - cl = InBlkCnt
  BY <1>1 DEF CreditConserved, InCredit
<1>11. outBlkAvailCnt
       + Count("RDY", outPend) + Count("RDY", ctlOut) + Count("RDY", outMsgQue)
       + nx + Count("AVL", inPend) + Count("AVL", ctlIn) - mcl = OutBlkCnt
  BY <1>1 DEF CreditConserved, OutCredit
<1>12. CtlQueSize \in Nat /\ InBlkCnt \in Nat /\ OutBlkCnt \in Nat
  BY ParamAssumption DEF ParamAssumption
<1>h. Count("AVL", ctlOut) >= cl /\ Count("AVL", ctlIn) >= mcl
  <2>1. ASSUME hPc = "clear" PROVE Count("AVL", ctlOut) >= 1
    <3>1. ctlOut # <<>> /\ Head(ctlOut).cmd = "AVL" /\ ctlOut \in Seq(CtrlMsg)
      BY <1>1, <1>2, <2>1 DEF HostInv, HostControl, QueuesTyped
    <3>2. Count("AVL", ctlOut) = One(Head(ctlOut).cmd = "AVL") + Count("AVL", Tail(ctlOut))
      BY <3>1, CountHead
    <3>3. Tail(ctlOut) \in Seq(CtrlMsg)
      BY <3>1, TailIndex
    <3>4. Count("AVL", Tail(ctlOut)) \in Nat
      BY <3>3, CountType
    <3>5. One(Head(ctlOut).cmd = "AVL") = 1
      BY <3>1 DEF One
    <3> QED BY <3>2, <3>4, <3>5
  <2>2. ASSUME mPc = "clear" PROVE Count("AVL", ctlIn) >= 1
    <3>1. ctlIn # <<>> /\ Head(ctlIn).cmd = "AVL" /\ ctlIn \in Seq(CtrlMsg)
      BY <1>1, <1>2, <2>2 DEF ModelControl, QueuesTyped
    <3>2. Count("AVL", ctlIn) = One(Head(ctlIn).cmd = "AVL") + Count("AVL", Tail(ctlIn))
      BY <3>1, CountHead
    <3>3. Tail(ctlIn) \in Seq(CtrlMsg)
      BY <3>1, TailIndex
    <3>4. Count("AVL", Tail(ctlIn)) \in Nat
      BY <3>3, CountType
    <3>5. One(Head(ctlIn).cmd = "AVL") = 1
      BY <3>1 DEF One
    <3> QED BY <3>2, <3>4, <3>5
  <2>3. cl = 0 \/ (cl = 1 /\ hPc = "clear")
    BY DEF One
  <2>4. mcl = 0 \/ (mcl = 1 /\ mPc = "clear")
    BY DEF One
  <2> HIDE DEF cl, mcl
  <2>5. Count("AVL", ctlOut) >= cl
    BY <1>7, <2>1, <2>3
  <2>6. Count("AVL", ctlIn) >= mcl
    BY <1>7, <2>2, <2>4
  <2> QED BY <2>5, <2>6
<1> HIDE DEF mnx, mcl, nx, cl, par
<1>13. /\ Count("RDY", ctlIn) + Count("RDY", inPend) <= InBlkCnt
       /\ Count("AVL", ctlOut) + Count("AVL", outPend) <= InBlkCnt + cl
  BY <1>2, <1>7, <1>8, <1>h, <1>10, <1>12
<1>14. /\ Count("RDY", ctlOut) + Count("RDY", outPend) <= OutBlkCnt
       /\ Count("AVL", ctlIn) + Count("AVL", inPend) <= OutBlkCnt + mcl
  BY <1>2, <1>7, <1>8, <1>h, <1>11, <1>12
<1>15. ASSUME inPend # <<>> PROVE Len(ctlIn) < CtlQueSize
  <2>1. Len(ctlIn) = Count("RDY", ctlIn) + Count("AVL", ctlIn) + par
    BY <1>5 DEF par
  <2>2. Len(inPend) = Count("RDY", inPend) + Count("AVL", inPend) /\ Len(inPend) > 0
        /\ Len(inPend) \in Nat
    BY <1>4, <1>5, <1>6, <1>7, <1>15, SMTT(30)
  <2>3. mcl \in Nat
    BY <1>8
  <2>4. Len(ctlIn) <= InBlkCnt + OutBlkCnt
    BY <1>6, <1>7, <1>9, <1>12, <1>13, <1>14, <2>1, <2>2, <2>3, RoomLeft
  <2> QED BY <1>6, <1>12, <2>4
<1>16. ASSUME outPend # <<>> PROVE Len(ctlOut) < CtlQueSize
  <2>1. Len(ctlOut) = Count("RDY", ctlOut) + Count("AVL", ctlOut) + 0
    BY <1>4, <1>5
  <2>2. Len(outPend) = Count("RDY", outPend) + Count("AVL", outPend) /\ Len(outPend) > 0
        /\ Len(outPend) \in Nat
    BY <1>4, <1>5, <1>6, <1>7, <1>16, SMTT(30)
  <2>3. cl \in Nat /\ 0 + cl <= 1
    BY <1>8
  <2>4. Len(ctlOut) <= OutBlkCnt + InBlkCnt
    BY <1>6, <1>7, <1>12, <1>13, <1>14, <2>1, <2>2, <2>3, RoomLeft
  <2> QED BY <1>6, <1>12, <2>4
<1> QED BY <1>15, <1>16 DEF SlotWhenNeeded

\* With no user messages, and a control queue that has a slot for every block of
\* both directions and one more, as the sizes the constructor allows give it:
\* SendMsgInternal never waits for a slot, so no thread waits with its lock
\* held.
THEOREM SlotCorrect ==
  ASSUME CtlQueSize > InBlkCnt + OutBlkCnt, "SendHostMsg" \notin HostOps \cup ModelOps
  PROVE  Spec => []SlotWhenNeeded
<1>1. Init => SlotInv
  <2> SUFFICES ASSUME Init PROVE SlotInv
    OBVIOUS
  <2>1. /\ \A i \in 1..Len(ctlIn) : ctlIn[i].cmd = IF i = 1 THEN "PARAM" ELSE "AVL"
        /\ Len(ctlIn) = OutBlkCnt + 1
        /\ ctlOut = <<>> /\ inPend = <<>> /\ outPend = <<>>
    BY InitQueues
  <2>2. OutBlkCnt \in Nat
    BY ParamAssumption DEF ParamAssumption
  <2> QED BY <2>1, <2>2 DEF SlotInv, NoUser, ParamsFirst, Without
<1>2. ASSUME FlowInv, SlotInv, [Next]_vars PROVE SlotInv'
  <2>1. /\ SharedTypeOK /\ HostInv /\ ModelInv /\ InFlow /\ HostFlow /\ ModelFlow
    BY <1>2 DEF FlowInv, IInv, Conserves, Flow
  <2>2. QueuesTyped
    BY <2>1 DEF SharedTypeOK, HostInv, ModelInv, HostTypeOK, ModelTypeOK, QueuesTyped
  <2>3. hOp # "SendHostMsg" /\ mOp # "SendHostMsg"
    BY <2>1 DEF HostInv, HostTypeOK, ModelInv, ModelTypeOK
  <2>4. CASE HostStep /\ UNCHANGED modelVars
    <3>1. HEffect
      BY <2>1, <2>4, ParamAssumption, HostEffects
    <3>2. UNCHANGED outPend
      BY <2>4 DEF modelVars, mSendVars
    <3> QED BY <1>2, <2>1, <2>2, <2>3, <3>1, <3>2, HostKeepsSlots
  <2>5. CASE ModelStep /\ UNCHANGED hostVars
    <3>1. MEffect
      BY <2>1, <2>5, ParamAssumption, ModelEffects
    <3>2. UNCHANGED inPend
      BY <2>5 DEF hostVars, hSendVars
    <3> QED BY <1>2, <2>2, <2>3, <3>1, <3>2, ModelKeepsSlots
  <2>6. CASE UNCHANGED vars
    BY <1>2, <2>6 DEF SlotInv, NoUser, ParamsFirst, vars, shared, hostVars, hSendVars,
       modelVars, mSendVars
  <2> QED BY <1>2, <2>4, <2>5, <2>6, NextSteps
<1>3. FlowInv /\ SlotInv => SlotWhenNeeded
  BY RoomForAll
<1>4. Spec => []SlotInv
  BY <1>1, <1>2, FlowInvariance, PTL DEF Spec
<1> QED BY <1>3, <1>4, FlowInvariance, PTL

=============================================================================
