--------------------------- MODULE HtModelUnitProofs ---------------------------
(***************************************************************************)
(* The coprocessor side keeps its types, its lock discipline and the credit of its *)
(* flushes in each of its steps, for every size of queue and block.        *)
(***************************************************************************)
EXTENDS HtModelUnit, HifCommonProofs

\* FlushOutBlk writes one message when the block being filled has data in it,
\* and none when it is empty.
LEMMA MFlushMsgsType ==
  ASSUME ModelTypeOK, ParamAssumption
  PROVE  /\ MFlushMsgs \in Seq(CtrlMsg)
         /\ outBlkWrIdx = 0 => MFlushMsgs = <<>> /\ Len(MFlushMsgs) = 0
         /\ outBlkWrIdx > 0 => Len(MFlushMsgs) = 1
BY MsgType DEF ModelTypeOK, mStatus, MFlushMsgs, Ctl, ParamAssumption

\* A marker, halt or return writes at least one message, and no more than the
\* blocks it asked credit for.
LEMMA MCtlMsgsType ==
  ASSUME ModelTypeOK, MCtlOp, NEW w \in Nat
  PROVE  /\ MCtlMsgs(w) \in Seq(CtrlMsg)
         /\ Len(MCtlMsgs(w)) \in 1..MCtlNeed
         /\ MCtlItem \in Item
<1>1. CASE mOp = "SendHostDataMarker"
  BY <1>1, MsgType DEF MCtlMsgs, MCtlNeed, MCtlItem, MkItem, Item, Ctl
<1>2. CASE mOp = "SendHostHalt"
  BY <1>2, MsgType DEF MCtlMsgs, MCtlNeed, MCtlItem, MkItem, Item, Ctl
<1>3. CASE mOp = "SendReturn"
  <2>1. mN \in Nat  BY DEF ModelTypeOK, mStatus
  <2> QED BY <1>3, <2>1, MsgType DEF MCtlMsgs, MCtlNeed, MCtlItem, MkItem, Item, Ctl
<1> QED BY <1>1, <1>2, <1>3 DEF MCtlOp

----------------------------------------------------------------------------
\* The part of the invariant the coprocessor side keeps.
ModelInv == ModelTypeOK /\ ModelControl /\ (outBlkWrIdx > 0 => outBlkAvailCnt > 0)

\* Sending a marker, halt or return, with or without a flush before it, keeps
\* the coprocessor's part of the invariant.
LEMMA MSendCtlTyped ==
  ASSUME ParamAssumption, SharedTypeOK, ModelInv,
         NEW flush \in Seq(CtrlMsg), MSendCtl(flush), MCtlOp
  PROVE  SharedTypeOK' /\ ModelInv'
<1>t. ModelTypeOK /\ ModelControl
  BY DEF ModelInv
<1> DEFINE msgs == MCtlMsgs(IF flush = <<>> THEN outBlkWrIdx ELSE 0)
           args == Fresh(Len(outSent) + 1, mN)
<1>1. msgs \in Seq(CtrlMsg) /\ Len(msgs) \in 1..MCtlNeed /\ MCtlItem \in Item
  <2>1. (IF flush = <<>> THEN outBlkWrIdx ELSE 0) \in Nat
    BY <1>t DEF ModelTypeOK, mStatus, ParamAssumption
  <2> QED BY <1>t, <2>1, MCtlMsgsType
<1>2. args \in Seq(Nat) /\ MkWords(args) \in Seq(Item)
  <2>1. Len(outSent) + 1 \in Nat /\ mN \in Nat
    BY <1>t DEF ModelTypeOK, mStatus, SharedTypeOK
  <2> QED BY <2>1, FreshType, MkWordsType
<1>3. Len(flush) \in Nat /\ MCtlNeed \in Nat /\ Len(msgs) \in Nat
  BY <1>1, LenProperties DEF MCtlNeed
<1>4. /\ MWriteThen("app", flush \o msgs,
                    IF mOp = "SendHostHalt" THEN "halted" ELSE "idle")
      /\ NextOutBlks(Len(flush) + Len(msgs))
      /\ outBlkAvailCnt - Len(flush) >= MCtlNeed
      /\ outSent' = outSent \o <<MCtlItem>> \o MkWords(args)
      /\ outBlk' = [outBlk EXCEPT ![(mOutBlkIdx + Len(flush) + 1) % OutBlkCnt] =
                                  CopyIn(@, 0, args)]
      /\ UNCHANGED <<mStatus, mOp, mN, mRecvVars, ctlOut, ctlIn, inBlk, outRcvd, inLog>>
  BY DEF MSendCtl
<1> HIDE DEF msgs, args
<1>5. outPend' \in Seq(CtrlMsg) /\ outPend' # <<>>
  <2>1. flush \o msgs \in Seq(CtrlMsg) /\ Len(flush \o msgs) = Len(flush) + Len(msgs)
    BY <1>1, ConcatProperties
  <2> QED BY <1>1, <1>3, <1>4, <2>1, EmptySeq DEF MWriteThen
<1>6. outBlkAvailCnt' \in Nat /\ outBlkWrIdx' = 0 /\ mOutBlkIdx' \in 0..OutBlkCnt-1
  BY <1>t, <1>1, <1>3, <1>4, SMTT(30) DEF NextOutBlks, ModelTypeOK, mStatus, ParamAssumption
<1>7. outSent' \in Seq(Item)
  BY <1>1, <1>2, <1>4, ConcatProperties DEF SharedTypeOK
<1>8. outBlk' \in [0..OutBlkCnt-1 -> OutWords]
  BY <1>2, <1>4, CopyInType DEF SharedTypeOK, OutWords, ParamAssumption
<1>9. SharedTypeOK'
  BY <1>4, <1>7, <1>8 DEF SharedTypeOK, inLog
<1>10. ModelTypeOK'
  BY <1>t, <1>4, <1>5, <1>6 DEF ModelTypeOK, mStatus, MWriteThen, mRecvVars, MPc, ParamAssumption
<1>11. ModelControl'
  BY <1>t, <1>4, <1>5 DEF ModelControl, MWriteThen
<1> QED BY <1>6, <1>9, <1>10, <1>11 DEF ModelInv

\* Every step of the coprocessor's sending calls keeps the coprocessor's part
\* of the invariant.
LEMMA ModelSendSteps ==
  ASSUME ParamAssumption, SharedTypeOK, ModelInv, ModelSendStep
  PROVE  SharedTypeOK' /\ ModelInv'
<1>t. ModelTypeOK /\ ModelControl
  BY DEF ModelInv
<1>f. /\ MFlushMsgs \in Seq(CtrlMsg)
      /\ outBlkWrIdx = 0 => MFlushMsgs = <<>> /\ Len(MFlushMsgs) = 0
      /\ outBlkWrIdx > 0 => Len(MFlushMsgs) = 1 /\ outBlkAvailCnt > 0
      /\ outBlkAvailCnt - Len(MFlushMsgs) \in Nat
  <2>1. outBlkWrIdx \in Nat /\ outBlkAvailCnt \in Nat
    BY <1>t DEF ModelTypeOK, mStatus, ParamAssumption
  <2>2. outBlkWrIdx > 0 => outBlkAvailCnt > 0
    BY DEF ModelInv
  <2>3. /\ MFlushMsgs \in Seq(CtrlMsg)
        /\ outBlkWrIdx = 0 => MFlushMsgs = <<>> /\ Len(MFlushMsgs) = 0
        /\ outBlkWrIdx > 0 => Len(MFlushMsgs) = 1
    BY <1>t, MFlushMsgsType
  <2> QED BY <2>1, <2>2, <2>3
<1>w. outBlkWrIdx \in Nat /\ outBlkAvailCnt \in Nat
  BY <1>t DEF ModelTypeOK, mStatus, ParamAssumption
<1>i. \A k \in Nat : (mOutBlkIdx + k) % OutBlkCnt \in 0..OutBlkCnt-1
  BY <1>t DEF ModelTypeOK, mStatus, ParamAssumption
<1>1. CASE MSendHostMsg
  <2>1. UserMsg(Len(outSent) + 1) \in CtrlMsg /\ MkItem("user", Len(outSent) + 1) \in Item
    BY MsgType DEF SharedTypeOK, MkItem, Item
  <2>2. outPend' \in Seq(CtrlMsg) /\ outPend' # <<>>
    BY <1>1, <1>f, <2>1, AppendProperties DEF MSendHostMsg, MWriteThen
  <2>3. SharedTypeOK'
    BY <1>1, <2>1 DEF MSendHostMsg, SharedTypeOK, inLog
  <2>4. outBlkAvailCnt' \in Nat /\ outBlkWrIdx' = 0 /\ mOutBlkIdx' \in 0..OutBlkCnt-1
    BY <1>1, <1>f, <1>i DEF MSendHostMsg, NextOutBlks
  <2>5. ModelTypeOK'
    BY <1>1, <1>t, <2>2, <2>4 DEF MSendHostMsg, ModelTypeOK, mStatus, MWriteThen, mRecvVars, MPc,
       ParamAssumption
  <2>6. ModelControl'
    BY <1>1, <1>t, <2>2 DEF MSendHostMsg, ModelTypeOK, mStatus, ModelControl, MWriteThen, MPc
  <2> QED BY <2>3, <2>4, <2>5, <2>6 DEF ModelInv
<1>2. CASE MFlushHostData
  <2>1. CASE outBlkWrIdx = 0
    BY <1>2, <1>t, <2>1 DEF MFlushHostData, SharedTypeOK, shared, ModelTypeOK, mStatus, ModelControl,
       ModelInv, mRecvVars, mSendVars, MPc, MReturn
  <2>2. CASE outBlkWrIdx > 0
    <3>1. outPend' \in Seq(CtrlMsg) /\ outPend' # <<>>
      BY <1>2, <1>f, <2>2, SMTT(30) DEF MFlushHostData, MWriteThen
    <3>2. outBlkAvailCnt' \in Nat /\ outBlkWrIdx' = 0 /\ mOutBlkIdx' \in 0..OutBlkCnt-1
      <4>1. NextOutBlks(1)
        BY <1>2, <1>w, <2>2 DEF MFlushHostData
      <4> QED BY <1>f, <1>i, <1>w, <2>2, <4>1 DEF NextOutBlks
    <3>3. ModelTypeOK'
      BY <1>2, <1>t, <2>2, <3>1, <3>2 DEF MFlushHostData, ModelTypeOK, mStatus, MWriteThen,
         mRecvVars, MPc, ParamAssumption
    <3>c. mPc' = "write" /\ mThen' = "idle" /\ outLock' = "app" /\ ctlIn' = ctlIn
      BY <1>2, <1>w, <2>2 DEF MFlushHostData, MWriteThen, shared
    <3>4. ModelControl'
      BY <3>1, <3>c DEF ModelControl
    <3>5. SharedTypeOK'
      BY <1>2 DEF MFlushHostData, SharedTypeOK, shared
    <3> QED BY <3>2, <3>3, <3>4, <3>5 DEF ModelInv
  <2> QED BY <1>2, <2>1, <2>2 DEF MFlushHostData
<1>3. CASE MSendCtlFirst
  BY <1>3, <1>f, MSendCtlTyped DEF MSendCtlFirst
<1>4. CASE MSendCtlNoCredit
  <2>1. CASE outBlkWrIdx = 0
    BY <1>4, <1>t, <2>1 DEF MSendCtlNoCredit, SharedTypeOK, shared, ModelTypeOK, mStatus, ModelControl,
       ModelInv, mRecvVars, mSendVars, MPc
  <2>2. CASE outBlkWrIdx > 0
    <3>1. outPend' \in Seq(CtrlMsg) /\ outPend' # <<>>
      <4>1. outPend' = MFlushMsgs
        BY <1>4, <1>w, <2>2 DEF MSendCtlNoCredit, MWriteThen
      <4>2. Len(MFlushMsgs) = 1
        BY <1>f, <2>2
      <4> QED BY <1>f, <4>1, <4>2, EmptySeq
    <3>2. outBlkAvailCnt' \in Nat /\ outBlkWrIdx' = 0 /\ mOutBlkIdx' \in 0..OutBlkCnt-1
      <4>1. NextOutBlks(1)
        BY <1>4, <1>w, <2>2 DEF MSendCtlNoCredit
      <4> QED BY <1>f, <1>i, <1>w, <2>2, <4>1 DEF NextOutBlks
    <3>3. ModelTypeOK'
      BY <1>4, <1>t, <1>w, <2>2, <3>1, <3>2 DEF MSendCtlNoCredit, ModelTypeOK, mStatus, MWriteThen,
         mRecvVars, MPc, ParamAssumption
    <3>c. mPc' = "write" /\ mThen' = "que" /\ outLock' = "app" /\ ctlIn' = ctlIn
      BY <1>4, <1>w, <2>2 DEF MSendCtlNoCredit, MWriteThen, shared
    <3>4. ModelControl'
      BY <3>1, <3>c DEF ModelControl
    <3>5. SharedTypeOK'
      BY <1>4 DEF MSendCtlNoCredit, SharedTypeOK, shared
    <3> QED BY <3>2, <3>3, <3>4, <3>5 DEF ModelInv
  <2> QED BY <1>w, <2>1, <2>2
<1>5. CASE MSendCtlRetry
  <2>1. CASE MSendCtl(<<>>)
    BY <1>5, <2>1, EmptySeq, MSendCtlTyped DEF MSendCtlRetry
  <2>2. CASE ~MSendCtl(<<>>)
    <3>1. /\ mPc = "relock" /\ outLock = "free"
          /\ \/ MReturn
             \/ mPc' = "que" /\ mThen' = "lock" /\ UNCHANGED <<mOp, mN>>
          /\ UNCHANGED <<mStatus, mSendVars, mRecvVars, shared>>
      BY <1>5, <2>2 DEF MSendCtlRetry
    <3>2. SharedTypeOK'
      BY <3>1 DEF SharedTypeOK, shared
    <3>3. ModelTypeOK'
      BY <1>t, <3>1 DEF ModelTypeOK, mStatus, mRecvVars, mSendVars, MPc, MReturn
    <3>4. ModelControl'
      BY <1>t, <3>1 DEF ModelControl, mSendVars, shared, MReturn
    <3> QED BY <3>1, <3>2, <3>3, <3>4 DEF ModelInv, mSendVars
  <2> QED BY <2>1, <2>2
<1>6. CASE MSendDataChunk
  <2> DEFINE cnt == Lesser(mN, OutBlkSize - outBlkWrIdx)
             ws  == Fresh(Len(outSent), cnt)
  <2>1. /\ cnt \in Nat /\ cnt <= mN /\ outBlkWrIdx + cnt <= OutBlkSize
    BY <1>t DEF ModelTypeOK, mStatus, Lesser, ParamAssumption
  <2>2. ws \in Seq(Nat) /\ MkWords(ws) \in Seq(Item)
    <3>1. Len(outSent) \in Nat
      BY DEF SharedTypeOK
    <3> QED BY <2>1, <3>1, FreshType, MkWordsType
  <2>3. /\ mPc = "data" /\ outBlkAvailCnt > 0
        /\ outBlk' = [outBlk EXCEPT ![mOutBlkIdx] = CopyIn(@, outBlkWrIdx, ws)]
        /\ outSent' = outSent \o MkWords(ws)
        /\ \/ /\ outBlkWrIdx + cnt < OutBlkSize
              /\ outBlkWrIdx' = outBlkWrIdx + cnt
              /\ outLock' = "free" /\ MReturn
              /\ UNCHANGED <<outPend, outBlkAvailCnt, mOutBlkIdx>>
           \/ /\ outBlkWrIdx + cnt = OutBlkSize
              /\ mN' = mN - cnt /\ mOp' = mOp
              /\ MWriteThen("app", <<Rdy("DATA", OutBlkSize)>>,
                            IF mN = cnt THEN "idle" ELSE "data")
              /\ NextOutBlks(1)
        /\ UNCHANGED <<mStatus, mRecvVars, ctlOut, ctlIn, inBlk, outRcvd, inLog>>
    BY <1>6 DEF MSendDataChunk
  <2> HIDE DEF cnt, ws
  <2>4. outBlk' \in [0..OutBlkCnt-1 -> OutWords]
    BY <1>w, <2>2, <2>3, CopyInType DEF SharedTypeOK, OutWords, ParamAssumption
  <2>5. SharedTypeOK'
    BY <2>2, <2>3, <2>4, ConcatProperties DEF SharedTypeOK, inLog
  <2>6. Rdy("DATA", OutBlkSize) \in CtrlMsg
    BY MsgType DEF Ctl, ParamAssumption
  <2>7. CASE outBlkWrIdx + cnt < OutBlkSize
    <3>1. /\ outBlkWrIdx' = outBlkWrIdx + cnt /\ outLock' = "free" /\ MReturn
          /\ UNCHANGED <<outPend, outBlkAvailCnt, mOutBlkIdx, mStatus, mRecvVars, ctlIn>>
      BY <2>1, <2>3, <2>7, <1>w DEF ParamAssumption
    <3>2. outBlkWrIdx' \in 0..OutBlkSize-1
      BY <1>w, <2>1, <2>7, <3>1 DEF ParamAssumption
    <3>3. ModelTypeOK'
      BY <1>t, <3>1, <3>2 DEF ModelTypeOK, mStatus, MReturn, mRecvVars, MPc
    <3>4. ModelControl'
      BY <1>t, <2>3, <3>1 DEF ModelControl, MReturn
    <3> QED BY <2>3, <2>5, <3>1, <3>3, <3>4 DEF ModelInv
  <2>8. CASE outBlkWrIdx + cnt = OutBlkSize
    <3>1. /\ mN' = mN - cnt /\ mOp' = mOp
          /\ mPc' = "write" /\ mThen' = IF mN = cnt THEN "idle" ELSE "data"
          /\ outLock' = "app" /\ outPend' = <<Rdy("DATA", OutBlkSize)>>
          /\ NextOutBlks(1)
          /\ UNCHANGED <<mStatus, mRecvVars, ctlIn>>
      BY <2>1, <2>3, <2>8, <1>w DEF ParamAssumption, MWriteThen
    <3>2. outPend' \in Seq(CtrlMsg) /\ outPend' # <<>>
      BY <2>6, <3>1
    <3>3. /\ outBlkAvailCnt' \in Nat /\ outBlkWrIdx' = 0 /\ mOutBlkIdx' \in 0..OutBlkCnt-1
          /\ mN' \in Nat
      BY <1>t, <1>w, <1>i, <2>1, <2>3, <3>1 DEF NextOutBlks, ModelTypeOK, mStatus
    <3>4. ModelTypeOK'
      BY <1>t, <3>1, <3>2, <3>3 DEF ModelTypeOK, mStatus, mRecvVars, MPc, ParamAssumption
    <3>5. ModelControl'
      BY <3>1, <3>2 DEF ModelControl
    <3> QED BY <2>5, <3>3, <3>4, <3>5 DEF ModelInv
  <2> QED BY <2>3, <2>7, <2>8
<1>7. CASE MSendDataLock
  BY <1>7 DEF MSendDataLock, SharedTypeOK, ModelInv, ModelTypeOK, mStatus,
       ModelControl, shared, mRecvVars, MPc
<1>9. CASE MSendDataNoCredit
  BY <1>9 DEF MSendDataNoCredit, SharedTypeOK, ModelInv, ModelTypeOK, mStatus,
       ModelControl, shared, mRecvVars, MPc
<1>10. CASE MSendDataRetry
  BY <1>10 DEF MSendDataRetry, SharedTypeOK, ModelInv, ModelTypeOK, mStatus,
       ModelControl, shared, mRecvVars, mSendVars, MPc, MReturn
<1>11. CASE MWrite
  <2>1. outPend \in Seq(CtrlMsg) /\ outPend # <<>>
    BY <1>11, <1>t DEF MWrite, PutCtlOut, ModelTypeOK, mStatus
  <2>2. Head(outPend) \in CtrlMsg /\ Tail(outPend) \in Seq(CtrlMsg)
        /\ Len(Tail(outPend)) = Len(outPend) - 1 /\ Len(outPend) \in Nat
        /\ (Len(Tail(outPend)) = 0 <=> Tail(outPend) = <<>>)
    BY <2>1, HeadTailProperties, EmptySeq, LenProperties
  <2>3. SharedTypeOK'
    BY <1>11, <2>2, AppendProperties DEF MWrite, PutCtlOut, SharedTypeOK, outLog, inLog
  <2>4. ModelTypeOK'
    <3>1. mPc' \in MPc /\ mThen' \in MPc
      BY <1>11, <1>t DEF MWrite, ModelTypeOK, mStatus, MReturn, mPcVars, MPc
    <3>2. mOp' \in ModelOps \cup {"none", "SendHostHalt"} /\ mN' \in Nat
          /\ outLock' \in {"free", "app", "timer"}
      BY <1>11, <1>t DEF MWrite, ModelTypeOK, mStatus, MReturn, mPcVars
    <3> QED
      BY <1>11, <1>t, <2>2, <3>1, <3>2 DEF MWrite, PutCtlOut, ModelTypeOK, mStatus, mRecvVars
  <2>5. ModelControl'
    <3>1. Len(outPend) = 1 => outPend' = <<>>
      BY <1>11, <2>2 DEF MWrite, PutCtlOut
    <3>2. Len(outPend) > 1 => outPend' # <<>>
      BY <1>11, <2>2 DEF MWrite, PutCtlOut
    <3> QED
      BY <1>11, <1>t, <3>1, <3>2 DEF MWrite, PutCtlOut, ModelControl, mPcVars, MReturn
  <2>6. outBlkWrIdx' > 0 => outBlkAvailCnt' > 0
    BY <1>11 DEF MWrite, PutCtlOut, ModelInv
  <2> QED BY <2>3, <2>4, <2>5, <2>6 DEF ModelInv
<1> QED BY <1>1, <1>2, <1>3, <1>4, <1>5, <1>6, <1>7, <1>9, <1>10, <1>11 DEF ModelSendStep

\* Every step of a receiving call after QueInMsgs leaves the queue as it is
\* or takes its front message off, and keeps the sending side.
LEMMA ModelRecvShape ==
  ASSUME SharedTypeOK, ModelInv,
         mPc \notin {"write", "data"},
         \/ mPc' \in {"idle", "look", "copy"}
         \/ mPc' = "next" /\ mThen' \in {"idle", "que", "args", "lock"},
         mThen' \in MPc, mOp' \in {mOp, "none", "SendHostHalt"}, mN' \in Nat,
         mReady' \in BOOLEAN, mHaltSeen' \in BOOLEAN,
         inMsgQue' = inMsgQue \/ MPop,
         inBlkDataSize' \in Nat, inBlkRdIdx' \in Nat,
         UNCHANGED <<mPhase, mSendVars, mInBlkIdx, ctlOut, ctlIn, outBlk, inBlk,
                     outLog, inSent>>
  PROVE  SharedTypeOK' /\ ModelInv'
<1>t. ModelTypeOK /\ ModelControl
  BY DEF ModelInv
<1>1. inMsgQue' \in Seq(CtrlMsg) /\ Len(inMsgQue') < CtlQueSize
  <2>1. inMsgQue \in Seq(CtrlMsg) /\ Len(inMsgQue) < CtlQueSize
    BY <1>t DEF ModelTypeOK, mStatus
  <2>2. Tail(inMsgQue) \in Seq(CtrlMsg) /\ Len(Tail(inMsgQue)) < CtlQueSize
    BY <2>1, TailType, LenProperties, ParamAssumption DEF ParamAssumption
  <2> QED BY <2>1, <2>2 DEF MPop
<1>2. SharedTypeOK'
  BY DEF SharedTypeOK, outLog
<1>3. mPc' \in MPc
  BY DEF MPc
<1>4. ModelTypeOK'
  BY <1>t, <1>1, <1>3 DEF ModelTypeOK, mStatus, mSendVars
<1>5. ModelControl'
  BY <1>t DEF ModelControl, mSendVars
<1> QED BY <1>2, <1>4, <1>5 DEF ModelInv, mSendVars

\* Every step of QueInMsgs, MsgLoop and the coprocessor's receiving calls
\* keeps the coprocessor's part of the invariant.
LEMMA ModelRecvSteps ==
  ASSUME ParamAssumption, SharedTypeOK, ModelInv, ModelRecvStep
  PROVE  SharedTypeOK' /\ ModelInv'
<1>t. ModelTypeOK /\ ModelControl
  BY DEF ModelInv
<1>q. inMsgQue # <<>> => Head(inMsgQue).arg \in Nat
  <2>1. inMsgQue # <<>> => Head(inMsgQue) \in CtrlMsg
    BY <1>t, HeadTailProperties DEF ModelTypeOK, mStatus
  <2> QED BY <2>1 DEF CtrlMsg
<1>s. MSeeFront => inBlkDataSize' \in Nat
  BY <1>t, <1>q DEF MSeeFront, MFrontIsData, ModelTypeOK, mStatus
<1>r. MRecvType # "eRecvIdle" => inMsgQue # <<>>
  BY DEF MRecvType
<1>n. mN \in Nat /\ inBlkDataSize \in Nat /\ inBlkRdIdx \in Nat
      /\ mThen \in MPc /\ mReady \in BOOLEAN /\ mHaltSeen \in BOOLEAN
  BY <1>t DEF ModelTypeOK, mStatus
<1>p. {"idle", "copy", "next", "que", "args", "lock", "clear"} \subseteq MPc
  BY DEF MPc
<1>1. CASE MQueCredit
  <2>1. SharedTypeOK'
    BY <1>1 DEF MQueCredit, SharedTypeOK, shared
  <2>2. ModelTypeOK'
    BY <1>1, <1>t, <1>p DEF MQueCredit, ModelTypeOK, mStatus, mRecvVars
  <2>3. ModelControl'
    BY <1>1, <1>t DEF MQueCredit, ModelControl, shared
  <2>4. outBlkWrIdx' > 0 => outBlkAvailCnt' > 0
    BY <1>1, <1>t DEF MQueCredit, ModelTypeOK, mStatus
  <2> QED BY <2>1, <2>2, <2>3, <2>4 DEF ModelInv
<1>2. CASE MQueClear
  <2>1. ctlIn' \in Seq(CtrlMsg)
    BY <1>2, TailType DEF MQueClear, SharedTypeOK
  <2>2. SharedTypeOK'
    BY <1>2, <2>1 DEF MQueClear, SharedTypeOK, outLog, inLog
  <2>3. ModelTypeOK'
    BY <1>2, <1>t, <1>p DEF MQueClear, ModelTypeOK, mStatus, mRecvVars, mSendVars
  <2>4. ModelControl'
    BY <1>2, <1>t DEF MQueClear, ModelControl, mSendVars
  <2> QED BY <1>2, <2>2, <2>3, <2>4 DEF ModelInv, MQueClear, mSendVars
<1>3. CASE MQueMsg
  <2>1. /\ ctlIn' \in Seq(CtrlMsg) /\ Head(ctlIn) \in CtrlMsg
    BY <1>3, HeadTailProperties DEF MQueMsg, SharedTypeOK
  <2>2. SharedTypeOK'
    BY <1>3, <2>1 DEF MQueMsg, SharedTypeOK, outLog, inLog
  <2>3. inMsgQue' \in Seq(CtrlMsg) /\ Len(inMsgQue') < CtlQueSize
    <3>1. inMsgQue \in Seq(CtrlMsg) /\ Len(inMsgQue) \in Nat
      BY <1>t, LenProperties DEF ModelTypeOK, mStatus
    <3>2. Len(inMsgQue) < CtlQueSize - 1 /\ inMsgQue' = Append(inMsgQue, Head(ctlIn))
      BY <1>3 DEF MQueMsg
    <3> QED BY <2>1, <3>1, <3>2, AppendProperties DEF ParamAssumption
  <2>4. ModelTypeOK'
    BY <1>3, <1>t, <2>3 DEF MQueMsg, ModelTypeOK, mStatus, mPcVars, mSendVars
  <2>5. ModelControl'
    BY <1>3, <1>t DEF MQueMsg, ModelControl, mPcVars, mSendVars
  <2> QED BY <1>3, <2>2, <2>4, <2>5 DEF ModelInv, MQueMsg, mSendVars
<1>4. CASE MQueDone
  <2>1. SharedTypeOK'
    BY <1>4 DEF MQueDone, SharedTypeOK, shared
  <2>2. ModelTypeOK'
    BY <1>4, <1>t, <1>n, <1>p DEF MQueDone, ModelTypeOK, mStatus, mRecvVars, mSendVars
  <2>3. ModelControl'
    BY <1>4, <1>t DEF MQueDone, ModelControl, shared, mSendVars
  <2> QED BY <1>4, <2>1, <2>2, <2>3 DEF ModelInv, MQueDone, mSendVars
<1>5. CASE MRecvNothing
  BY <1>5, <1>n, <1>p, <1>s, ModelRecvShape DEF MRecvNothing, MReturn, mLookKeeps, mStatus
<1>6. CASE MRecvHostMsg
  BY <1>6, <1>n, <1>p, ModelRecvShape DEF MRecvHostMsg, MLooks, MReturn, mLookKeeps, mStatus
<1>7. CASE MRecvHostDataMarker
  BY <1>7, <1>n, <1>p, ModelRecvShape
  DEF MRecvHostDataMarker, MLooks, MPopBlkThen, mLookKeeps, mStatus
<1>8. CASE MRecvCall
  <2>1. inMsgQue # <<>>
    BY <1>8, <1>r DEF MRecvCall, MLooks
  <2> QED
    BY <1>8, <2>1, <1>q, <1>n, <1>p, ModelRecvShape
    DEF MRecvCall, MLooks, MPopBlkThen, mLookKeeps, mStatus
<1>9. CASE MRecvCallArgs
  BY <1>9, <1>n, <1>p, ModelRecvShape DEF MRecvCallArgs, MPopBlkThen, mLookKeeps, mStatus
<1>10. CASE MRecvHostData
  BY <1>10, <1>n, <1>s, ModelRecvShape DEF MRecvHostData, MLooks, mLookKeeps, mStatus
<1>11. CASE MCopyData
  <2> DEFINE cnt == Lesser(inBlkDataSize, mN)
  <2>1. cnt \in Nat /\ cnt <= inBlkDataSize /\ cnt <= mN
    BY <1>n DEF Lesser
  <2>2. /\ mPc = "copy" /\ inBlkRdIdx' = inBlkRdIdx + cnt
        /\ inBlkDataSize' = inBlkDataSize - cnt
        /\ \/ /\ MPopBlkThen(IF mN > cnt THEN "que" ELSE "idle")
              /\ mN' = mN - cnt /\ mOp' = mOp
           \/ MReturn /\ UNCHANGED inMsgQue
        /\ UNCHANGED <<mStatus, mSendVars, mInBlkIdx, ctlOut, ctlIn,
                       outBlk, inBlk, outLog, inSent>>
    BY <1>11 DEF MCopyData
  <2> HIDE DEF cnt
  <2>3. inBlkRdIdx' \in Nat /\ inBlkDataSize' \in Nat
    BY <1>n, <2>1, <2>2
  <2>4. CASE MReturn /\ UNCHANGED inMsgQue
    BY <1>n, <1>p, <2>2, <2>3, <2>4, ModelRecvShape DEF MReturn, mStatus
  <2>5. CASE /\ MPopBlkThen(IF mN > cnt THEN "que" ELSE "idle")
             /\ mN' = mN - cnt /\ mOp' = mOp
    <3>1. mN' \in Nat /\ mThen' \in {"idle", "que"} /\ mPc' = "next" /\ MPop
      BY <1>n, <2>1, <2>5 DEF MPopBlkThen
    <3> QED BY <1>n, <1>p, <2>2, <2>3, <2>5, <3>1, ModelRecvShape DEF mStatus
  <2> QED BY <2>2, <2>4, <2>5
<1>12. CASE MNextInBlk
  <2>1. SharedTypeOK'
    BY <1>12 DEF MNextInBlk, SharedTypeOK, shared
  <2>2. mInBlkIdx' \in 0..InBlkCnt-1
    BY <1>12, <1>t DEF MNextInBlk, ModelTypeOK, mStatus, ParamAssumption
  <2>3. outPend' \in Seq(CtrlMsg) /\ outPend' # <<>>
    BY <1>12, MsgType DEF MNextInBlk
  <2>4. ModelTypeOK'
    BY <1>12, <1>t, <2>2, <2>3 DEF MNextInBlk, ModelTypeOK, mStatus, MPc
  <2>5. ModelControl'
    BY <1>12, <1>t, <2>3 DEF MNextInBlk, ModelControl, shared
  <2> QED BY <1>12, <2>1, <2>4, <2>5 DEF ModelInv, MNextInBlk
<1>13. CASE MRecvHalt
  BY <1>13, <1>n, <1>p, ModelRecvShape DEF MRecvHalt, MPopBlkThen, mLookKeeps, mStatus
<1>14. CASE MParam
  BY <1>14, <1>n, <1>p, ModelRecvShape DEF MParam, mPcVars, mStatus, shared, inLog, outLog
<1>15. CASE MHaltSeen
  BY <1>15, <1>n, <1>p, ModelRecvShape
  DEF MHaltSeen, MReturn, mRecvVars, shared, inLog, outLog
<1>16. CASE MDone
  <2>1. SharedTypeOK'
    BY <1>16 DEF MDone, SharedTypeOK, shared
  <2>2. ModelTypeOK'
    BY <1>16, <1>t DEF MDone, ModelTypeOK, mStatus, mPcVars, mRecvVars, mSendVars
  <2>3. ModelControl'
    BY <1>16, <1>t DEF MDone, ModelControl, mPcVars, shared, mSendVars
  <2> QED BY <1>16, <2>1, <2>2, <2>3 DEF ModelInv, MDone, mSendVars
<1> QED BY <1>1, <1>2, <1>3, <1>4, <1>5, <1>6, <1>7, <1>8, <1>9, <1>10, <1>11,
           <1>12, <1>13, <1>14, <1>15, <1>16 DEF ModelRecvStep

\* The beginning of a call and the timer keep the coprocessor's part of the
\* invariant.
LEMMA ModelOtherSteps ==
  ASSUME ParamAssumption, SharedTypeOK, ModelInv,
         ModelCall \/ ModelTimerStep
  PROVE  SharedTypeOK' /\ ModelInv'
<1>t. ModelTypeOK /\ ModelControl
  BY DEF ModelInv
<1>b. ASSUME NEW op \in ModelOps, NEW n \in Nat, MBeginRecv(op, n)
      PROVE  SharedTypeOK' /\ ModelInv'
  <2>1. SharedTypeOK'
    BY <1>b DEF MBeginRecv, SharedTypeOK, shared
  <2>2. ModelTypeOK'
    BY <1>b, <1>t DEF MBeginRecv, ModelTypeOK, mStatus, mSendVars, mRecvVars, MPc
  <2>3. ModelControl'
    BY <1>b, <1>t DEF MBeginRecv, ModelControl, mSendVars, shared
  <2> QED BY <1>b, <2>1, <2>2, <2>3 DEF ModelInv, MBeginRecv, mSendVars
<1>1. CASE MCallSend
  <2>1. PICK op \in ModelOps, n \in Nat, k \in Nat : MBeginSend(op, n, k)
    <3>1. \A n : n \in 0..MaxArgc \/ n \in 1..MaxQw => n \in Nat
      BY DEF ParamAssumption
    <3>2. \A op, n, k : MBeginSend(op, n, k) => op \in ModelOps
      BY DEF MBeginSend
    <3>3. CASE \/ MBeginSend("SendHostMsg", 0, 1)
               \/ MBeginSend("FlushHostData", 0, 0)
               \/ MBeginSend("SendHostDataMarker", 0, 1)
      BY <3>2, <3>3
    <3>4. CASE \E n \in 1..MaxQw : MBeginSend("SendHostData", n, n)
      BY <3>1, <3>2, <3>4
    <3>5. CASE \E n \in 0..MaxArgc : MBeginSend("SendReturn", n, n + 1)
      BY <3>1, <3>2, <3>5
    <3> QED BY <1>1, <3>3, <3>4, <3>5, Zenon DEF MCallSend
  <2>2. SharedTypeOK'
    BY <2>1 DEF MBeginSend, SharedTypeOK, shared
  <2>3. ModelTypeOK'
    BY <2>1, <1>t DEF MBeginSend, ModelTypeOK, mStatus, mSendVars, mRecvVars, MPc
  <2>4. ModelControl'
    BY <2>1, <1>t DEF MBeginSend, ModelControl, mSendVars, shared
  <2> QED BY <2>1, <2>2, <2>3, <2>4 DEF ModelInv, MBeginSend, mSendVars
<1>2. CASE MCallRecv
  BY <1>2, <1>b, <1>t DEF MCallRecv, MBeginRecv, ModelTypeOK, mStatus
<1>3. CASE MCallRecvMarker
  BY <1>3, <1>b, <1>t DEF MCallRecvMarker, MBeginRecv, ModelTypeOK, mStatus
<1>4. CASE MCallRecvData
  <2>1. PICK n \in 1..MaxQw :
          \/ MBeginRecv("RecvHostData", n)
          \/ /\ mPc = "idle" /\ mOp' = "RecvHostData" /\ mN' = n
             /\ mPc' = "copy" /\ mThen' = "idle"
             /\ UNCHANGED <<mStatus, mSendVars, mRecvVars, shared>>
    BY <1>4 DEF MCallRecvData
  <2>2. n \in Nat /\ "RecvHostData" \in ModelOps
    BY <1>4 DEF MCallRecvData, MBeginRecv, ParamAssumption
  <2>3. CASE MBeginRecv("RecvHostData", n)
    BY <1>b, <1>t, <2>2, <2>3 DEF ModelTypeOK, mStatus
  <2>4. CASE ~MBeginRecv("RecvHostData", n)
    <3>1. SharedTypeOK'
      BY <2>1, <2>4 DEF SharedTypeOK, shared
    <3>2. ModelTypeOK'
      BY <1>t, <2>1, <2>2, <2>4 DEF ModelTypeOK, mStatus, mSendVars, mRecvVars, MPc
    <3>3. ModelControl'
      BY <1>t, <2>1, <2>4 DEF ModelControl, mSendVars, shared
    <3> QED BY <2>1, <2>4, <3>1, <3>2, <3>3 DEF ModelInv, mSendVars
  <2> QED BY <2>3, <2>4
<1>8. CASE MTimerFlush
  <2>1. outBlkWrIdx \in Nat /\ outBlkAvailCnt \in Nat
    BY <1>t DEF ModelTypeOK, mStatus, ParamAssumption
  <2>2. /\ outBlkWrIdx > 0 /\ outBlkAvailCnt > 0 /\ outLock = "free"
        /\ outLock' = "timer" /\ outPend' = MFlushMsgs /\ NextOutBlks(1)
        /\ UNCHANGED <<mStatus, mPcVars, mRecvVars, shared>>
    BY <1>8 DEF MTimerFlush, ModelInv
  <2>3. MFlushMsgs \in Seq(CtrlMsg) /\ Len(MFlushMsgs) = 1
    BY <1>t, <2>2, MFlushMsgsType
  <2>4. SharedTypeOK'
    BY <2>2 DEF SharedTypeOK, shared
  <2>5. outBlkAvailCnt' \in Nat /\ outBlkWrIdx' = 0 /\ mOutBlkIdx' \in 0..OutBlkCnt-1
    BY <1>t, <2>1, <2>2 DEF ModelTypeOK, mStatus, NextOutBlks, ParamAssumption
  <2>6. ModelTypeOK'
    BY <1>t, <2>2, <2>3, <2>5 DEF ModelTypeOK, mStatus, mPcVars, mRecvVars, ParamAssumption
  <2>7. ModelControl'
    BY <1>t, <2>2, <2>3 DEF ModelControl, mPcVars, shared
  <2> QED BY <2>4, <2>5, <2>6, <2>7 DEF ModelInv
<1>9. CASE MTimerWrite
  <2>1. outPend \in Seq(CtrlMsg) /\ Len(outPend) = 1
    BY <1>9, <1>t DEF MTimerWrite, ModelTypeOK, mStatus, ModelControl
  <2>2. Head(outPend) \in CtrlMsg /\ Tail(outPend) = <<>>
    <3>1. outPend # <<>>
      BY <2>1, EmptySeq, SMTT(30)
    <3>2. Head(outPend) \in CtrlMsg /\ Tail(outPend) \in Seq(CtrlMsg) /\ Len(Tail(outPend)) = 0
      BY <2>1, <3>1, HeadTailProperties
    <3> QED BY <3>2, EmptySeq
  <2>3. SharedTypeOK'
    BY <1>9, <2>2, AppendProperties DEF MTimerWrite, PutCtlOut, SharedTypeOK, outLog, inLog
  <2>4. ModelTypeOK'
    BY <1>9, <1>t, <2>2 DEF MTimerWrite, PutCtlOut, ModelTypeOK, mStatus, mPcVars, mRecvVars
  <2>5. ModelControl'
    <3>1. /\ outLock = "timer" /\ outLock' = "free" /\ outPend' = <<>>
          /\ mPc' = mPc /\ mThen' = mThen /\ ctlIn' = ctlIn
      BY <1>9, <2>2 DEF MTimerWrite, PutCtlOut, mPcVars
    <3> QED BY <1>t, <3>1 DEF ModelControl
  <2> QED BY <1>9, <2>3, <2>4, <2>5 DEF ModelInv, MTimerWrite, PutCtlOut
<1> QED BY <1>1, <1>2, <1>3, <1>4, <1>8, <1>9
        DEF ModelCall, ModelTimerStep

\* No step of the coprocessor takes a message off ctlOut.
LEMMA ModelOnlyAppends ==
  ASSUME ModelInv,
         ModelSendStep \/ ModelRecvStep \/ ModelCall \/ ModelTimerStep
  PROVE  \/ ctlOut' = ctlOut
         \/ \E x \in CtrlMsg : ctlOut' = Append(ctlOut, x)
<1>1. CASE PutCtlOut
  <2>1. /\ outPend \in Seq(CtrlMsg) /\ outPend # <<>>
        /\ ctlOut' = Append(ctlOut, Head(outPend))
    BY <1>1 DEF PutCtlOut, ModelInv, ModelTypeOK
  <2> QED BY <2>1, HeadTailProperties
<1>2. CASE ModelSendStep /\ ~PutCtlOut
  BY <1>2 DEF ModelSendStep, MSendHostMsg, MFlushHostData, MSendCtlFirst,
     MSendCtlNoCredit, MSendCtlRetry, MSendCtl, MSendDataLock, MSendDataChunk,
     MSendDataNoCredit, MSendDataRetry, MWrite, shared
<1>3. CASE ModelRecvStep
  BY <1>3 DEF ModelRecvStep, MQueCredit, MQueClear, MQueMsg, MQueDone, MParam,
     MRecvNothing, MRecvHostMsg, MRecvHostDataMarker, MRecvCall, MRecvCallArgs,
     MRecvHostData, MCopyData, MNextInBlk, MRecvHalt, MHaltSeen, MDone, mLookKeeps, shared
<1>4. CASE ModelCall
  BY <1>4 DEF ModelCall, MCallSend, MBeginSend, MCallRecv, MCallRecvMarker,
     MCallRecvData, MBeginRecv, shared
<1>5. CASE ModelTimerStep /\ ~PutCtlOut
  BY <1>5 DEF ModelTimerStep, MTimerFlush, MTimerWrite, shared
<1> QED BY <1>1, <1>2, <1>3, <1>4, <1>5
=============================================================================
