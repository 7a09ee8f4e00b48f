--------------------------- MODULE HtHifUnitProofs ---------------------------
(***************************************************************************)
(* The host side keeps its types, its lock discipline and the credit of its *)
(* flushes in each of its steps, for every size of queue and block.        *)
(***************************************************************************)
EXTENDS HtHifUnit, HifCommonProofs

\* FlushInBlk writes one message when the block being filled has data in it,
\* and none when it is empty.
LEMMA HFlushMsgsType ==
  ASSUME HostTypeOK, ParamAssumption
  PROVE  /\ HFlushMsgs \in Seq(CtrlMsg)
         /\ inBlkWrIdx = 0 => HFlushMsgs = <<>> /\ Len(HFlushMsgs) = 0
         /\ inBlkWrIdx > 0 => Len(HFlushMsgs) = 1
BY MsgType DEF HostTypeOK, HFlushMsgs, Ctl, ParamAssumption

\* A marker, halt or call writes at least one message, and no more than the
\* blocks it asked credit for.
LEMMA HCtlMsgsType ==
  ASSUME HostTypeOK, HCtlOp, NEW w \in Nat
  PROVE  /\ HCtlMsgs(w) \in Seq(CtrlMsg)
         /\ Len(HCtlMsgs(w)) \in 1..HCtlNeed
         /\ HCtlItem \in Item
<1>1. CASE hOp = "SendHostDataMarker"
  BY <1>1, MsgType DEF HCtlMsgs, HCtlNeed, HCtlItem, MkItem, Item, Ctl
<1>2. CASE hOp = "SendHostHalt"
  BY <1>2, MsgType DEF HCtlMsgs, HCtlNeed, HCtlItem, MkItem, Item, Ctl
<1>3. CASE hOp = "SendCall"
  <2>1. hN \in Nat  BY DEF HostTypeOK
  <2> QED BY <1>3, <2>1, MsgType DEF HCtlMsgs, HCtlNeed, HCtlItem, MkItem, Item, Ctl
<1> QED BY <1>1, <1>2, <1>3 DEF HCtlOp

----------------------------------------------------------------------------
\* The part of the invariant the host side keeps.
HostInv == HostTypeOK /\ HostControl /\ (inBlkWrIdx > 0 => inBlkAvailCnt > 0)

\* Sending a marker, halt or call, with or without a flush before it, keeps
\* the host's part of the invariant.
LEMMA HSendCtlTyped ==
  ASSUME ParamAssumption, SharedTypeOK, HostInv,
         NEW flush \in Seq(CtrlMsg), HSendCtl(flush), HCtlOp
  PROVE  SharedTypeOK' /\ HostInv'
<1>t. HostTypeOK /\ HostControl
  BY DEF HostInv
<1> DEFINE msgs == HCtlMsgs(IF flush = <<>> THEN inBlkWrIdx ELSE 0)
           args == Fresh(Len(inSent) + 1, hN)
<1>1. msgs \in Seq(CtrlMsg) /\ Len(msgs) \in 1..HCtlNeed /\ HCtlItem \in Item
  <2>1. (IF flush = <<>> THEN inBlkWrIdx ELSE 0) \in Nat
    BY <1>t DEF HostTypeOK, ParamAssumption
  <2> QED BY <1>t, <2>1, HCtlMsgsType
<1>2. args \in Seq(Nat) /\ MkWords(args) \in Seq(Item)
  <2>1. Len(inSent) + 1 \in Nat /\ hN \in Nat
    BY <1>t DEF HostTypeOK, SharedTypeOK
  <2> QED BY <2>1, FreshType, MkWordsType
<1>3. Len(flush) \in Nat /\ HCtlNeed \in Nat /\ Len(msgs) \in Nat
  BY <1>1, LenProperties DEF HCtlNeed
<1>4. /\ HWriteThen("app", flush \o msgs, "idle")
      /\ NextInBlks(Len(flush) + Len(msgs))
      /\ inBlkAvailCnt - Len(flush) >= HCtlNeed
      /\ inSent' = inSent \o <<HCtlItem>> \o MkWords(args)
      /\ inBlk' = [inBlk EXCEPT ![(hInBlkIdx + Len(flush) + 1) % InBlkCnt] =
                                  CopyIn(@, 0, args)]
      /\ hPhase' = IF hOp = "SendHostHalt" THEN "drain" ELSE hPhase
      /\ UNCHANGED <<hOp, hN, hRecvVars, ctlIn, ctlOut, outBlk, inRcvd, outLog>>
  BY DEF HSendCtl
<1> HIDE DEF msgs, args
<1>5. inPend' \in Seq(CtrlMsg) /\ inPend' # <<>>
  <2>1. flush \o msgs \in Seq(CtrlMsg) /\ Len(flush \o msgs) = Len(flush) + Len(msgs)
    BY <1>1, ConcatProperties
  <2> QED BY <1>1, <1>3, <1>4, <2>1, EmptySeq DEF HWriteThen
<1>6. inBlkAvailCnt' \in Nat /\ inBlkWrIdx' = 0 /\ hInBlkIdx' \in 0..InBlkCnt-1
  BY <1>t, <1>1, <1>3, <1>4, SMTT(30) DEF NextInBlks, HostTypeOK, ParamAssumption
<1>7. inSent' \in Seq(Item)
  BY <1>1, <1>2, <1>4, ConcatProperties DEF SharedTypeOK
<1>8. inBlk' \in [0..InBlkCnt-1 -> InWords]
  BY <1>2, <1>4, CopyInType DEF SharedTypeOK, InWords, ParamAssumption
<1>9. SharedTypeOK'
  BY <1>4, <1>7, <1>8 DEF SharedTypeOK, outLog
<1>10. HostTypeOK'
  BY <1>t, <1>4, <1>5, <1>6 DEF HostTypeOK, HWriteThen, hRecvVars, HPc, ParamAssumption
<1>11. HostControl'
  BY <1>t, <1>4, <1>5 DEF HostControl, HWriteThen
<1> QED BY <1>6, <1>9, <1>10, <1>11 DEF HostInv

\* Every step of the host's sending calls keeps the host's part of the
\* invariant.
LEMMA HostSendSteps ==
  ASSUME ParamAssumption, SharedTypeOK, HostInv, HostSendStep
  PROVE  SharedTypeOK' /\ HostInv'
<1>t. HostTypeOK /\ HostControl
  BY DEF HostInv
<1>f. /\ HFlushMsgs \in Seq(CtrlMsg)
      /\ inBlkWrIdx = 0 => HFlushMsgs = <<>> /\ Len(HFlushMsgs) = 0
      /\ inBlkWrIdx > 0 => Len(HFlushMsgs) = 1 /\ inBlkAvailCnt > 0
      /\ inBlkAvailCnt - Len(HFlushMsgs) \in Nat
  <2>1. inBlkWrIdx \in Nat /\ inBlkAvailCnt \in Nat
    BY <1>t DEF HostTypeOK, ParamAssumption
  <2>2. inBlkWrIdx > 0 => inBlkAvailCnt > 0
    BY DEF HostInv
  <2>3. /\ HFlushMsgs \in Seq(CtrlMsg)
        /\ inBlkWrIdx = 0 => HFlushMsgs = <<>> /\ Len(HFlushMsgs) = 0
        /\ inBlkWrIdx > 0 => Len(HFlushMsgs) = 1
    BY <1>t, HFlushMsgsType
  <2> QED BY <2>1, <2>2, <2>3
<1>w. inBlkWrIdx \in Nat /\ inBlkAvailCnt \in Nat
  BY <1>t DEF HostTypeOK, ParamAssumption
<1>i. \A k \in Nat : (hInBlkIdx + k) % InBlkCnt \in 0..InBlkCnt-1
  BY <1>t DEF HostTypeOK, ParamAssumption
<1>1. CASE HSendHostMsg
  <2>1. UserMsg(Len(inSent) + 1) \in CtrlMsg /\ MkItem("user", Len(inSent) + 1) \in Item
    BY MsgType DEF SharedTypeOK, MkItem, Item
  <2>2. inPend' \in Seq(CtrlMsg) /\ inPend' # <<>>
    BY <1>1, <1>f, <2>1, AppendProperties DEF HSendHostMsg, HWriteThen
  <2>3. SharedTypeOK'
    BY <1>1, <2>1 DEF HSendHostMsg, SharedTypeOK, outLog
  <2>4. inBlkAvailCnt' \in Nat /\ inBlkWrIdx' = 0 /\ hInBlkIdx' \in 0..InBlkCnt-1
    BY <1>1, <1>f, <1>i DEF HSendHostMsg, NextInBlks
  <2>5. HostTypeOK'
    BY <1>1, <1>t, <2>2, <2>4 DEF HSendHostMsg, HostTypeOK, HWriteThen, hRecvVars, HPc,
       ParamAssumption
  <2>6. HostControl'
    BY <1>1, <1>t, <2>2 DEF HSendHostMsg, HostTypeOK, HostControl, HWriteThen, HPc
  <2> QED BY <2>3, <2>4, <2>5, <2>6 DEF HostInv
<1>2. CASE HFlushHostData
  <2>1. CASE inBlkWrIdx = 0
    BY <1>2, <1>t, <2>1 DEF HFlushHostData, SharedTypeOK, shared, HostTypeOK, HostControl,
       HostInv, hRecvVars, hSendVars, HPc, HReturn
  <2>2. CASE inBlkWrIdx > 0
    <3>1. inPend' \in Seq(CtrlMsg) /\ inPend' # <<>>
      BY <1>2, <1>f, <2>2, SMTT(30) DEF HFlushHostData, HWriteThen
    <3>2. inBlkAvailCnt' \in Nat /\ inBlkWrIdx' = 0 /\ hInBlkIdx' \in 0..InBlkCnt-1
      <4>1. NextInBlks(1)
        BY <1>2, <1>w, <2>2 DEF HFlushHostData
      <4> QED BY <1>f, <1>i, <1>w, <2>2, <4>1 DEF NextInBlks
    <3>3. HostTypeOK'
      BY <1>2, <1>t, <2>2, <3>1, <3>2 DEF HFlushHostData, HostTypeOK, HWriteThen,
         hRecvVars, HPc, ParamAssumption
    <3>c. hPc' = "write" /\ hThen' = "idle" /\ inLock' = "app" /\ ctlOut' = ctlOut
      BY <1>2, <1>w, <2>2 DEF HFlushHostData, HWriteThen, shared
    <3>4. HostControl'
      BY <3>1, <3>c DEF HostControl
    <3>5. SharedTypeOK'
      BY <1>2 DEF HFlushHostData, SharedTypeOK, shared
    <3> QED BY <3>2, <3>3, <3>4, <3>5 DEF HostInv
  <2> QED BY <1>2, <2>1, <2>2 DEF HFlushHostData
<1>3. CASE HSendCtlFirst
  BY <1>3, <1>f, HSendCtlTyped DEF HSendCtlFirst
<1>4. CASE HSendCtlNoCredit
  <2>1. CASE inBlkWrIdx = 0
    BY <1>4, <1>t, <2>1 DEF HSendCtlNoCredit, SharedTypeOK, shared, HostTypeOK, HostControl,
       HostInv, hRecvVars, hSendVars, HPc
  <2>2. CASE inBlkWrIdx > 0
    <3>1. inPend' \in Seq(CtrlMsg) /\ inPend' # <<>>
      BY <1>4, <1>f, <1>w, <2>2 DEF HSendCtlNoCredit, HWriteThen
    <3>2. inBlkAvailCnt' \in Nat /\ inBlkWrIdx' = 0 /\ hInBlkIdx' \in 0..InBlkCnt-1
      <4>1. NextInBlks(1)
        BY <1>4, <1>w, <2>2 DEF HSendCtlNoCredit
      <4> QED BY <1>f, <1>i, <1>w, <2>2, <4>1 DEF NextInBlks
    <3>3. HostTypeOK'
      BY <1>4, <1>t, <1>w, <2>2, <3>1, <3>2 DEF HSendCtlNoCredit, HostTypeOK, HWriteThen,
         hRecvVars, HPc, ParamAssumption
    <3>c. hPc' = "write" /\ hThen' = "que" /\ inLock' = "app" /\ ctlOut' = ctlOut
      BY <1>4, <1>w, <2>2 DEF HSendCtlNoCredit, HWriteThen, shared
    <3>4. HostControl'
      BY <3>1, <3>c DEF HostControl
    <3>5. SharedTypeOK'
      BY <1>4 DEF HSendCtlNoCredit, SharedTypeOK, shared
    <3> QED BY <3>2, <3>3, <3>4, <3>5 DEF HostInv
  <2> QED BY <1>w, <2>1, <2>2
<1>5. CASE HSendCtlRetry
  <2>1. CASE HSendCtl(<<>>)
    BY <1>5, <2>1, EmptySeq, HSendCtlTyped DEF HSendCtlRetry
  <2>2. CASE ~HSendCtl(<<>>)
    <3>1. /\ HReturn /\ hPc = "relock" /\ inLock = "free"
          /\ hPhase' = IF hOp = "SendHostHalt" THEN "loop" ELSE hPhase
          /\ UNCHANGED <<hSendVars, hRecvVars, shared>>
      BY <1>5, <2>2 DEF HSendCtlRetry
    <3>2. SharedTypeOK'
      BY <3>1 DEF SharedTypeOK, shared
    <3>3. HostTypeOK'
      BY <1>t, <3>1 DEF HostTypeOK, hRecvVars, hSendVars, HPc, HReturn
    <3>4. HostControl'
      BY <1>t, <3>1 DEF HostControl, hSendVars, shared, HReturn
    <3> QED BY <3>1, <3>2, <3>3, <3>4 DEF HostInv, hSendVars
  <2> QED BY <2>1, <2>2
<1>6. CASE HSendDataChunk
  <2> DEFINE cnt == Lesser(hN, InBlkSize - inBlkWrIdx)
             ws  == Fresh(Len(inSent), cnt)
  <2>1. /\ cnt \in Nat /\ cnt <= hN /\ inBlkWrIdx + cnt <= InBlkSize
    BY <1>t DEF HostTypeOK, Lesser, ParamAssumption
  <2>2. ws \in Seq(Nat) /\ MkWords(ws) \in Seq(Item)
    <3>1. Len(inSent) \in Nat
      BY DEF SharedTypeOK
    <3> QED BY <2>1, <3>1, FreshType, MkWordsType
  <2>3. /\ hPc = "data" /\ inBlkAvailCnt > 0
        /\ inBlk' = [inBlk EXCEPT ![hInBlkIdx] = CopyIn(@, inBlkWrIdx, ws)]
        /\ inSent' = inSent \o MkWords(ws)
        /\ \/ /\ inBlkWrIdx + cnt < InBlkSize
              /\ inBlkWrIdx' = inBlkWrIdx + cnt
              /\ inLock' = "free" /\ HReturn
              /\ UNCHANGED <<inPend, inBlkAvailCnt, hInBlkIdx>>
           \/ /\ inBlkWrIdx + cnt = InBlkSize
              /\ hN' = hN - cnt /\ hOp' = hOp
              /\ HWriteThen("app", <<Rdy("DATA", InBlkSize)>>,
                            IF hN = cnt THEN "idle" ELSE "data")
              /\ NextInBlks(1)
        /\ UNCHANGED <<hPhase, hRecvVars, ctlIn, ctlOut, outBlk, inRcvd, outLog>>
    BY <1>6 DEF HSendDataChunk
  <2> HIDE DEF cnt, ws
  <2>4. inBlk' \in [0..InBlkCnt-1 -> InWords]
    BY <1>w, <2>2, <2>3, CopyInType DEF SharedTypeOK, InWords, ParamAssumption
  <2>5. SharedTypeOK'
    BY <2>2, <2>3, <2>4, ConcatProperties DEF SharedTypeOK, outLog
  <2>6. Rdy("DATA", InBlkSize) \in CtrlMsg
    BY MsgType DEF Ctl, ParamAssumption
  <2>7. CASE inBlkWrIdx + cnt < InBlkSize
    <3>1. /\ inBlkWrIdx' = inBlkWrIdx + cnt /\ inLock' = "free" /\ HReturn
          /\ UNCHANGED <<inPend, inBlkAvailCnt, hInBlkIdx, hPhase, hRecvVars, ctlOut>>
      BY <2>1, <2>3, <2>7, <1>w DEF ParamAssumption
    <3>2. inBlkWrIdx' \in 0..InBlkSize-1
      BY <1>w, <2>1, <2>7, <3>1 DEF ParamAssumption
    <3>3. HostTypeOK'
      BY <1>t, <3>1, <3>2 DEF HostTypeOK, HReturn, hRecvVars, HPc
    <3>4. HostControl'
      BY <1>t, <2>3, <3>1 DEF HostControl, HReturn
    <3> QED BY <2>3, <2>5, <3>1, <3>3, <3>4 DEF HostInv
  <2>8. CASE inBlkWrIdx + cnt = InBlkSize
    <3>1. /\ hN' = hN - cnt /\ hOp' = hOp
          /\ hPc' = "write" /\ hThen' = IF hN = cnt THEN "idle" ELSE "data"
          /\ inLock' = "app" /\ inPend' = <<Rdy("DATA", InBlkSize)>>
          /\ NextInBlks(1)
          /\ UNCHANGED <<hPhase, hRecvVars, ctlOut>>
      BY <2>1, <2>3, <2>8, <1>w DEF ParamAssumption, HWriteThen
    <3>2. inPend' \in Seq(CtrlMsg) /\ inPend' # <<>>
      BY <2>6, <3>1
    <3>3. /\ inBlkAvailCnt' \in Nat /\ inBlkWrIdx' = 0 /\ hInBlkIdx' \in 0..InBlkCnt-1
          /\ hN' \in Nat
      BY <1>t, <1>w, <1>i, <2>1, <2>3, <3>1 DEF NextInBlks, HostTypeOK
    <3>4. HostTypeOK'
      BY <1>t, <3>1, <3>2, <3>3 DEF HostTypeOK, hRecvVars, HPc, ParamAssumption
    <3>5. HostControl'
      BY <3>1, <3>2 DEF HostControl
    <3> QED BY <2>5, <3>3, <3>4, <3>5 DEF HostInv
  <2> QED BY <2>3, <2>7, <2>8
<1>7. CASE HSendDataLock
  BY <1>7 DEF HSendDataLock, SharedTypeOK, HostInv, HostTypeOK,
       HostControl, shared, hRecvVars, HPc
<1>9. CASE HSendDataNoCredit
  BY <1>9 DEF HSendDataNoCredit, SharedTypeOK, HostInv, HostTypeOK,
       HostControl, shared, hRecvVars, HPc
<1>10. CASE HSendDataRetry
  BY <1>10 DEF HSendDataRetry, SharedTypeOK, HostInv, HostTypeOK,
       HostControl, shared, hRecvVars, hSendVars, HPc, HReturn
<1>11. CASE HWrite
  <2>1. inPend \in Seq(CtrlMsg) /\ inPend # <<>>
    BY <1>11, <1>t DEF HWrite, PutCtlIn, HostTypeOK
  <2>2. Head(inPend) \in CtrlMsg /\ Tail(inPend) \in Seq(CtrlMsg)
        /\ Len(Tail(inPend)) = Len(inPend) - 1 /\ Len(inPend) \in Nat
        /\ (Len(Tail(inPend)) = 0 <=> Tail(inPend) = <<>>)
    BY <2>1, HeadTailProperties, EmptySeq, LenProperties
  <2>3. SharedTypeOK'
    BY <1>11, <2>2, AppendProperties DEF HWrite, PutCtlIn, SharedTypeOK, inLog, outLog
  <2>4. HostTypeOK'
    <3>1. hPc' \in HPc /\ hThen' \in HPc
      BY <1>11, <1>t DEF HWrite, HostTypeOK, HReturn, hPcVars, HPc
    <3>2. hOp' \in HostOps \cup {"none", "SendHostHalt", "HaltLoop"} /\ hN' \in Nat
          /\ inLock' \in {"free", "app", "timer"}
      BY <1>11, <1>t DEF HWrite, HostTypeOK, HReturn, hPcVars
    <3> QED
      BY <1>11, <1>t, <2>2, <3>1, <3>2 DEF HWrite, PutCtlIn, HostTypeOK, hRecvVars
  <2>5. HostControl'
    <3>1. Len(inPend) = 1 => inPend' = <<>>
      BY <1>11, <2>2 DEF HWrite, PutCtlIn
    <3>2. Len(inPend) > 1 => inPend' # <<>>
      BY <1>11, <2>2 DEF HWrite, PutCtlIn
    <3> QED
      BY <1>11, <1>t, <3>1, <3>2 DEF HWrite, PutCtlIn, HostControl, hPcVars, HReturn
  <2>6. inBlkWrIdx' > 0 => inBlkAvailCnt' > 0
    BY <1>11 DEF HWrite, PutCtlIn, HostInv
  <2> QED BY <2>3, <2>4, <2>5, <2>6 DEF HostInv
<1> QED BY <1>1, <1>2, <1>3, <1>4, <1>5, <1>6, <1>7, <1>9, <1>10, <1>11 DEF HostSendStep

\* Every step of a receiving call after QueOutMsgs leaves the queue as it is
\* or takes its front message off, and keeps the sending side.
LEMMA HostRecvShape ==
  ASSUME SharedTypeOK, HostInv,
         hPc \notin {"write", "data"},
         \/ hPc' \in {"idle", "copy", "assert"}
         \/ hPc' = "next" /\ hThen' \in {"idle", "que", "args"},
         hThen' \in HPc, hOp' \in {hOp, "none"}, hN' \in Nat,
         outMsgQue' = outMsgQue \/ HPop,
         outBlkDataSize' \in Nat, outBlkRdIdx' \in Nat, recvRtnArgc' \in Nat,
         UNCHANGED <<hPhase, hSendVars, hOutBlkIdx, ctlIn, ctlOut, inBlk, outBlk,
                     inLog, outSent>>
  PROVE  SharedTypeOK' /\ HostInv'
<1>t. HostTypeOK /\ HostControl
  BY DEF HostInv
<1>1. outMsgQue' \in Seq(CtrlMsg) /\ Len(outMsgQue') < CtlQueSize
  <2>1. outMsgQue \in Seq(CtrlMsg) /\ Len(outMsgQue) < CtlQueSize
    BY <1>t DEF HostTypeOK
  <2>2. Tail(outMsgQue) \in Seq(CtrlMsg) /\ Len(Tail(outMsgQue)) < CtlQueSize
    BY <2>1, TailType, LenProperties, ParamAssumption DEF ParamAssumption
  <2> QED BY <2>1, <2>2 DEF HPop
<1>2. SharedTypeOK'
  BY DEF SharedTypeOK, inLog
<1>3. hPc' \in HPc
  BY DEF HPc
<1>4. HostTypeOK'
  BY <1>t, <1>1, <1>3 DEF HostTypeOK, hSendVars
<1>5. HostControl'
  BY <1>t DEF HostControl, hSendVars
<1> QED BY <1>2, <1>4, <1>5 DEF HostInv, hSendVars

\* Every step of QueOutMsgs, MsgLoop and the host's receiving calls keeps the
\* host's part of the invariant.
LEMMA HostRecvSteps ==
  ASSUME ParamAssumption, SharedTypeOK, HostInv, HostRecvStep
  PROVE  SharedTypeOK' /\ HostInv'
<1>t. HostTypeOK /\ HostControl
  BY DEF HostInv
<1>q. outMsgQue # <<>> => Head(outMsgQue).arg \in Nat
  <2>1. outMsgQue # <<>> => Head(outMsgQue) \in CtrlMsg
    BY <1>t, HeadTailProperties DEF HostTypeOK
  <2> QED BY <2>1 DEF CtrlMsg
<1>s. HSeeFront => outBlkDataSize' \in Nat
  BY <1>t, <1>q DEF HSeeFront, HFrontIsData, HostTypeOK
<1>r. HRecvType # "eRecvIdle" => outMsgQue # <<>>
  BY DEF HRecvType
<1>n. hN \in Nat /\ outBlkDataSize \in Nat /\ outBlkRdIdx \in Nat /\ recvRtnArgc \in Nat
      /\ hThen \in HPc
  BY <1>t DEF HostTypeOK
<1>p. {"idle", "copy", "next", "que", "args", "assert", "clear"} \subseteq HPc
  BY DEF HPc
<1>1. CASE HQueCredit
  <2>1. SharedTypeOK'
    BY <1>1 DEF HQueCredit, SharedTypeOK, shared
  <2>2. HostTypeOK'
    BY <1>1, <1>t, <1>p DEF HQueCredit, HostTypeOK, hRecvVars
  <2>3. HostControl'
    BY <1>1, <1>t DEF HQueCredit, HostControl, shared
  <2>4. inBlkWrIdx' > 0 => inBlkAvailCnt' > 0
    BY <1>1, <1>t DEF HQueCredit, HostTypeOK
  <2> QED BY <2>1, <2>2, <2>3, <2>4 DEF HostInv
<1>2. CASE HQueClear
  <2>1. ctlOut' \in Seq(CtrlMsg)
    BY <1>2, TailType DEF HQueClear, SharedTypeOK
  <2>2. SharedTypeOK'
    BY <1>2, <2>1 DEF HQueClear, SharedTypeOK, inLog, outLog
  <2>3. HostTypeOK'
    BY <1>2, <1>t, <1>p DEF HQueClear, HostTypeOK, hRecvVars, hSendVars
  <2>4. HostControl'
    BY <1>2, <1>t DEF HQueClear, HostControl, hSendVars
  <2> QED BY <1>2, <2>2, <2>3, <2>4 DEF HostInv, HQueClear, hSendVars
<1>3. CASE HQueMsg
  <2>1. /\ ctlOut' \in Seq(CtrlMsg) /\ Head(ctlOut) \in CtrlMsg
    BY <1>3, HeadTailProperties DEF HQueMsg, SharedTypeOK
  <2>2. SharedTypeOK'
    BY <1>3, <2>1 DEF HQueMsg, SharedTypeOK, inLog, outLog
  <2>3. outMsgQue' \in Seq(CtrlMsg) /\ Len(outMsgQue') < CtlQueSize
    <3>1. outMsgQue \in Seq(CtrlMsg) /\ Len(outMsgQue) \in Nat
      BY <1>t, LenProperties DEF HostTypeOK
    <3>2. Len(outMsgQue) < CtlQueSize - 1 /\ outMsgQue' = Append(outMsgQue, Head(ctlOut))
      BY <1>3 DEF HQueMsg
    <3> QED BY <2>1, <3>1, <3>2, AppendProperties DEF ParamAssumption
  <2>4. HostTypeOK'
    BY <1>3, <1>t, <2>3 DEF HQueMsg, HostTypeOK, hPcVars, hSendVars
  <2>5. HostControl'
    BY <1>3, <1>t DEF HQueMsg, HostControl, hPcVars, hSendVars
  <2> QED BY <1>3, <2>2, <2>4, <2>5 DEF HostInv, HQueMsg, hSendVars
<1>4. CASE HQueDone
  <2>1. SharedTypeOK'
    BY <1>4 DEF HQueDone, SharedTypeOK, shared
  <2>2. HostTypeOK'
    BY <1>4, <1>t, <1>n, <1>p DEF HQueDone, HostTypeOK, hRecvVars, hSendVars
  <2>3. HostControl'
    BY <1>4, <1>t DEF HQueDone, HostControl, shared, hSendVars
  <2> QED BY <1>4, <2>1, <2>2, <2>3 DEF HostInv, HQueDone, hSendVars
<1>5. CASE HRecvNothing
  BY <1>5, <1>n, <1>p, <1>s, HostRecvShape DEF HRecvNothing, HReturn, hLookKeeps
<1>6. CASE HRecvHostMsg
  BY <1>6, <1>n, <1>p, HostRecvShape DEF HRecvHostMsg, HLooks, HReturn, hLookKeeps
<1>7. CASE HRecvHostDataMarker
  BY <1>7, <1>n, <1>p, HostRecvShape
  DEF HRecvHostDataMarker, HLooks, HPopBlkThen, hLookKeeps
<1>8. CASE HRecvReturn
  <2>1. outMsgQue # <<>>
    BY <1>8, <1>r DEF HRecvReturn, HLooks
  <2> QED
    BY <1>8, <2>1, <1>q, <1>n, <1>p, HostRecvShape
    DEF HRecvReturn, HLooks, HPopBlkThen, hLookKeeps
<1>9. CASE HRecvReturnArgs
  BY <1>9, <1>n, <1>p, HostRecvShape DEF HRecvReturnArgs, HPopBlkThen, hLookKeeps
<1>10. CASE HRecvHostData
  BY <1>10, <1>n, <1>s, HostRecvShape DEF HRecvHostData, HLooks, hLookKeeps
<1>11. CASE HCopyData
  <2> DEFINE cnt == Lesser(outBlkDataSize, hN)
  <2>1. cnt \in Nat /\ cnt <= outBlkDataSize /\ cnt <= hN
    BY <1>n DEF Lesser
  <2>2. /\ hPc = "copy" /\ outBlkRdIdx' = outBlkRdIdx + cnt
        /\ outBlkDataSize' = outBlkDataSize - cnt
        /\ \/ /\ HPopBlkThen(IF hN > cnt THEN "que" ELSE "idle")
              /\ hN' = hN - cnt /\ hOp' = hOp
           \/ HReturn /\ UNCHANGED outMsgQue
        /\ UNCHANGED <<hPhase, hSendVars, hOutBlkIdx, recvRtnArgc, ctlIn, ctlOut,
                       inBlk, outBlk, inLog, outSent>>
    BY <1>11 DEF HCopyData
  <2> HIDE DEF cnt
  <2>3. outBlkRdIdx' \in Nat /\ outBlkDataSize' \in Nat /\ recvRtnArgc' \in Nat
    BY <1>n, <2>1, <2>2
  <2>4. CASE HReturn /\ UNCHANGED outMsgQue
    BY <1>p, <2>2, <2>3, <2>4, HostRecvShape DEF HReturn
  <2>5. CASE /\ HPopBlkThen(IF hN > cnt THEN "que" ELSE "idle")
             /\ hN' = hN - cnt /\ hOp' = hOp
    <3>1. hN' \in Nat /\ hThen' \in {"idle", "que"} /\ hPc' = "next" /\ HPop
      BY <1>n, <2>1, <2>5 DEF HPopBlkThen
    <3> QED BY <1>p, <2>2, <2>3, <2>5, <3>1, HostRecvShape
  <2> QED BY <2>2, <2>4, <2>5
<1>12. CASE HNextOutBlk
  <2>1. SharedTypeOK'
    BY <1>12 DEF HNextOutBlk, SharedTypeOK, shared
  <2>2. hOutBlkIdx' \in 0..OutBlkCnt-1
    BY <1>12, <1>t DEF HNextOutBlk, HostTypeOK, ParamAssumption
  <2>3. inPend' \in Seq(CtrlMsg) /\ inPend' # <<>>
    BY <1>12, MsgType DEF HNextOutBlk
  <2>4. HostTypeOK'
    BY <1>12, <1>t, <2>2, <2>3 DEF HNextOutBlk, HostTypeOK, HPc
  <2>5. HostControl'
    BY <1>12, <1>t, <2>3 DEF HNextOutBlk, HostControl, shared
  <2> QED BY <1>12, <2>1, <2>4, <2>5 DEF HostInv, HNextOutBlk
<1>13. CASE HRecvHalt
  BY <1>13, <1>n, <1>p, HostRecvShape DEF HRecvHalt, HPopBlkThen, hLookKeeps
<1>14. CASE HHaltLoopMsg
  BY <1>14, <1>n, <1>p, HostRecvShape DEF HHaltLoopMsg, HLooks, HReturn, hLookKeeps
<1>15. CASE HHaltLoopBlk
  BY <1>15, <1>n, <1>p, <1>s, HostRecvShape DEF HHaltLoopBlk, HPopBlkThen, hLookKeeps
<1>16. CASE HHaltLoopAssert
  BY <1>16, <1>n, <1>p, HostRecvShape DEF HHaltLoopAssert, HLooks, hLookKeeps
<1> QED BY <1>1, <1>2, <1>3, <1>4, <1>5, <1>6, <1>7, <1>8, <1>9, <1>10, <1>11,
           <1>12, <1>13, <1>14, <1>15, <1>16 DEF HostRecvStep

\* The beginning of a call, the steps of ~CHtHifLib and the timer keep the
\* host's part of the invariant.
LEMMA HostOtherSteps ==
  ASSUME ParamAssumption, SharedTypeOK, HostInv,
         \/ HostCall
         \/ HCallSendHostHalt \/ HCallHaltLoop \/ HClose
         \/ HostTimerStep
  PROVE  SharedTypeOK' /\ HostInv'
<1>t. HostTypeOK /\ HostControl
  BY DEF HostInv
<1>b. ASSUME NEW op \in HostOps \cup {"HaltLoop"}, NEW n \in Nat, HBeginRecv(op, n),
             hPhase' \in {"run", "halt", "loop", "drain", "closed"}
      PROVE  SharedTypeOK' /\ HostInv'
  <2>1. SharedTypeOK'
    BY <1>b DEF HBeginRecv, SharedTypeOK, shared
  <2>2. HostTypeOK'
    BY <1>b, <1>t DEF HBeginRecv, HostTypeOK, hSendVars, hRecvVars, HPc
  <2>3. HostControl'
    BY <1>b, <1>t DEF HBeginRecv, HostControl, hSendVars, shared
  <2> QED BY <1>b, <2>1, <2>2, <2>3 DEF HostInv, HBeginRecv, hSendVars
<1>1. CASE HCallSend
  <2>1. PICK op \in HostOps, n \in Nat, k \in Nat : HBeginSend(op, n, k)
    BY <1>1, SMTT(30) DEF HCallSend, HBeginSend, ParamAssumption
  <2>2. SharedTypeOK'
    BY <2>1 DEF HBeginSend, SharedTypeOK, shared
  <2>3. HostTypeOK'
    BY <2>1, <1>t DEF HBeginSend, HostTypeOK, hSendVars, hRecvVars, HPc
  <2>4. HostControl'
    BY <2>1, <1>t DEF HBeginSend, HostControl, hSendVars, shared
  <2> QED BY <2>1, <2>2, <2>3, <2>4 DEF HostInv, HBeginSend, hSendVars
<1>2. CASE HCallRecv
  BY <1>2, <1>b, <1>t DEF HCallRecv, HostTypeOK
<1>3. CASE HCallRecvMarker
  BY <1>3, <1>b, <1>t DEF HCallRecvMarker, HostTypeOK
<1>4. CASE HCallRecvData
  <2>1. PICK n \in 1..MaxQw :
          \/ HBeginRecv("RecvHostData", n)
          \/ /\ hPc = "idle" /\ hOp' = "RecvHostData" /\ hN' = n
             /\ hPc' = "copy" /\ hThen' = "idle"
             /\ UNCHANGED <<hSendVars, hRecvVars, shared>>
    BY <1>4 DEF HCallRecvData
  <2>2. n \in Nat /\ "RecvHostData" \in HostOps /\ hPhase' = hPhase
    BY <1>4 DEF HCallRecvData, ParamAssumption
  <2>3. CASE HBeginRecv("RecvHostData", n)
    BY <1>b, <1>t, <2>2, <2>3 DEF HostTypeOK
  <2>4. CASE ~HBeginRecv("RecvHostData", n)
    <3>1. SharedTypeOK'
      BY <2>1, <2>4 DEF SharedTypeOK, shared
    <3>2. HostTypeOK'
      BY <1>t, <2>1, <2>2, <2>4 DEF HostTypeOK, hSendVars, hRecvVars, HPc
    <3>3. HostControl'
      BY <1>t, <2>1, <2>4 DEF HostControl, hSendVars, shared
    <3> QED BY <2>1, <2>4, <3>1, <3>2, <3>3 DEF HostInv, hSendVars
  <2> QED BY <2>3, <2>4
<1>5. CASE HDelete \/ HClose
  <2>1. hPhase' \in {"halt", "closed"} /\ UNCHANGED <<hPcVars, hSendVars, hRecvVars, shared>>
    BY <1>5 DEF HDelete, HClose
  <2>2. SharedTypeOK'
    BY <2>1 DEF SharedTypeOK, shared
  <2>3. HostTypeOK'
    BY <2>1, <1>t DEF HostTypeOK, hPcVars, hSendVars, hRecvVars
  <2>4. HostControl'
    BY <2>1, <1>t DEF HostControl, hPcVars, hSendVars, shared
  <2> QED BY <2>1, <2>2, <2>3, <2>4 DEF HostInv, hSendVars
<1>6. CASE HCallSendHostHalt
  <2>1. SharedTypeOK'
    BY <1>6 DEF HCallSendHostHalt, SharedTypeOK, shared
  <2>2. HostTypeOK'
    BY <1>6, <1>t DEF HCallSendHostHalt, HostTypeOK, hSendVars, hRecvVars, HPc
  <2>3. HostControl'
    BY <1>6, <1>t DEF HCallSendHostHalt, HostControl, hSendVars, shared
  <2> QED BY <1>6, <2>1, <2>2, <2>3 DEF HostInv, HCallSendHostHalt, hSendVars
<1>7. CASE HCallHaltLoop
  BY <1>7, <1>b DEF HCallHaltLoop
<1>8. CASE HTimerFlush
  <2>1. inBlkWrIdx \in Nat /\ inBlkAvailCnt \in Nat
    BY <1>t DEF HostTypeOK, ParamAssumption
  <2>2. /\ inBlkWrIdx > 0 /\ inBlkAvailCnt > 0 /\ inLock = "free"
        /\ inLock' = "timer" /\ inPend' = HFlushMsgs /\ NextInBlks(1)
        /\ UNCHANGED <<hPhase, hPcVars, hRecvVars, shared>>
    BY <1>8 DEF HTimerFlush, HostInv
  <2>3. HFlushMsgs \in Seq(CtrlMsg) /\ Len(HFlushMsgs) = 1
    BY <1>t, <2>2, HFlushMsgsType
  <2>4. SharedTypeOK'
    BY <2>2 DEF SharedTypeOK, shared
  <2>5. inBlkAvailCnt' \in Nat /\ inBlkWrIdx' = 0 /\ hInBlkIdx' \in 0..InBlkCnt-1
    BY <1>t, <2>1, <2>2 DEF HostTypeOK, NextInBlks, ParamAssumption
  <2>6. HostTypeOK'
    BY <1>t, <2>2, <2>3, <2>5 DEF HostTypeOK, hPcVars, hRecvVars, ParamAssumption
  <2>7. HostControl'
    BY <1>t, <2>2, <2>3 DEF HostControl, hPcVars, shared
  <2> QED BY <2>4, <2>5, <2>6, <2>7 DEF HostInv
<1>9. CASE HTimerWrite
  <2>1. inPend \in Seq(CtrlMsg) /\ Len(inPend) = 1
    BY <1>9, <1>t DEF HTimerWrite, HostTypeOK, HostControl
  <2>2. Head(inPend) \in CtrlMsg /\ Tail(inPend) = <<>>
    <3>1. inPend # <<>>
      BY <2>1, EmptySeq
    <3>2. Head(inPend) \in CtrlMsg /\ Tail(inPend) \in Seq(CtrlMsg) /\ Len(Tail(inPend)) = 0
      BY <2>1, <3>1, HeadTailProperties
    <3> QED BY <3>2, EmptySeq
  <2>3. SharedTypeOK'
    BY <1>9, <2>2, AppendProperties DEF HTimerWrite, PutCtlIn, SharedTypeOK, inLog, outLog
  <2>4. HostTypeOK'
    BY <1>9, <1>t, <2>2 DEF HTimerWrite, PutCtlIn, HostTypeOK, hPcVars, hRecvVars
  <2>5. HostControl'
    <3>1. /\ inLock = "timer" /\ inLock' = "free" /\ inPend' = <<>>
          /\ hPc' = hPc /\ hThen' = hThen /\ ctlOut' = ctlOut
      BY <1>9, <2>2 DEF HTimerWrite, PutCtlIn, hPcVars
    <3> QED BY <1>t, <3>1 DEF HostControl
  <2> QED BY <1>9, <2>3, <2>4, <2>5 DEF HostInv, HTimerWrite, PutCtlIn
<1> QED BY <1>1, <1>2, <1>3, <1>4, <1>5, <1>6, <1>7, <1>8, <1>9
        DEF HostCall, HostTimerStep

\* No step of the host takes a message off ctlIn.
LEMMA HostOnlyAppends ==
  ASSUME HostInv,
         \/ HostSendStep \/ HostRecvStep \/ HostCall \/ HostTimerStep
         \/ HCallSendHostHalt \/ HCallHaltLoop \/ HClose
  PROVE  \/ ctlIn' = ctlIn
         \/ \E x \in CtrlMsg : ctlIn' = Append(ctlIn, x)
<1>1. CASE PutCtlIn
  <2>1. inPend \in Seq(CtrlMsg) /\ inPend # <<>> /\ ctlIn' = Append(ctlIn, Head(inPend))
    BY <1>1 DEF PutCtlIn, HostInv, HostTypeOK
  <2> QED BY <2>1, HeadTailProperties
<1>2. CASE HostSendStep /\ ~PutCtlIn
  BY <1>2 DEF HostSendStep, HSendHostMsg, HFlushHostData, HSendCtlFirst, HSendCtlNoCredit,
     HSendCtlRetry, HSendCtl, HSendDataLock, HSendDataChunk, HSendDataNoCredit,
     HSendDataRetry, HWrite, shared
<1>3. CASE HostRecvStep
  BY <1>3 DEF HostRecvStep, HQueCredit, HQueClear, HQueMsg, HQueDone, HRecvNothing,
     HRecvHostMsg, HRecvHostDataMarker, HRecvReturn, HRecvReturnArgs, HRecvHostData,
     HCopyData, HNextOutBlk, HRecvHalt, HHaltLoopMsg, HHaltLoopBlk, HHaltLoopAssert,
     hLookKeeps, shared
<1>4. CASE HostCall \/ HCallSendHostHalt \/ HCallHaltLoop \/ HClose
  BY <1>4 DEF HostCall, HCallSend, HBeginSend, HCallRecv, HCallRecvMarker, HCallRecvData,
     HBeginRecv, HDelete, HCallSendHostHalt, HCallHaltLoop, HClose, shared
<1>5. CASE HostTimerStep /\ ~PutCtlIn
  BY <1>5 DEF HostTimerStep, HTimerFlush, HTimerWrite, shared
<1> QED BY <1>1, <1>2, <1>3, <1>4, <1>5
=============================================================================
