----------------------------- MODULE HtModelUnit -----------------------------
(***************************************************************************)
(* The coprocessor side of a unit: class CHtModelUnitLib of HtModelLib.cpp *)
(* and what CHtModelHifLib does with it, the mirror image of HtHifUnit.    *)
(*                                                                         *)
(* It differs where the code does: it knows its blocks only once it has    *)
(* read the parameters (mReady), it copies a call's arguments in one call, *)
(* and MsgLoop answers the halt itself.  The application polls before it   *)
(* sends data, and stops when a call reports the halt; destroying the      *)
(* library object then ends HtCoprocModel.                                 *)
(***************************************************************************)
EXTENDS HifCommon

CONSTANT ModelTimer         \* TRUE when m_outBlkTimerClks > 0

VARIABLES
  mPhase,           \* "run", or "done" when HtCoprocModel has returned
  mReady,           \* the block addresses and parameters have been read
  mHaltSeen,        \* m_bHaltSeen
  mPc, mThen,       \* where the call in progress is, and where it goes next
  mOp, mN,          \* the call in progress; quadwords it still has to move
  outLock,          \* m_outLock: "free", or the thread that holds it
  outPend,          \* messages the lock holder still has to write
  outBlkAvailCnt,   \* m_outBlkAvailCnt: blocks the coprocessor may fill
  outBlkWrIdx,      \* m_outBlkWrIdx: quadwords in the block being filled
  mOutBlkIdx,       \* m_outBlkIdx & m_outBlkMask: the block being filled
  inMsgQue,         \* m_inMsgQue: messages taken off the control queue
  inBlkDataSize,    \* m_inBlkDataSize: quadwords left in the front block
  inBlkRdIdx,       \* m_inBlkRdIdx
  mInBlkIdx         \* m_inBlkIdx & m_inBlkMask: the block being read

mStatus   == <<mPhase, mReady, mHaltSeen>>
mPcVars   == <<mPc, mThen, mOp, mN>>
mSendVars == <<outLock, outPend, outBlkAvailCnt, outBlkWrIdx, mOutBlkIdx>>
mRecvVars == <<inMsgQue, inBlkDataSize, inBlkRdIdx, mInBlkIdx>>
modelVars == <<mStatus, mPcVars, mSendVars, mRecvVars>>

MPc == {"idle", "lock", "relock", "write", "data", "que", "clear", "look",
        "copy", "next", "args", "halted"}

ModelTypeOK ==
  /\ mPhase \in {"run", "done"} /\ mReady \in BOOLEAN /\ mHaltSeen \in BOOLEAN
  /\ mPc \in MPc /\ mThen \in MPc
  /\ mOp \in ModelOps \cup {"none", "SendHostHalt"}
  /\ mN \in Nat
  /\ outLock \in {"free", "app", "timer"}
  /\ outPend \in Seq(CtrlMsg)
  /\ outBlkAvailCnt \in Nat
  /\ outBlkWrIdx \in 0..OutBlkSize-1
  /\ mOutBlkIdx \in 0..OutBlkCnt-1
  /\ inMsgQue \in Seq(CtrlMsg) /\ Len(inMsgQue) < CtlQueSize
  /\ inBlkDataSize \in Nat /\ inBlkRdIdx \in Nat
  /\ mInBlkIdx \in 0..InBlkCnt-1

\* CHtModelUnitLib::CHtModelUnitLib
ModelInit ==
  /\ mPhase = "run" /\ mReady = FALSE /\ mHaltSeen = FALSE
  /\ mPc = "idle" /\ mThen = "idle" /\ mOp = "none" /\ mN = 0
  /\ outLock = "free" /\ outPend = <<>>
  /\ outBlkAvailCnt = 0 /\ outBlkWrIdx = 0 /\ mOutBlkIdx = 0
  /\ inMsgQue = <<>>
  /\ inBlkDataSize = 0 /\ inBlkRdIdx = 0 /\ mInBlkIdx = 0

----------------------------------------------------------------------------
\* The application enters a library call.

\* A call returns.
MReturn == mPc' = "idle" /\ mThen' = "idle" /\ mOp' = "none" /\ mN' = 0

\* The application goes on until a call has reported the halt.
MApp == mPhase = "run" /\ ~mHaltSeen

\* A call that sends starts with LockOutBlk; n is its size in quadwords.
MBeginSend(op, n, items) ==
  /\ MApp /\ mPc = "idle" /\ op \in ModelOps
  /\ Len(outSent) + items <= MaxOut
  /\ mPc' = "lock" /\ mThen' = "idle" /\ mOp' = op /\ mN' = n
  /\ UNCHANGED <<mStatus, mSendVars, mRecvVars, shared>>

MCallSend ==
  \/ MBeginSend("SendHostMsg", 0, 1)
  \/ MBeginSend("FlushHostData", 0, 0)
  \/ mReady /\ MBeginSend("SendHostDataMarker", 0, 1)
  \/ mReady /\ \E n \in 1..MaxQw : MBeginSend("SendHostData", n, n)
  \/ mReady /\ \E n \in 0..MaxArgc : MBeginSend("SendReturn", n, n + 1)

\* A call that receives starts with MsgLoop, hence QueInMsgs.
MBeginRecv(op, n) ==
  /\ MApp /\ mPc = "idle" /\ op \in ModelOps
  /\ mOp' = op /\ mN' = n /\ mPc' = "que" /\ mThen' = "look"
  /\ UNCHANGED <<mStatus, mSendVars, mRecvVars, shared>>

MCallRecv ==
  \E op \in {"RecvHostMsg", "RecvPoll", "RecvCall"} : MBeginRecv(op, 0)

\* RecvHostDataMarker fails at once within a block of data.
MCallRecvMarker ==
  inBlkDataSize = 0 /\ MBeginRecv("RecvHostDataMarker", 0)

\* RecvHostData reads on in a block begun earlier without looking further.
MCallRecvData ==
  \E n \in 1..MaxQw :
    \/ inBlkDataSize = 0 /\ MBeginRecv("RecvHostData", n)
    \/ /\ inBlkDataSize > 0 /\ MApp /\ mPc = "idle"
       /\ "RecvHostData" \in ModelOps
       /\ mOp' = "RecvHostData" /\ mN' = n
       /\ mPc' = "copy" /\ mThen' = "idle"
       /\ UNCHANGED <<mStatus, mSendVars, mRecvVars, shared>>

----------------------------------------------------------------------------
\* Critical sections that fill and hand over in blocks.

\* FlushOutBlk: the message that hands over the block being filled, if any.
MFlushMsgs == IF outBlkWrIdx = 0 THEN <<>> ELSE <<Rdy("DATA", outBlkWrIdx)>>

\* k calls of NextOutBlk: k blocks are handed over and an empty one begun.
NextOutBlks(k) ==
  /\ outBlkAvailCnt' = outBlkAvailCnt - k
  /\ outBlkWrIdx' = 0
  /\ mOutBlkIdx' = (mOutBlkIdx + k) % OutBlkCnt

\* The lock holder writes msgs to the control queue, then goes to pc.
MWriteThen(thread, msgs, pc) ==
  /\ outLock' = thread /\ outPend' = msgs
  /\ mPc' = "write" /\ mThen' = pc

\* SendHostMsg: data sent before goes first.
MSendHostMsg ==
  /\ mPc = "lock" /\ mOp = "SendHostMsg" /\ outLock = "free"
  /\ MWriteThen("app", Append(MFlushMsgs, UserMsg(Len(outSent) + 1)), "idle")
  /\ NextOutBlks(Len(MFlushMsgs))
  /\ outSent' = Append(outSent, MkItem("user", Len(outSent) + 1))
  /\ UNCHANGED <<mStatus, mOp, mN, mRecvVars, ctlOut, ctlIn, outBlk, inBlk,
                 outRcvd, inLog>>

\* FlushHostData
MFlushHostData ==
  /\ mPc = "lock" /\ mOp = "FlushHostData" /\ outLock = "free"
  /\ \/ outBlkWrIdx = 0 /\ MReturn /\ UNCHANGED mSendVars
     \/ /\ outBlkWrIdx > 0
        /\ MWriteThen("app", MFlushMsgs, "idle")
        /\ NextOutBlks(1) /\ UNCHANGED <<mOp, mN>>
  /\ UNCHANGED <<mStatus, mRecvVars, shared>>

\* SendHostDataMarker, SendHostHalt and SendReturn each need credit for their
\* own blocks on top of the flush; a call wants two even without arguments.
MCtlNeed == IF mOp = "SendReturn" THEN 2 ELSE 1
MCtlMsgs(wrIdx) ==
  CASE mOp = "SendHostDataMarker" -> <<Rdy("NULL", wrIdx)>>
    [] mOp = "SendHostHalt" -> <<Rdy("HALT", wrIdx)>>
    [] mOp = "SendReturn" /\ mN = 0 -> <<Rdy("CALL", 0)>>
    [] OTHER -> <<Rdy("CALL", mN), Rdy("DATA", mN)>>
MCtlItem ==
  CASE mOp = "SendHostDataMarker" -> MkItem("mark", 0)
    [] mOp = "SendHostHalt" -> MkItem("halt", 0)
    [] OTHER -> MkItem("call", mN)
MCtlOp == mOp \in {"SendHostDataMarker", "SendHostHalt", "SendReturn"}

\* With credit for it: the empty block of the marker, halt or call, and the
\* block after it with the call's arguments.  The message of a marker or halt
\* has m_outBlkWrIdx as its size, which is 0 after the flush.
MSendCtl(flush) ==
  LET args == Fresh(Len(outSent) + 1, mN)
      msgs == MCtlMsgs(IF flush = <<>> THEN outBlkWrIdx ELSE 0) IN
  /\ outBlkAvailCnt - Len(flush) >= MCtlNeed
  /\ MWriteThen("app", flush \o msgs,
                IF mOp = "SendHostHalt" THEN "halted" ELSE "idle")
  /\ NextOutBlks(Len(flush) + Len(msgs))
  /\ outBlk' = [outBlk EXCEPT ![(mOutBlkIdx + Len(flush) + 1) % OutBlkCnt] =
                              CopyIn(@, 0, args)]
  /\ outSent' = outSent \o <<MCtlItem>> \o MkWords(args)
  /\ UNCHANGED <<mStatus, mOp, mN, mRecvVars, ctlOut, ctlIn, inBlk, outRcvd, inLog>>

\* Mutant of MSendCtlFirst: FlushOutBlk is not called first.
MSendCtlFirst_NoFlush ==
  /\ mPc = "lock" /\ MCtlOp /\ outLock = "free"
  /\ MSendCtl(<<>>)

MSendCtlFirst ==
  /\ mPc = "lock" /\ MCtlOp /\ outLock = "free"
  /\ MSendCtl(MFlushMsgs)

\* Without it: flush, unlock, take what the host gave back, retry once; the
\* halt is tried until there is credit.
MSendCtlNoCredit ==
  /\ mPc = "lock" /\ MCtlOp /\ outLock = "free"
  /\ outBlkAvailCnt - Len(MFlushMsgs) < MCtlNeed
  /\ \/ /\ outBlkWrIdx = 0
        /\ mPc' = "que" /\ mThen' = "relock" /\ UNCHANGED mSendVars
     \/ /\ outBlkWrIdx > 0
        /\ MWriteThen("app", MFlushMsgs, "que") /\ NextOutBlks(1)
  /\ UNCHANGED <<mStatus, mOp, mN, mRecvVars, shared>>

\* Mutant of MSendCtlRetry: MsgLoop does not repeat SendHostHalt.
MSendCtlRetry_Once ==
  /\ mPc = "relock" /\ MCtlOp /\ outLock = "free"
  /\ \/ MSendCtl(<<>>)
     \/ /\ outBlkAvailCnt < MCtlNeed /\ MReturn
        /\ UNCHANGED <<mStatus, mSendVars, mRecvVars, shared>>

MSendCtlRetry ==
  /\ mPc = "relock" /\ MCtlOp /\ outLock = "free"
  /\ \/ MSendCtl(<<>>)
     \/ /\ outBlkAvailCnt < MCtlNeed
        /\ mOp # "SendHostHalt" /\ MReturn
        /\ UNCHANGED <<mStatus, mSendVars, mRecvVars, shared>>
     \/ /\ outBlkAvailCnt < MCtlNeed
        /\ mOp = "SendHostHalt" /\ mPc' = "que" /\ mThen' = "lock"
        /\ UNCHANGED <<mStatus, mOp, mN, mSendVars, mRecvVars, shared>>

\* SendHostData takes the lock for its whole loop, and fills block by block.
MSendDataLock ==
  /\ mPc = "lock" /\ mOp = "SendHostData" /\ outLock = "free"
  /\ outLock' = "app" /\ mPc' = "data"
  /\ UNCHANGED <<mStatus, mThen, mOp, mN, outPend, outBlkAvailCnt, outBlkWrIdx,
                 mOutBlkIdx, mRecvVars, shared>>

MSendDataChunk ==
  LET cnt == Lesser(mN, OutBlkSize - outBlkWrIdx)
      ws  == Fresh(Len(outSent), cnt) IN
  /\ mPc = "data" /\ outBlkAvailCnt > 0
  /\ outBlk' = [outBlk EXCEPT ![mOutBlkIdx] = CopyIn(@, outBlkWrIdx, ws)]
  /\ outSent' = outSent \o MkWords(ws)
  /\ \/ /\ outBlkWrIdx + cnt < OutBlkSize
        /\ outBlkWrIdx' = outBlkWrIdx + cnt
        /\ outLock' = "free" /\ MReturn
        /\ UNCHANGED <<outPend, outBlkAvailCnt, mOutBlkIdx>>
     \/ /\ outBlkWrIdx + cnt = OutBlkSize
        /\ mN' = mN - cnt /\ mOp' = mOp
        /\ MWriteThen("app", <<Rdy("DATA", OutBlkSize)>>,
                      IF mN = cnt THEN "idle" ELSE "data")
        /\ NextOutBlks(1)
  /\ UNCHANGED <<mStatus, mRecvVars, ctlOut, ctlIn, inBlk, outRcvd, inLog>>

MSendDataNoCredit ==
  /\ mPc = "data" /\ outBlkAvailCnt = 0
  /\ outLock' = "free" /\ mPc' = "que" /\ mThen' = "relock"
  /\ UNCHANGED <<mStatus, mOp, mN, outPend, outBlkAvailCnt, outBlkWrIdx,
                 mOutBlkIdx, mRecvVars, shared>>

MSendDataRetry ==
  /\ mPc = "relock" /\ mOp = "SendHostData" /\ outLock = "free"
  /\ \/ /\ outBlkAvailCnt = 0 /\ MReturn
        /\ UNCHANGED mSendVars
     \/ /\ outBlkAvailCnt > 0
        /\ outLock' = "app" /\ mPc' = "data"
        /\ UNCHANGED <<mThen, mOp, mN, outPend, outBlkAvailCnt, outBlkWrIdx,
                       mOutBlkIdx>>
  /\ UNCHANGED <<mStatus, mRecvVars, shared>>

\* Mutant of MTimerFlush: a block with a single quadword is left for later.
MTimerFlush_Late ==
  /\ ModelTimer /\ mReady /\ mPhase = "run"
  /\ outLock = "free" /\ outBlkWrIdx > 1
  /\ outLock' = "timer" /\ outPend' = MFlushMsgs /\ NextOutBlks(1)
  /\ UNCHANGED <<mStatus, mPcVars, mRecvVars, shared>>

\* CoprocTimerThread, started by the parameters: OutBlkTimer flushes the block
\* being filled.
MTimerFlush ==
  /\ ModelTimer /\ mReady /\ mPhase = "run"
  /\ outLock = "free" /\ outBlkWrIdx > 0
  /\ outLock' = "timer" /\ outPend' = MFlushMsgs /\ NextOutBlks(1)
  /\ UNCHANGED <<mStatus, mPcVars, mRecvVars, shared>>

\* SendMsgInternal waits for the next slot, with the lock held, and fills it.
\* The last message of a critical section ends it, except that SendHostData
\* keeps the lock while it has more to send.
PutCtlOut ==
  /\ outPend # <<>> /\ Len(ctlOut) < CtlQueSize
  /\ ctlOut' = Append(ctlOut, Head(outPend)) /\ outPend' = Tail(outPend)
  /\ UNCHANGED <<mStatus, outBlkAvailCnt, outBlkWrIdx, mOutBlkIdx, mRecvVars,
                 ctlIn, outBlk, inBlk, outLog, inLog>>

MWrite ==
  /\ mPc = "write" /\ outLock = "app" /\ PutCtlOut
  /\ \/ Len(outPend) > 1 /\ UNCHANGED <<mPcVars, outLock>>
     \/ Len(outPend) = 1 /\ mThen = "idle" /\ outLock' = "free" /\ MReturn
     \/ /\ Len(outPend) = 1 /\ mThen # "idle"
        /\ outLock' = IF mThen = "data" THEN "app" ELSE "free"
        /\ mPc' = mThen
        /\ mThen' = IF mThen # "que" THEN "idle"
                      ELSE IF mOp = "RecvHostData" THEN "look" ELSE "relock"
        /\ UNCHANGED <<mOp, mN>>

MTimerWrite ==
  /\ outLock = "timer" /\ PutCtlOut
  /\ outLock' = "free" /\ UNCHANGED mPcVars

----------------------------------------------------------------------------
\* QueInMsgs: take messages off the control queue, until it is empty or
\* m_inMsgQue is full.  The slot of a credit is cleared after it counted.

MQueCredit ==
  /\ mPc = "que" /\ ctlIn # <<>> /\ Len(inMsgQue) < CtlQueSize - 1
  /\ Head(ctlIn).cmd = "AVL" /\ outLock = "free"
  /\ outBlkAvailCnt' = outBlkAvailCnt + 1
  /\ mPc' = "clear"
  /\ UNCHANGED <<mStatus, mThen, mOp, mN, outLock, outPend, outBlkWrIdx,
                 mOutBlkIdx, mRecvVars, shared>>

MQueClear ==
  /\ mPc = "clear" /\ mPc' = "que"
  /\ ctlIn' = Tail(ctlIn)
  /\ UNCHANGED <<mStatus, mThen, mOp, mN, mSendVars, mRecvVars, ctlOut, outBlk,
                 inBlk, outLog, inLog>>

MQueMsg ==
  /\ mPc = "que" /\ ctlIn # <<>> /\ Len(inMsgQue) < CtlQueSize - 1
  /\ Head(ctlIn).cmd # "AVL"
  /\ inMsgQue' = Append(inMsgQue, Head(ctlIn))
  /\ ctlIn' = Tail(ctlIn)
  /\ UNCHANGED <<mStatus, mPcVars, mSendVars, inBlkDataSize, inBlkRdIdx,
                 mInBlkIdx, ctlOut, outBlk, inBlk, outLog, inLog>>

MQueDone ==
  /\ mPc = "que" /\ (ctlIn = <<>> \/ Len(inMsgQue) >= CtlQueSize - 1)
  /\ mPc' = mThen /\ mThen' = "idle"
  /\ UNCHANGED <<mStatus, mOp, mN, mSendVars, mRecvVars, shared>>

----------------------------------------------------------------------------
\* The rest of MsgLoop and the calls that use its result.

MFrontIsData ==
  inMsgQue # <<>> /\ Head(inMsgQue).cmd = "RDY" /\ Head(inMsgQue).ctl = "DATA"

\* A call with arguments is not reported before the block with them is there.
MArgsThere(m) == m.arg = 0 \/ Len(inMsgQue) >= 2

\* What MsgLoop returns.
MRecvType ==
  IF inMsgQue = <<>> THEN "eRecvIdle"
  ELSE LET m == Head(inMsgQue) IN
    CASE m.cmd = "PARAM" -> "none"
      [] m.cmd = "USER" -> "eRecvHostMsg"
      [] m.cmd = "RDY" /\ m.ctl = "NULL" -> "eRecvHostDataMarker"
      [] m.cmd = "RDY" /\ m.ctl = "HALT" -> "eRecvHalt"
      [] m.cmd = "RDY" /\ m.ctl = "DATA" -> "eRecvHostData"
      [] m.cmd = "RDY" /\ m.ctl = "CALL" ->
           IF MArgsThere(m) THEN "eRecvCall" ELSE "eRecvIdle"
      [] OTHER -> "assert"

\* MsgLoop notes the size of a data block the first time it sees it.
MSeeFront ==
  inBlkDataSize' = IF MFrontIsData /\ inBlkDataSize = 0
                    THEN Head(inMsgQue).arg ELSE inBlkDataSize

MLooks(op, type) == mPc = "look" /\ mOp = op /\ MRecvType = type

\* NextInMsgQue, and NextInBlk if the message came with a block.
MPop == inMsgQue' = Tail(inMsgQue)
MPopBlkThen_NoBlk(pc) ==        \* mutant: NextInBlk is not called
  MPop /\ mPc' = pc /\ mThen' = "idle"
MPopBlkThen(pc) == MPop /\ mPc' = "next" /\ mThen' = pc

MRecvd(items) == inRcvd' = inRcvd \o items
mLookKeeps == <<mStatus, mSendVars, inBlkRdIdx, mInBlkIdx, ctlOut, ctlIn,
                outBlk, inBlk, outLog, inSent>>

\* The parameters: now the blocks are known, and the timer is started.
MParam ==
  /\ mPc = "look" /\ MRecvType = "none"
  /\ mReady' = TRUE /\ MPop
  /\ UNCHANGED <<mPhase, mHaltSeen, mPcVars, mSendVars, inBlkDataSize,
                 inBlkRdIdx, mInBlkIdx, shared>>

\* The call returns without anything received.
MRecvNothing ==
  /\ mPc = "look" /\ MRecvType \notin {"eRecvHalt", "none"}
  /\ MRecvType # CASE mOp = "RecvHostMsg" -> "eRecvHostMsg"
                   [] mOp = "RecvHostData" -> "eRecvHostData"
                   [] mOp = "RecvHostDataMarker" -> "eRecvHostDataMarker"
                   [] mOp = "RecvCall" -> "eRecvCall"
                   [] mOp = "RecvPoll" -> "none"
  /\ MReturn /\ MSeeFront
  /\ UNCHANGED <<inMsgQue, inRcvd, mLookKeeps>>

MRecvHostMsg ==
  /\ MLooks("RecvHostMsg", "eRecvHostMsg")
  /\ MPop /\ MReturn /\ MRecvd(<<MkItem("user", Head(inMsgQue).arg)>>)
  /\ UNCHANGED <<inBlkDataSize, mLookKeeps>>

MRecvHostDataMarker ==
  /\ MLooks("RecvHostDataMarker", "eRecvHostDataMarker")
  /\ MPopBlkThen("idle") /\ MRecvd(<<MkItem("mark", 0)>>)
  /\ UNCHANGED <<mOp, mN, inBlkDataSize, mLookKeeps>>

\* RecvCall: the empty block of the call, then the block of arguments.
MRecvCall ==
  /\ MLooks("RecvCall", "eRecvCall")
  /\ LET argc == Head(inMsgQue).arg IN
     /\ MPopBlkThen(IF argc = 0 THEN "idle" ELSE "args")
     /\ mN' = argc
     /\ MRecvd(<<MkItem("call", argc)>>)
  /\ UNCHANGED <<mOp, inBlkDataSize, mLookKeeps>>

MRecvCallArgs ==
  /\ mPc = "args"
  /\ MPopBlkThen("idle")
  /\ MRecvd(MkWords(CopyOut(inBlk[mInBlkIdx], 0, mN)))
  /\ UNCHANGED <<mOp, mN, inBlkDataSize, mLookKeeps>>

MRecvHostData ==
  /\ MLooks("RecvHostData", "eRecvHostData")
  /\ MSeeFront /\ mPc' = "copy"
  /\ UNCHANGED <<mThen, mOp, mN, inMsgQue, inRcvd, mLookKeeps>>

\* One memcpy of RecvHostData's loop.  An exhausted block is given back; with
\* more to receive the loop looks for the next block.
MCopyData ==
  LET cnt  == Lesser(inBlkDataSize, mN)
      more == mN > cnt IN
  /\ mPc = "copy"
  /\ MRecvd(MkWords(CopyOut(inBlk[mInBlkIdx], inBlkRdIdx, cnt)))
  /\ inBlkRdIdx' = inBlkRdIdx + cnt
  /\ inBlkDataSize' = inBlkDataSize - cnt
  /\ \/ /\ cnt = inBlkDataSize
        /\ MPopBlkThen(IF more THEN "que" ELSE "idle")
        /\ mN' = mN - cnt /\ mOp' = mOp
     \/ cnt < inBlkDataSize /\ MReturn /\ UNCHANGED inMsgQue
  /\ UNCHANGED <<mStatus, mSendVars, mInBlkIdx, ctlOut, ctlIn,
                 outBlk, inBlk, outLog, inSent>>

\* NextInBlk gives the block back to the host.
MNextInBlk ==
  /\ mPc = "next" /\ outLock = "free"
  /\ outLock' = "app" /\ outPend' = <<AvlMsg>> /\ mPc' = "write"
  /\ mInBlkIdx' = (mInBlkIdx + 1) % InBlkCnt
  /\ inBlkRdIdx' = 0
  /\ UNCHANGED <<mStatus, mThen, mOp, mN, outBlkAvailCnt, outBlkWrIdx, mOutBlkIdx,
                 inMsgQue, inBlkDataSize, shared>>

\* MsgLoop consumes the halt, whatever the call, and sends the halt back.
MRecvHalt ==
  /\ mPc = "look" /\ MRecvType = "eRecvHalt"
  /\ MPopBlkThen("lock") /\ MRecvd(<<MkItem("halt", 0)>>)
  /\ mOp' = "SendHostHalt" /\ mN' = 0
  /\ UNCHANGED <<inBlkDataSize, mLookKeeps>>

MHaltSeen ==
  /\ mPc = "halted" /\ MReturn
  /\ mHaltSeen' = TRUE
  /\ UNCHANGED <<mPhase, mReady, mSendVars, mRecvVars, shared>>

\* ~CHtModelHifLib: the halt has been seen, and the timer has stopped; then
\* HtCoprocModel returns and m_bCoprocBusy is false.
MDone ==
  /\ mPhase = "run" /\ mHaltSeen /\ outLock = "free"
  /\ mPhase' = "done"
  /\ UNCHANGED <<mReady, mHaltSeen, mPcVars, mSendVars, mRecvVars, shared>>

----------------------------------------------------------------------------
\* The steps inside library calls, and those that begin one.

ModelSendStep ==
  \/ MSendHostMsg \/ MFlushHostData
  \/ MSendCtlFirst \/ MSendCtlNoCredit \/ MSendCtlRetry
  \/ MSendDataLock \/ MSendDataChunk \/ MSendDataNoCredit \/ MSendDataRetry
  \/ MWrite

ModelRecvStep ==
  \/ MQueCredit \/ MQueClear \/ MQueMsg \/ MQueDone
  \/ MParam \/ MRecvNothing \/ MRecvHostMsg \/ MRecvHostDataMarker
  \/ MRecvCall \/ MRecvCallArgs
  \/ MRecvHostData \/ MCopyData \/ MNextInBlk
  \/ MRecvHalt \/ MHaltSeen \/ MDone

ModelCall ==
  \/ MCallSend \/ MCallRecv \/ MCallRecvMarker \/ MCallRecvData

ModelTimerStep == MTimerFlush \/ MTimerWrite

----------------------------------------------------------------------------
\* Where the lock holder is, what it still has to write and where it goes
\* then; a credit that has been counted is still at the front of its queue.
ModelControl ==
  /\ outLock = "app" <=> mPc \in {"write", "data"}
  /\ outLock = "free" => outPend = <<>>
  /\ outLock = "timer" => Len(outPend) = 1
  /\ mPc = "data" => outPend = <<>>
  /\ mPc = "write" => /\ outPend # <<>>
                      /\ mThen \in {"idle", "data", "que", "args", "lock", "halted"}
  /\ mPc = "next" => mThen \in {"idle", "que", "args", "lock"}
  /\ mPc \in {"que", "clear"} => mThen \in {"relock", "look", "lock"}
  /\ mPc = "clear" => ctlIn # <<>> /\ Head(ctlIn).cmd = "AVL"
=============================================================================
