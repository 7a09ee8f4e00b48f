------------------------------ MODULE HtHifUnit ------------------------------
(***************************************************************************)
(* The host side of a unit: class CHtUnitLib of HtHifLib.cpp.              *)
(*                                                                         *)
(* Two threads use it.  The application thread is inside at most one       *)
(* library call, at hPc; the timer thread flushes a partly filled block.   *)
(* m_inLock serialises them.  The fields it guards are only touched by its *)
(* holder, so a critical section is one step except where it waits: in     *)
(* SendMsgInternal, for the slot of the control queue to become free, with *)
(* the lock held.  inPend is what its holder still has to write there.     *)
(***************************************************************************)
EXTENDS HifCommon

CONSTANT HostTimer          \* TRUE when m_iBlkTimerUSec > 0

VARIABLES
  hPhase,           \* "run", then the steps of ~CHtHifLib
  hPc, hThen,       \* where the call in progress is, and where it goes next
  hOp, hN,          \* the call in progress; quadwords it still has to move
  inLock,           \* m_inLock: "free", or the thread that holds it
  inPend,           \* messages the lock holder still has to write
  inBlkAvailCnt,    \* m_inBlkAvailCnt: blocks the host may fill
  inBlkWrIdx,       \* m_inBlkWrIdx: quadwords in the block being filled
  hInBlkIdx,        \* m_inBlkIdx & m_inBlkMask: the block being filled
  outMsgQue,        \* m_outMsgQue: messages taken off the control queue
  outBlkDataSize,   \* m_outBlkDataSize: quadwords left in the front block
  outBlkRdIdx,      \* m_outBlkRdIdx
  hOutBlkIdx,       \* m_outBlkIdx & m_outBlkMask: the block being read
  recvRtnArgc       \* m_recvRtnArgc

hPcVars   == <<hPc, hThen, hOp, hN>>
hSendVars == <<inLock, inPend, inBlkAvailCnt, inBlkWrIdx, hInBlkIdx>>
hRecvVars == <<outMsgQue, outBlkDataSize, outBlkRdIdx, hOutBlkIdx, recvRtnArgc>>
hostVars  == <<hPhase, hPcVars, hSendVars, hRecvVars>>

HPc == {"idle", "lock", "relock", "write", "data", "que", "clear", "look",
        "copy", "next", "args", "assert"}

HostTypeOK ==
  /\ hPhase \in {"run", "halt", "loop", "drain", "closed"}
  /\ hPc \in HPc /\ hThen \in HPc
  /\ hOp \in HostOps \cup {"none", "SendHostHalt", "HaltLoop"}
  /\ hN \in Nat
  /\ inLock \in {"free", "app", "timer"}
  /\ inPend \in Seq(CtrlMsg)
  /\ inBlkAvailCnt \in Nat
  /\ inBlkWrIdx \in 0..InBlkSize-1
  /\ hInBlkIdx \in 0..InBlkCnt-1
  /\ outMsgQue \in Seq(CtrlMsg) /\ Len(outMsgQue) < CtlQueSize
  /\ outBlkDataSize \in Nat /\ outBlkRdIdx \in Nat
  /\ hOutBlkIdx \in 0..OutBlkCnt-1
  /\ recvRtnArgc \in Nat

\* CHtUnitLib::CHtUnitLib
HostInit ==
  /\ hPhase = "run"
  /\ hPc = "idle" /\ hThen = "idle" /\ hOp = "none" /\ hN = 0
  /\ inLock = "free" /\ inPend = <<>>
  /\ inBlkAvailCnt = InBlkCnt /\ inBlkWrIdx = 0 /\ hInBlkIdx = 0
  /\ outMsgQue = <<>>
  /\ outBlkDataSize = 0 /\ outBlkRdIdx = 0 /\ hOutBlkIdx = 0
  /\ recvRtnArgc = 0

----------------------------------------------------------------------------
\* The application enters a library call.

\* A call returns.
HReturn == hPc' = "idle" /\ hThen' = "idle" /\ hOp' = "none" /\ hN' = 0

\* A call that sends starts with LockInBlk; n is its size in quadwords.
HBeginSend(op, n, items) ==
  /\ hPhase = "run" /\ hPc = "idle" /\ op \in HostOps
  /\ Len(inSent) + items <= MaxIn
  /\ hPc' = "lock" /\ hThen' = "idle" /\ hOp' = op /\ hN' = n
  /\ UNCHANGED <<hPhase, hSendVars, hRecvVars, shared>>

HCallSend ==
  \/ HBeginSend("SendHostMsg", 0, 1)
  \/ HBeginSend("SendHostDataMarker", 0, 1)
  \/ HBeginSend("FlushHostData", 0, 0)
  \/ \E n \in 1..MaxQw : HBeginSend("SendHostData", n, n)
  \/ \E n \in 0..MaxArgc : HBeginSend("SendCall", n, n + 1)

\* A call that receives starts with MsgLoop, hence QueOutMsgs.
HBeginRecv(op, n) ==
  /\ hPc = "idle"
  /\ hOp' = op /\ hN' = n /\ hPc' = "que" /\ hThen' = "look"
  /\ UNCHANGED <<hSendVars, hRecvVars, shared>>

HCallRecv ==
  /\ hPhase = "run"
  /\ \E op \in HostOps : HBeginRecv(op, 0) /\
       op \in {"RecvHostMsg", "RecvPoll", "RecvReturn"}
  /\ UNCHANGED hPhase

\* RecvHostDataMarker fails at once within a return or a block of data.
HCallRecvMarker ==
  /\ hPhase = "run" /\ "RecvHostDataMarker" \in HostOps
  /\ recvRtnArgc = 0 /\ outBlkDataSize = 0
  /\ HBeginRecv("RecvHostDataMarker", 0)
  /\ UNCHANGED hPhase

\* RecvHostData reads on in a block begun earlier without looking further.
HCallRecvData ==
  /\ hPhase = "run" /\ "RecvHostData" \in HostOps /\ recvRtnArgc = 0
  /\ \E n \in 1..MaxQw :
       \/ outBlkDataSize = 0 /\ HBeginRecv("RecvHostData", n)
       \/ /\ outBlkDataSize > 0 /\ hPc = "idle"
          /\ hOp' = "RecvHostData" /\ hN' = n
          /\ hPc' = "copy" /\ hThen' = "idle"
          /\ UNCHANGED <<hSendVars, hRecvVars, shared>>
  /\ UNCHANGED hPhase

----------------------------------------------------------------------------
\* Critical sections that fill and hand over in blocks.

\* FlushInBlk: the message that hands over the block being filled, if any.
HFlushMsgs == IF inBlkWrIdx = 0 THEN <<>> ELSE <<Rdy("DATA", inBlkWrIdx)>>

\* Mutants of NextInBlks: m_inBlkWrIdx is not reset, m_inBlkIdx is not masked,
\* m_inBlkAvailCnt is not decremented.
NextInBlks_NoReset(k) ==
  /\ inBlkAvailCnt' = inBlkAvailCnt - k
  /\ inBlkWrIdx' = inBlkWrIdx
  /\ hInBlkIdx' = (hInBlkIdx + k) % InBlkCnt
NextInBlks_NoMask(k) ==
  /\ inBlkAvailCnt' = inBlkAvailCnt - k
  /\ inBlkWrIdx' = 0
  /\ hInBlkIdx' = hInBlkIdx + k
NextInBlks_NoDebit(k) ==
  /\ inBlkAvailCnt' = inBlkAvailCnt
  /\ inBlkWrIdx' = 0
  /\ hInBlkIdx' = (hInBlkIdx + k) % InBlkCnt

\* k calls of NextInBlk: k blocks are handed over and an empty one begun.
NextInBlks(k) ==
  /\ inBlkAvailCnt' = inBlkAvailCnt - k
  /\ inBlkWrIdx' = 0
  /\ hInBlkIdx' = (hInBlkIdx + k) % InBlkCnt

\* The lock holder writes msgs to the control queue, then goes to pc.
HWriteThen(thread, msgs, pc) ==
  /\ inLock' = thread /\ inPend' = msgs
  /\ hPc' = "write" /\ hThen' = pc

\* SendHostMsg: data sent before goes first.
HSendHostMsg ==
  /\ hPc = "lock" /\ hOp = "SendHostMsg" /\ inLock = "free"
  /\ HWriteThen("app", Append(HFlushMsgs, UserMsg(Len(inSent) + 1)), "idle")
  /\ NextInBlks(Len(HFlushMsgs))
  /\ inSent' = Append(inSent, MkItem("user", Len(inSent) + 1))
  /\ UNCHANGED <<hPhase, hOp, hN, hRecvVars, ctlIn, ctlOut, inBlk, outBlk,
                 inRcvd, outLog>>

\* FlushHostData
HFlushHostData ==
  /\ hPc = "lock" /\ hOp = "FlushHostData" /\ inLock = "free"
  /\ \/ inBlkWrIdx = 0 /\ HReturn /\ UNCHANGED hSendVars
     \/ /\ inBlkWrIdx > 0
        /\ HWriteThen("app", HFlushMsgs, "idle")
        /\ NextInBlks(1) /\ UNCHANGED <<hOp, hN>>
  /\ UNCHANGED <<hPhase, hRecvVars, shared>>

\* SendHostDataMarker, SendHostHalt and SendCall each need credit for their
\* own blocks on top of the flush; a call wants two even without arguments.
HCtlNeed == IF hOp = "SendCall" THEN 2 ELSE 1

\* Mutant of HCtlMsgs: the arguments of a call are handed over before the call.
HCtlMsgs_Swapped(wrIdx) ==
  CASE hOp = "SendHostDataMarker" -> <<Rdy("NULL", wrIdx)>>
    [] hOp = "SendHostHalt" -> <<Rdy("HALT", wrIdx)>>
    [] hOp = "SendCall" /\ hN = 0 -> <<Rdy("CALL", 0)>>
    [] OTHER -> <<Rdy("DATA", hN), Rdy("CALL", hN)>>

HCtlMsgs(wrIdx) ==
  CASE hOp = "SendHostDataMarker" -> <<Rdy("NULL", wrIdx)>>
    [] hOp = "SendHostHalt" -> <<Rdy("HALT", wrIdx)>>
    [] hOp = "SendCall" /\ hN = 0 -> <<Rdy("CALL", 0)>>
    [] OTHER -> <<Rdy("CALL", hN), Rdy("DATA", hN)>>
HCtlItem ==
  CASE hOp = "SendHostDataMarker" -> MkItem("mark", 0)
    [] hOp = "SendHostHalt" -> MkItem("halt", 0)
    [] OTHER -> MkItem("call", hN)
HCtlOp == hOp \in {"SendHostDataMarker", "SendHostHalt", "SendCall"}

\* With credit for it: the empty block of the marker, halt or call, and the
\* block after it with the call's arguments.  The message of a marker or halt
\* has m_inBlkWrIdx as its size, which is 0 after the flush.
HSendCtl(flush) ==
  LET args == Fresh(Len(inSent) + 1, hN)
      msgs == HCtlMsgs(IF flush = <<>> THEN inBlkWrIdx ELSE 0) IN
  /\ inBlkAvailCnt - Len(flush) >= HCtlNeed
  /\ HWriteThen("app", flush \o msgs, "idle")
  /\ NextInBlks(Len(flush) + Len(msgs))
  /\ inBlk' = [inBlk EXCEPT ![(hInBlkIdx + Len(flush) + 1) % InBlkCnt] =
                              CopyIn(@, 0, args)]
  /\ inSent' = inSent \o <<HCtlItem>> \o MkWords(args)
  /\ hPhase' = IF hOp = "SendHostHalt" THEN "drain" ELSE hPhase
  /\ UNCHANGED <<hOp, hN, hRecvVars, ctlIn, ctlOut, outBlk, inRcvd, outLog>>

HSendCtlFirst ==
  /\ hPc = "lock" /\ HCtlOp /\ inLock = "free"
  /\ HSendCtl(HFlushMsgs)

\* Without it: flush, unlock, take what the coprocessor gave back, retry once.
HSendCtlNoCredit ==
  /\ hPc = "lock" /\ HCtlOp /\ inLock = "free"
  /\ inBlkAvailCnt - Len(HFlushMsgs) < HCtlNeed
  /\ \/ /\ inBlkWrIdx = 0
        /\ hPc' = "que" /\ hThen' = "relock" /\ UNCHANGED hSendVars
     \/ /\ inBlkWrIdx > 0
        /\ HWriteThen("app", HFlushMsgs, "que") /\ NextInBlks(1)
  /\ UNCHANGED <<hPhase, hOp, hN, hRecvVars, shared>>

HSendCtlRetry ==
  /\ hPc = "relock" /\ HCtlOp /\ inLock = "free"
  /\ \/ HSendCtl(<<>>)
     \/ /\ inBlkAvailCnt < HCtlNeed /\ HReturn
        /\ hPhase' = IF hOp = "SendHostHalt" THEN "loop" ELSE hPhase
        /\ UNCHANGED <<hSendVars, hRecvVars, shared>>

\* SendHostData takes the lock for its whole loop, and fills block by block.
HSendDataLock ==
  /\ hPc = "lock" /\ hOp = "SendHostData" /\ inLock = "free"
  /\ inLock' = "app" /\ hPc' = "data"
  /\ UNCHANGED <<hPhase, hThen, hOp, hN, inPend, inBlkAvailCnt, inBlkWrIdx,
                 hInBlkIdx, hRecvVars, shared>>

HSendDataChunk ==
  LET cnt == Lesser(hN, InBlkSize - inBlkWrIdx)
      ws  == Fresh(Len(inSent), cnt) IN
  /\ hPc = "data" /\ inBlkAvailCnt > 0
  /\ inBlk' = [inBlk EXCEPT ![hInBlkIdx] = CopyIn(@, inBlkWrIdx, ws)]
  /\ inSent' = inSent \o MkWords(ws)
  /\ \/ /\ inBlkWrIdx + cnt < InBlkSize
        /\ inBlkWrIdx' = inBlkWrIdx + cnt
        /\ inLock' = "free" /\ HReturn
        /\ UNCHANGED <<inPend, inBlkAvailCnt, hInBlkIdx>>
     \/ /\ inBlkWrIdx + cnt = InBlkSize
        /\ hN' = hN - cnt /\ hOp' = hOp
        /\ HWriteThen("app", <<Rdy("DATA", InBlkSize)>>,
                      IF hN = cnt THEN "idle" ELSE "data")
        /\ NextInBlks(1)
  /\ UNCHANGED <<hPhase, hRecvVars, ctlIn, ctlOut, outBlk, inRcvd, outLog>>

\* Mutant of HSendDataNoCredit: the lock is kept while QueOutMsgs runs.
HSendDataNoCredit_Locked ==
  /\ hPc = "data" /\ inBlkAvailCnt = 0
  /\ hPc' = "que" /\ hThen' = "relock"
  /\ UNCHANGED <<hPhase, hOp, hN, inLock, inPend, inBlkAvailCnt, inBlkWrIdx,
                 hInBlkIdx, hRecvVars, shared>>

HSendDataNoCredit ==
  /\ hPc = "data" /\ inBlkAvailCnt = 0
  /\ inLock' = "free" /\ hPc' = "que" /\ hThen' = "relock"
  /\ UNCHANGED <<hPhase, hOp, hN, inPend, inBlkAvailCnt, inBlkWrIdx,
                 hInBlkIdx, hRecvVars, shared>>

HSendDataRetry ==
  /\ hPc = "relock" /\ hOp = "SendHostData" /\ inLock = "free"
  /\ \/ /\ inBlkAvailCnt = 0 /\ HReturn
        /\ UNCHANGED hSendVars
     \/ /\ inBlkAvailCnt > 0
        /\ inLock' = "app" /\ hPc' = "data"
        /\ UNCHANGED <<hThen, hOp, hN, inPend, inBlkAvailCnt, inBlkWrIdx,
                       hInBlkIdx>>
  /\ UNCHANGED <<hPhase, hRecvVars, shared>>

\* Mutants of HTimerFlush: the timer does not take m_inLock; it leaves a block
\* with a single quadword for later.
HTimerFlush_NoLock ==
  /\ HostTimer /\ hPhase # "closed" /\ inBlkWrIdx > 0
  /\ inLock' = "timer" /\ inPend' = HFlushMsgs /\ NextInBlks(1)
  /\ UNCHANGED <<hPhase, hPcVars, hRecvVars, shared>>
HTimerFlush_Late ==
  /\ HostTimer /\ hPhase # "closed"
  /\ inLock = "free" /\ inBlkWrIdx > 1
  /\ inLock' = "timer" /\ inPend' = HFlushMsgs /\ NextInBlks(1)
  /\ UNCHANGED <<hPhase, hPcVars, hRecvVars, shared>>

\* HostTimerThread: InBlkTimer flushes the block being filled.
HTimerFlush ==
  /\ HostTimer /\ hPhase # "closed"
  /\ inLock = "free" /\ inBlkWrIdx > 0
  /\ inLock' = "timer" /\ inPend' = HFlushMsgs /\ NextInBlks(1)
  /\ UNCHANGED <<hPhase, hPcVars, hRecvVars, shared>>

\* SendMsgInternal waits for the next slot, with the lock held, and fills it.
\* The last message of a critical section ends it, except that SendHostData
\* keeps the lock while it has more to send.
PutCtlIn ==
  /\ inPend # <<>> /\ Len(ctlIn) < CtlQueSize
  /\ ctlIn' = Append(ctlIn, Head(inPend)) /\ inPend' = Tail(inPend)
  /\ UNCHANGED <<hPhase, inBlkAvailCnt, inBlkWrIdx, hInBlkIdx, hRecvVars,
                 ctlOut, inBlk, outBlk, inLog, outLog>>

HWrite ==
  /\ hPc = "write" /\ inLock = "app" /\ PutCtlIn
  /\ \/ Len(inPend) > 1 /\ UNCHANGED <<hPcVars, inLock>>
     \/ Len(inPend) = 1 /\ hThen = "idle" /\ inLock' = "free" /\ HReturn
     \/ /\ Len(inPend) = 1 /\ hThen # "idle"
        /\ inLock' = IF hThen = "data" THEN "app" ELSE "free"
        /\ hPc' = hThen
        /\ hThen' = IF hThen # "que" THEN "idle"
                      ELSE IF hOp = "RecvHostData" THEN "look" ELSE "relock"
        /\ UNCHANGED <<hOp, hN>>

HTimerWrite ==
  /\ inLock = "timer" /\ PutCtlIn
  /\ inLock' = "free" /\ UNCHANGED hPcVars

----------------------------------------------------------------------------
\* QueOutMsgs: take messages off the control queue, until it is empty or
\* m_outMsgQue is full.  The slot of a credit is cleared after it counted.

HQueCredit ==
  /\ hPc = "que" /\ ctlOut # <<>> /\ Len(outMsgQue) < CtlQueSize - 1
  /\ Head(ctlOut).cmd = "AVL" /\ inLock = "free"
  /\ inBlkAvailCnt' = inBlkAvailCnt + 1
  /\ hPc' = "clear"
  /\ UNCHANGED <<hPhase, hThen, hOp, hN, inLock, inPend, inBlkWrIdx,
                 hInBlkIdx, hRecvVars, shared>>

HQueClear ==
  /\ hPc = "clear" /\ hPc' = "que"
  /\ ctlOut' = Tail(ctlOut)
  /\ UNCHANGED <<hPhase, hThen, hOp, hN, hSendVars, hRecvVars, ctlIn, inBlk,
                 outBlk, inLog, outLog>>

HQueMsg ==
  /\ hPc = "que" /\ ctlOut # <<>> /\ Len(outMsgQue) < CtlQueSize - 1
  /\ Head(ctlOut).cmd # "AVL"
  /\ outMsgQue' = Append(outMsgQue, Head(ctlOut))
  /\ ctlOut' = Tail(ctlOut)
  /\ UNCHANGED <<hPhase, hPcVars, hSendVars, outBlkDataSize, outBlkRdIdx,
                 hOutBlkIdx, recvRtnArgc, ctlIn, inBlk, outBlk, inLog, outLog>>

HQueDone ==
  /\ hPc = "que" /\ (ctlOut = <<>> \/ Len(outMsgQue) >= CtlQueSize - 1)
  /\ hPc' = hThen /\ hThen' = "idle"
  /\ UNCHANGED <<hPhase, hOp, hN, hSendVars, hRecvVars, shared>>

----------------------------------------------------------------------------
\* The rest of MsgLoop and the calls that use its result.

HFrontIsData ==
  outMsgQue # <<>> /\ Head(outMsgQue).cmd = "RDY" /\ Head(outMsgQue).ctl = "DATA"

\* A return with arguments is not reported before the block with them is
\* there too; a mutant reports it at once.
HArgsThere_AtOnce(m) == m.arg \in Nat
HArgsThere(m) == m.arg = 0 \/ Len(outMsgQue) >= 2

\* What MsgLoop returns.
HRecvType ==
  IF outMsgQue = <<>> THEN "eRecvIdle"
  ELSE LET m == Head(outMsgQue) IN
    CASE m.cmd = "USER" -> "eRecvHostMsg"
      [] m.cmd = "RDY" /\ m.ctl = "NULL" -> "eRecvHostDataMarker"
      [] m.cmd = "RDY" /\ m.ctl = "HALT" -> "eRecvHalt"
      [] m.cmd = "RDY" /\ m.ctl = "DATA" ->
           IF recvRtnArgc > 0 THEN "eRecvReturn" ELSE "eRecvHostData"
      [] m.cmd = "RDY" /\ m.ctl = "CALL" ->
           IF HArgsThere(m) THEN "eRecvReturn" ELSE "eRecvIdle"
      [] OTHER -> "assert"

\* MsgLoop notes the size of a data block the first time it sees it.
HSeeFront ==
  outBlkDataSize' = IF HFrontIsData /\ outBlkDataSize = 0
                    THEN Head(outMsgQue).arg ELSE outBlkDataSize

HLooks(op, type) == hPc = "look" /\ hOp = op /\ HRecvType = type

\* NextOutMsgQue, and NextOutBlk if the message came with a block.
HPop == outMsgQue' = Tail(outMsgQue)
HPopBlkThen_NoBlk(pc) ==        \* mutant: NextOutBlk is not called
  HPop /\ hPc' = pc /\ hThen' = "idle"
HPopBlkThen(pc) == HPop /\ hPc' = "next" /\ hThen' = pc

HRecvd(items) == outRcvd' = outRcvd \o items
hLookKeeps == <<hPhase, hSendVars, outBlkRdIdx, hOutBlkIdx, ctlIn, ctlOut,
                inBlk, outBlk, inLog, outSent>>

\* The call returns without anything received.
HRecvNothing ==
  /\ hPc = "look" /\ HRecvType # "eRecvHalt"
  /\ HRecvType # CASE hOp = "RecvHostMsg" -> "eRecvHostMsg"
                   [] hOp = "RecvHostData" -> "eRecvHostData"
                   [] hOp = "RecvHostDataMarker" -> "eRecvHostDataMarker"
                   [] hOp = "RecvReturn" -> "eRecvReturn"
                   [] OTHER -> "none"
  /\ hOp = "HaltLoop" => HRecvType = "eRecvIdle"
  /\ HReturn /\ HSeeFront
  /\ UNCHANGED <<outMsgQue, recvRtnArgc, outRcvd, hLookKeeps>>

HRecvHostMsg ==
  /\ HLooks("RecvHostMsg", "eRecvHostMsg")
  /\ HPop /\ HReturn /\ HRecvd(<<MkItem("user", Head(outMsgQue).arg)>>)
  /\ UNCHANGED <<outBlkDataSize, recvRtnArgc, hLookKeeps>>

HRecvHostDataMarker ==
  /\ HLooks("RecvHostDataMarker", "eRecvHostDataMarker")
  /\ HPopBlkThen("idle") /\ HRecvd(<<MkItem("mark", 0)>>)
  /\ UNCHANGED <<hOp, hN, outBlkDataSize, recvRtnArgc, hLookKeeps>>

\* RecvReturn: the empty block of the return, then the block of arguments.
\* The arguments are at the front of the queue by now, so the early return
\* for another message is not taken.
HRecvReturn ==
  /\ HLooks("RecvReturn", "eRecvReturn")
  /\ LET argc == Head(outMsgQue).arg IN
     /\ HPopBlkThen(IF argc = 0 THEN "idle" ELSE "args")
     /\ recvRtnArgc' = argc
     /\ HRecvd(<<MkItem("call", argc)>>)
  /\ UNCHANGED <<hOp, hN, outBlkDataSize, hLookKeeps>>

HRecvReturnArgs ==
  /\ hPc = "args"
  /\ HPopBlkThen("idle") /\ recvRtnArgc' = 0
  /\ HRecvd(MkWords(CopyOut(outBlk[hOutBlkIdx], 0, recvRtnArgc)))
  /\ UNCHANGED <<hOp, hN, outBlkDataSize, hLookKeeps>>

HRecvHostData ==
  /\ HLooks("RecvHostData", "eRecvHostData")
  /\ HSeeFront /\ hPc' = "copy"
  /\ UNCHANGED <<hThen, hOp, hN, outMsgQue, recvRtnArgc, outRcvd, hLookKeeps>>

\* One memcpy of RecvHostData's loop.  An exhausted block is given back; with
\* more to receive the loop looks for the next block.
HCopyData ==
  LET cnt  == Lesser(outBlkDataSize, hN)
      more == hN > cnt IN
  /\ hPc = "copy"
  /\ HRecvd(MkWords(CopyOut(outBlk[hOutBlkIdx], outBlkRdIdx, cnt)))
  /\ outBlkRdIdx' = outBlkRdIdx + cnt
  /\ outBlkDataSize' = outBlkDataSize - cnt
  /\ \/ /\ cnt = outBlkDataSize
        /\ HPopBlkThen(IF more THEN "que" ELSE "idle")
        /\ hN' = hN - cnt /\ hOp' = hOp
     \/ cnt < outBlkDataSize /\ HReturn /\ UNCHANGED outMsgQue
  /\ UNCHANGED <<hPhase, hSendVars, hOutBlkIdx, recvRtnArgc, ctlIn, ctlOut,
                 inBlk, outBlk, inLog, outSent>>

\* NextOutBlk gives the block back to the coprocessor.
HNextOutBlk ==
  /\ hPc = "next" /\ inLock = "free"
  /\ inLock' = "app" /\ inPend' = <<AvlMsg>> /\ hPc' = "write"
  /\ hOutBlkIdx' = (hOutBlkIdx + 1) % OutBlkCnt
  /\ outBlkRdIdx' = 0
  /\ UNCHANGED <<hPhase, hThen, hOp, hN, inBlkAvailCnt, inBlkWrIdx, hInBlkIdx,
                 outMsgQue, outBlkDataSize, recvRtnArgc, shared>>

\* MsgLoop itself consumes the halt, whatever the call.
HRecvHalt ==
  /\ hPc = "look" /\ HRecvType = "eRecvHalt"
  /\ HPopBlkThen("idle") /\ HRecvd(<<MkItem("halt", 0)>>)
  /\ UNCHANGED <<hOp, hN, outBlkDataSize, recvRtnArgc, hLookKeeps>>

----------------------------------------------------------------------------
\* ~CHtHifLib: send the halt, discarding what arrives as long as there is no
\* credit for it, then go on discarding until the coprocessor is done.

HDelete ==
  /\ hPhase = "run" /\ hPc = "idle" /\ "delete" \in HostOps
  /\ hPhase' = "halt"
  /\ UNCHANGED <<hPcVars, hSendVars, hRecvVars, shared>>

HCallSendHostHalt ==
  /\ hPhase = "halt" /\ hPc = "idle"
  /\ hPc' = "lock" /\ hOp' = "SendHostHalt"
  /\ UNCHANGED <<hPhase, hThen, hN, hSendVars, hRecvVars, shared>>

HCallHaltLoop ==
  /\ hPhase \in {"loop", "drain"}
  /\ HBeginRecv("HaltLoop", 0)
  /\ hPhase' = IF hPhase = "loop" THEN "halt" ELSE "drain"

\* What HaltLoop discards of the front message's block.
HaltLoopItems ==
  LET m == Head(outMsgQue) IN
  CASE m.ctl = "CALL" -> <<MkItem("call", m.arg)>>
    [] m.ctl = "DATA" -> MkWords(CopyOut(outBlk[hOutBlkIdx], outBlkRdIdx,
                                         m.arg - outBlkRdIdx))

HHaltLoopMsg ==
  /\ HLooks("HaltLoop", "eRecvHostMsg")
  /\ HPop /\ HReturn /\ HRecvd(<<MkItem("user", Head(outMsgQue).arg)>>)
  /\ UNCHANGED <<outBlkDataSize, recvRtnArgc, hLookKeeps>>

\* Mutant of HHaltLoopBlk: the discarded block is not given back.
HHaltLoopBlk_Kept ==
  /\ hPc = "look" /\ hOp = "HaltLoop"
  /\ HRecvType \in {"eRecvHostData", "eRecvReturn"}
  /\ HSeeFront /\ HPop /\ HReturn /\ HRecvd(HaltLoopItems)
  /\ UNCHANGED <<recvRtnArgc, hLookKeeps>>

HHaltLoopBlk ==
  /\ hPc = "look" /\ hOp = "HaltLoop"
  /\ HRecvType \in {"eRecvHostData", "eRecvReturn"}
  /\ HSeeFront /\ HPopBlkThen("idle") /\ HRecvd(HaltLoopItems)
  /\ UNCHANGED <<hOp, hN, recvRtnArgc, hLookKeeps>>

\* The default of HaltLoop's switch is assert(0).
HHaltLoopAssert ==
  /\ HLooks("HaltLoop", "eRecvHostDataMarker")
  /\ hPc' = "assert"
  /\ UNCHANGED <<hThen, hOp, hN, outMsgQue, outBlkDataSize, recvRtnArgc,
                 outRcvd, hLookKeeps>>

\* m_bCoprocBusy is false: m_bHaltSent, the timer stops, the units are freed.
HClose ==
  /\ hPhase = "drain" /\ hPc = "idle"
  /\ hPhase' = "closed"
  /\ UNCHANGED <<hPcVars, hSendVars, hRecvVars, shared>>

----------------------------------------------------------------------------
\* The steps inside library calls, and those that begin one.

HostSendStep ==
  \/ HSendHostMsg \/ HFlushHostData
  \/ HSendCtlFirst \/ HSendCtlNoCredit \/ HSendCtlRetry
  \/ HSendDataLock \/ HSendDataChunk \/ HSendDataNoCredit \/ HSendDataRetry
  \/ HWrite

HostRecvStep ==
  \/ HQueCredit \/ HQueClear \/ HQueMsg \/ HQueDone
  \/ HRecvNothing \/ HRecvHostMsg \/ HRecvHostDataMarker
  \/ HRecvReturn \/ HRecvReturnArgs
  \/ HRecvHostData \/ HCopyData \/ HNextOutBlk
  \/ HRecvHalt \/ HHaltLoopMsg \/ HHaltLoopBlk \/ HHaltLoopAssert

HostCall ==
  \/ HCallSend \/ HCallRecv \/ HCallRecvMarker \/ HCallRecvData
  \/ HDelete

HostTimerStep == HTimerFlush \/ HTimerWrite

\* The loops of ~CHtHifLib go on while the coprocessor is busy.
HostDeleteStep(busy) ==
  \/ HCallSendHostHalt
  \/ HCallHaltLoop /\ (hPhase = "loop" \/ busy)
  \/ HClose /\ ~busy

----------------------------------------------------------------------------
\* Where the lock holder is, what it still has to write and where it goes
\* then; a credit that has been counted is still at the front of its queue.
HostControl ==
  /\ inLock = "app" <=> hPc \in {"write", "data"}
  /\ inLock = "free" => inPend = <<>>
  /\ inLock = "timer" => Len(inPend) = 1
  /\ hPc = "data" => inPend = <<>>
  /\ hPc = "write" => inPend # <<>> /\ hThen \in {"idle", "data", "que", "args"}
  /\ hPc = "next" => hThen \in {"idle", "que", "args"}
  /\ hPc \in {"que", "clear"} => hThen \in {"relock", "look"}
  /\ hPc = "clear" => ctlOut # <<>> /\ Head(ctlOut).cmd = "AVL"
=============================================================================
