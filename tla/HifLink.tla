------------------------------- MODULE HifLink -------------------------------
(***************************************************************************)
(* One unit of the host interface: its host side, its coprocessor side and *)
(* the two control queues and sets of blocks between them.  A step is a    *)
(* step of one of four threads: the two application threads and the two    *)
(* timer threads.                                                          *)
(***************************************************************************)
EXTENDS HtHifUnit, HtModelUnit, FiniteSets

vars == <<shared, hostVars, modelVars>>

Init == SharedInit /\ HostInit /\ ModelInit

\* m_bCoprocBusy: HtCoprocModel has not returned.
CoprocBusy == mPhase # "done"

HostLib     == (HostSendStep \/ HostRecvStep) /\ UNCHANGED modelVars
HostApp     == HostCall /\ UNCHANGED modelVars
HostDelete  == HostDeleteStep(CoprocBusy) /\ UNCHANGED modelVars
HostTick    == HostTimerStep /\ UNCHANGED modelVars
ModelLib    == (ModelSendStep \/ ModelRecvStep) /\ UNCHANGED hostVars
ModelApp    == ModelCall /\ UNCHANGED hostVars
ModelTick   == ModelTimerStep /\ UNCHANGED hostVars

\* Nothing is left to do once the host has deleted the library, or an assert
\* has ended it.
Closed == (hPhase = "closed" \/ hPc = "assert") /\ UNCHANGED vars

Next == \/ HostLib \/ HostApp \/ HostDelete \/ HostTick
        \/ ModelLib \/ ModelApp \/ ModelTick
        \/ Closed

Spec == Init /\ [][Next]_vars

(***************************************************************************)
(* Fairness.  A thread inside the library keeps running, a timer thread    *)
(* too, and so do the loops of ~CHtHifLib.  Both applications poll: each   *)
(* makes every receive call it uses again and again.  Nothing obliges an   *)
(* application to send or to delete.                                       *)
(***************************************************************************)
HostPolls(op) ==
  /\ HCallRecv \/ HCallRecvMarker \/ HCallRecvData
  /\ hOp' = op /\ UNCHANGED modelVars
ModelPolls(op) ==
  /\ MCallRecv \/ MCallRecvMarker \/ MCallRecvData
  /\ mOp' = op /\ UNCHANGED hostVars

HostRecvs  == HostOps \cap (RecvOps \cup {"RecvReturn"})
ModelRecvs == ModelOps \cap (RecvOps \cup {"RecvCall"})

Fairness ==
  /\ WF_vars(HostLib) /\ WF_vars(HostTick) /\ WF_vars(HostDelete)
  /\ WF_vars(ModelLib) /\ WF_vars(ModelTick)
  /\ \A op \in HostRecvs : SF_vars(HostPolls(op))
  /\ \A op \in ModelRecvs : SF_vars(ModelPolls(op))

FairSpec == Spec /\ Fairness

----------------------------------------------------------------------------
\* Every variable holds a value of its type: indices stay inside their rings
\* and blocks, credit between zero and the number of blocks.
TypeOK == SharedTypeOK /\ HostTypeOK /\ ModelTypeOK

\* Who holds a lock, what it still has to write, and where it goes then: a
\* thread waits for a slot only with the lock, and unlocks before it looks at
\* its own control queue (SendMsgInternal, QueOutMsgs, QueInMsgs).
LockDiscipline == HostControl /\ ModelControl

\* How many messages of kind cmd the sequence s holds.
Count(cmd, s) == Cardinality({i \in DOMAIN s : s[i].cmd = cmd})

One(b) == IF b THEN 1 ELSE 0

\* Every block is in one place: the sender may fill it, or its RDY is on the
\* way to the receiver, or the receiver is giving it back, or its AVL is on
\* the way to the sender.  A credit that has been counted but whose slot is
\* not cleared yet is in two.
InCredit ==
  inBlkAvailCnt
  + Count("RDY", inPend) + Count("RDY", ctlIn) + Count("RDY", inMsgQue)
  + One(mPc = "next")
  + Count("AVL", outPend) + Count("AVL", ctlOut) - One(hPc = "clear")
OutCredit ==
  outBlkAvailCnt
  + Count("RDY", outPend) + Count("RDY", ctlOut) + Count("RDY", outMsgQue)
  + One(hPc = "next")
  + Count("AVL", inPend) + Count("AVL", ctlIn) - One(mPc = "clear")

\* No block of either direction is lost or in use twice, whatever the
\* application threads and the timers do in between
\* (m_inBlkAvailCnt, NextInBlk, NextOutBlk, QueOutMsgs and their mirrors).
CreditConserved == InCredit = InBlkCnt /\ OutCredit = OutBlkCnt

\* The asserts of the flush path: FlushInBlk and FlushOutBlk, called with a
\* partly filled block by an application or a timer, always find credit for
\* it (assert(m_inBlkAvailCnt > 0) in NextInBlk, and its mirror).
FlushHasCredit ==
  /\ inBlkWrIdx > 0 => inBlkAvailCnt > 0
  /\ outBlkWrIdx > 0 => outBlkAvailCnt > 0

\* The asserts of the receive path.  The message after a call or return with
\* arguments is the block with just those arguments; MsgLoop meets no message
\* it does not know, and no marker or halt with a size; a block being read is
\* the one at the front, and the read index is inside it.
ReceiveAsserts ==
  /\ hPc = "args" =>
       HFrontIsData /\ Head(outMsgQue).arg = recvRtnArgc
  /\ mPc = "args" =>
       MFrontIsData /\ Head(inMsgQue).arg = mN
  /\ HRecvType # "assert" /\ MRecvType # "assert"
  /\ \A m \in {Head(q) : q \in {outMsgQue, inMsgQue} \ {<<>>}} :
       m.cmd = "RDY" /\ m.ctl \in {"NULL", "HALT"} => m.arg = 0
  /\ outBlkDataSize > 0 /\ hPhase = "run" =>
       HFrontIsData /\ Head(outMsgQue).arg = outBlkRdIdx + outBlkDataSize
  /\ inBlkDataSize > 0 =>
       MFrontIsData /\ Head(inMsgQue).arg = inBlkRdIdx + inBlkDataSize

\* HaltLoop meets nothing its switch does not handle (its default is
\* assert(0)).
HaltLoopHandles == hPc # "assert"

\* The programmers guide says SendHostMsg returns true if the message was
\* sent and false if the control queue is full: in either case it returns.
SendHostMsgReturns ==
  /\ hOp = "SendHostMsg" ~> hOp # "SendHostMsg"
  /\ mOp = "SendHostMsg" ~> mOp # "SendHostMsg"

\* With no user messages, a control queue that has a slot for every block of
\* both directions never fills: who holds m_inLock or m_outLock finds a free
\* slot, so neither side ever waits for the other with its lock held.
SlotWhenNeeded ==
  /\ inPend # <<>> => Len(ctlIn) < CtlQueSize
  /\ outPend # <<>> => Len(ctlOut) < CtlQueSize
=============================================================================
