------------------------------ MODULE HifOrder ------------------------------
(***************************************************************************)
(* The link implements a channel in each direction.  What is on the way is *)
(* spread over the receiver's message queue, the control queue, the        *)
(* messages the lock holder has still to write, the blocks those messages  *)
(* hand over, and the block being filled.                                  *)
(***************************************************************************)
EXTENDS HifLink

LOCAL INSTANCE SequencesExt

\* The items of a message; a data block is read from offset off.
MsgItems(m, blk, off) ==
  CASE m.cmd = "USER" -> <<MkItem("user", m.arg)>>
    [] m.cmd = "RDY" /\ m.ctl = "DATA" -> MkWords(CopyOut(blk, off, m.arg - off))
    [] m.cmd = "RDY" /\ m.ctl = "NULL" -> <<MkItem("mark", 0)>>
    [] m.cmd = "RDY" /\ m.ctl = "CALL" -> <<MkItem("call", m.arg)>>
    [] m.cmd = "RDY" /\ m.ctl = "HALT" -> <<MkItem("halt", 0)>>
    [] OTHER -> <<>>

\* The items of the messages msgs: the blocks they hand over are the blocks
\* of blks in turn, from first on, the first one read from offset off.
QueItems(msgs, blks, first, off) ==
  LET blkOf(i) == blks[(first + Count("RDY", SubSeq(msgs, 1, i - 1)))
                       % Cardinality(DOMAIN blks)]
  IN FlattenSeq([i \in 1..Len(msgs) |->
                   MsgItems(msgs[i], blkOf(i), IF i = 1 THEN off ELSE 0)])

\* A block that has been taken off the queue but not given back yet is no
\* longer on the way, though the read index still points into it.
InTransit ==
  QueItems(inMsgQue \o ctlIn \o inPend, inBlk,
           mInBlkIdx + One(mPc = "next"),
           IF mPc = "next" THEN 0 ELSE inBlkRdIdx)
  \o MkWords(CopyOut(inBlk[hInBlkIdx], 0, inBlkWrIdx))

OutTransit ==
  QueItems(outMsgQue \o ctlOut \o outPend, outBlk,
           hOutBlkIdx + One(hPc = "next"),
           IF hPc = "next" THEN 0 ELSE outBlkRdIdx)
  \o MkWords(CopyOut(outBlk[mOutBlkIdx], 0, outBlkWrIdx))

InChannel  == INSTANCE HifChannel WITH sent <- inSent, rcvd <- inRcvd,
                                       chan <- InTransit
OutChannel == INSTANCE HifChannel WITH sent <- outSent, rcvd <- outRcvd,
                                       chan <- OutTransit

\* Host to coprocessor and back, every step of the link is a send, a receipt
\* or a step the channel does not see: nothing the library does inside -
\* flushing, retrying, queueing, timers - loses, repeats or reorders what
\* the applications sent.
InImplementsChannel  == InChannel!Spec
OutImplementsChannel == OutChannel!Spec

\* What is sent is received, though no application calls FlushHostData: the
\* timer hands over a block that is not full, and the other side polls.  The
\* coprocessor still gets everything when the host deletes the library, but
\* the host gives up on what the coprocessor sent.
InDelivered ==
  \A k \in 1..MaxIn : Len(inSent) >= k ~> Len(inRcvd) >= k
OutDelivered ==
  \A k \in 1..MaxOut : Len(outSent) >= k ~> Len(outRcvd) >= k \/ hPhase # "run"

\* ~CHtHifLib returns: its halt reaches the coprocessor and the coprocessor
\* ends, however much either side still had on the way.
DeleteReturns == hPhase # "run" ~> hPhase = "closed"
=============================================================================
