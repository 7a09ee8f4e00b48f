------------------------------ MODULE HifCommon ------------------------------
(***************************************************************************)
(* What the host side (CHtUnitLib, HtHifLib.cpp) and the coprocessor side  *)
(* (CHtModelUnitLib, HtModelLib.cpp) of one unit share: the control        *)
(* messages, the two control queues, the two sets of data blocks in host   *)
(* memory, and a log of what the applications put in and took out.         *)
(*                                                                         *)
(* "in" is the direction host -> coprocessor, "out" the other one, as in   *)
(* the source.  A control queue is a ring of 64-bit slots whose valid bit  *)
(* is set by the writer and cleared by the reader; here it is the sequence *)
(* of its valid slots, bounded by CtlQueSize.                              *)
(***************************************************************************)
EXTENDS Integers, Sequences

CONSTANTS
  CtlQueSize,   \* slots of a control queue (1 << m_ctlQueW)
  InBlkCnt,     \* blocks host -> coprocessor (1 << m_iBlkCntW)
  OutBlkCnt,    \* blocks coprocessor -> host (1 << m_oBlkCntW)
  InBlkSize,    \* quadwords in a host -> coprocessor block
  OutBlkSize,   \* quadwords in a coprocessor -> host block
  MaxQw,        \* bound: quadwords of one SendHostData or RecvHostData
  MaxArgc,      \* bound: argument quadwords of one call or return
  MaxIn,        \* bound: items the host application sends in a run
  MaxOut,       \* bound: items the coprocessor application sends in a run
  HostOps,      \* library calls the host application makes
  ModelOps      \* library calls the coprocessor application makes

\* The calls of the two libraries, by the source's names.
SendOps ==
  {"SendHostMsg", "SendHostData", "SendHostDataMarker", "FlushHostData"}
RecvOps ==
  {"RecvHostMsg", "RecvHostData", "RecvHostDataMarker", "RecvPoll"}

\* The range checks of CHtHifLib's constructor give powers of two: at least
\* 512 slots, 16 to 64 blocks and 8192 quadwords a block; only what the
\* protocol needs of them is assumed.  A call's arguments fit in a block
\* with room to spare.
ASSUME ParamAssumption ==
  /\ CtlQueSize \in Nat /\ CtlQueSize > OutBlkCnt
  /\ InBlkCnt \in Nat /\ InBlkCnt > 1
  /\ OutBlkCnt \in Nat /\ OutBlkCnt > 1
  /\ InBlkSize \in Nat /\ InBlkSize > 1
  /\ OutBlkSize \in Nat /\ OutBlkSize > 1
  /\ MaxQw \in Nat
  /\ MaxArgc \in Nat /\ MaxArgc < InBlkSize /\ MaxArgc < OutBlkSize
  /\ MaxIn \in Nat /\ MaxOut \in Nat
  /\ HostOps \subseteq SendOps \cup RecvOps \cup {"SendCall", "RecvReturn", "delete"}
  /\ ModelOps \subseteq SendOps \cup RecvOps \cup {"SendReturn", "RecvCall"}

(***************************************************************************)
(* Control messages.  PARAM stands for the block address and parameter     *)
(* messages of the constructor, which the model consumes one after the     *)
(* other in one call of MsgLoop.  RDY hands a block over; its low three    *)
(* bits (ctl) say what the block is, the bits above it (arg) how many      *)
(* quadwords.  AVL gives a block back.  USER is an application message.    *)
(***************************************************************************)
Ctl == {"DATA", "NULL", "CALL", "HALT"}
CtrlMsg == [cmd : {"PARAM", "AVL", "RDY", "USER"}, ctl : Ctl, arg : Nat]

ParamMsg   == [cmd |-> "PARAM", ctl |-> "DATA", arg |-> 0]
AvlMsg     == [cmd |-> "AVL", ctl |-> "DATA", arg |-> 0]
Rdy(c, n)  == [cmd |-> "RDY", ctl |-> c, arg |-> n]
UserMsg(v) == [cmd |-> "USER", ctl |-> "DATA", arg |-> v]

\* An item of an application's stream: a quadword of data, a user message, a
\* data marker, a call or return (followed by its arguments), or the halt.
Item == [kind : {"word", "user", "mark", "call", "halt"}, val : Nat]
MkItem(k, v) == [kind |-> k, val |-> v]
MkWords(ws)  == [i \in 1..Len(ws) |-> MkItem("word", ws[i])]

\* The n quadwords numbered from k + 1: every quadword an application sends
\* is the number of its place in the stream, so no two are equal.
Fresh(k, n) == [i \in 1..n |-> k + i]

Lesser(a, b) == IF a <= b THEN a ELSE b

\* memcpy of the words ws into a block from offset off.
CopyIn(blk, off, ws) ==
  [i \in DOMAIN blk |-> IF i - off \in 1..Len(ws) THEN ws[i - off] ELSE blk[i]]

\* memcpy of n words out of a block from offset off.
CopyOut(blk, off, n) == [i \in 1..n |-> blk[off + i]]

VARIABLES
  ctlIn,        \* control queue host -> coprocessor (m_pCtlInQue)
  ctlOut,       \* control queue coprocessor -> host (m_pCtlOutQue)
  inBlk,        \* the host -> coprocessor data blocks
  outBlk,       \* the coprocessor -> host data blocks
  inSent,       \* log: items the host application has sent
  inRcvd,       \* log: items the coprocessor has received
  outSent,      \* log: items the coprocessor application has sent
  outRcvd       \* log: items the host has received

shared == <<ctlIn, ctlOut, inBlk, outBlk, inSent, inRcvd, outSent, outRcvd>>
inLog  == <<inSent, inRcvd>>
outLog == <<outSent, outRcvd>>

InWords  == [1..InBlkSize -> Nat]
OutWords == [1..OutBlkSize -> Nat]

\* What has been received is a prefix of what has been sent, which is for the
\* properties of HifOrder to say.
SharedTypeOK ==
  /\ ctlIn \in Seq(CtrlMsg) /\ ctlOut \in Seq(CtrlMsg)
  /\ inBlk \in [0..InBlkCnt-1 -> InWords]
  /\ outBlk \in [0..OutBlkCnt-1 -> OutWords]
  /\ inSent \in Seq(Item) /\ outSent \in Seq(Item)

\* The queues as the host's constructor leaves them (CHtUnitLib::CHtUnitLib):
\* the parameters, and the credit for every out block.
SharedInit ==
  /\ ctlIn = <<ParamMsg>> \o [i \in 1..OutBlkCnt |-> AvlMsg]
  /\ ctlOut = <<>>
  /\ inBlk = [b \in 0..InBlkCnt-1 |-> [i \in 1..InBlkSize |-> 0]]
  /\ outBlk = [b \in 0..OutBlkCnt-1 |-> [i \in 1..OutBlkSize |-> 0]]
  /\ inSent = <<>> /\ inRcvd = <<>> /\ outSent = <<>> /\ outRcvd = <<>>
=============================================================================
