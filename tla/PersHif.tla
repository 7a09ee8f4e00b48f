------------------------------ MODULE PersHif ------------------------------
(***************************************************************************)
(* CPersHif, the hardware on the coprocessor's side of a unit's link, as   *)
(* HTL prints it for every design (GenHifFiles.cpp).  It does in logic     *)
(* what CHtModelUnitLib does in software: it polls the control queue of    *)
(* the host, fetches the blocks it is told of, writes blocks back, and     *)
(* writes its own control queue - by memory requests that are answered in  *)
(* any order, any number of clocks later.                                  *)
(*                                                                         *)
(* Its state machines run side by side, each a `switch' over its state     *)
(* register; an action is a `case'.  All read the registers of the clock   *)
(* before, and a machine that waits (for the timer of a poll, for its turn *)
(* at the memory port) is one that takes its step later, so every clock is *)
(* a few of these actions in some order.                                   *)
(***************************************************************************)
EXTENDS Integers, Sequences, FiniteSets

CONSTANTS
  CtlQueSize,   \* slots of a control queue
  IBlkCnt,      \* blocks host -> coprocessor
  OBlkCnt,      \* blocks coprocessor -> host
  BlkQw,        \* quadwords of a block
  LineQw,       \* quadwords of a memory line (8)
  B64,          \* a request may be for a whole line (b64B)
  FetchCnt,     \* lines fetched at a time (IBK_FETCH_CNT)
  QueDepth,     \* entries of, and credits for, the queues to and from HTI (32)
  McCnt,        \* memory controllers, which the lines are spread over (8)
  FlshEn,       \* writes are posted: the host asked for flushing
  OBlkTime      \* a block that is not full is sent after a time (r_oBlkTimeArg)

\* The library's constructor makes the sizes powers of two and a block many
\* lines; HTL asserts that a block is at least a line.
ASSUME PersAssumption ==
  /\ {CtlQueSize, IBlkCnt, OBlkCnt, FetchCnt, McCnt, LineQw} \subseteq Nat \ {0, 1}
  /\ CtlQueSize > OBlkCnt
  /\ BlkQw \in Nat \ {0} /\ BlkQw % LineQw = 0
  /\ QueDepth \in 4..63   \* its credit is a register of six bits
  /\ {B64, FlshEn, OBlkTime} \subseteq BOOLEAN

\* A control message, or an item of a queue to or from HTI (HT_DQ_...).
Ctl == {"DATA", "NULL", "CALL", "HALT", "FLSH"}
Msg(c, k, n) == [cmd |-> c, ctl |-> k, arg |-> n]
NoMsg   == Msg("none", "DATA", 0)
AvlMsg  == Msg("avl", "DATA", 0)
RdyMsg(k, n) == Msg("rdy", k, n)
UserMsg == Msg("user", "DATA", 0)
Item(k, n)   == [ctl |-> k, dat |-> n]

Lower(a, b) == IF a <= b THEN a ELSE b

VARIABLES
  ctlIn, ctlOut,    \* the control queues, rings of slots in host memory
  iBlk, oBlk,       \* the data blocks, in host memory
  busy,             \* r_hifToDisp_busy
  \* inbound control messages
  iCtlState, iCtlRdIdx, iCtlWr,      \* iCtlWr: slots being cleared
  ctlAvlCnt, datAvlCnt,              \* credits for HTI's queues
  iCtlQue, iDatQue,                  \* HTI's queues
  \* outbound control messages
  oCtlState, oCtlWrIdx, oCtlWr,      \* oCtlWr: messages being written
  oCtlWrMsg, htiToHif_ctl,
  \* inbound blocks
  iBlkRdyQue, iBlkSendAvl,
  iBlkState, iBlkRdCnt, iBlkRdAdr, iBlkRdIdx, fetch, iBlkFetchIdx,
  iBlkPushIdx, iBlkPushCnt, hifToHti_datHalt,
  \* outbound blocks
  oBlkAvlCnt, oBlkQue, oBlkWrDat,
  oBlkState, oBlkWrCnt, oBlkWrIdx, oBlkRdCnt, oBlkExpired, htiToHif_datHalt,
  oBlkSendRdy, oBlkSendIdx, oBlkSize,
  wrReqs, posted, rdPend,            \* block writes, flush reads under way
  htiAvlCnt                          \* HTI's credit for oBlkQue and oBlkWrDat

icm   == <<iCtlState, iCtlRdIdx, iCtlWr>>
ocm   == <<oCtlState, oCtlWrIdx, oCtlWr>>
ctlTo == <<oCtlWrMsg, htiToHif_ctl>>
htiIn == <<ctlAvlCnt, datAvlCnt, iCtlQue, iDatQue>>
iAvl  == <<iBlkRdyQue, iBlkSendAvl>>
iPush == <<iBlkPushIdx, iBlkPushCnt>>
iRd   == <<iBlkState, iBlkRdCnt, iBlkRdAdr, iBlkRdIdx, iBlkFetchIdx>>
ibk   == <<iRd, fetch, iPush, hifToHti_datHalt>>
oQue  == <<oBlkQue, oBlkWrDat, htiAvlCnt>>
oWr   == <<oBlkWrCnt, oBlkWrIdx, oBlkRdCnt, oBlkExpired>>
oSend == <<oBlkSendRdy, oBlkSendIdx, oBlkSize>>
oMem  == <<wrReqs, posted, rdPend>>
obk   == <<oBlkState, oWr, oQue, oMem, oBlkAvlCnt, htiToHif_datHalt>>
mem   == <<ctlIn, ctlOut, iBlk, oBlk>>
hifVars == <<mem, busy, icm, ocm, ctlTo, htiIn, iAvl, ibk, obk, oSend>>

NoFetch == [pend |-> {}, val |-> 0, dat |-> [q \in 0..LineQw-1 |-> 0]]

\* The registers after a reset, and the queues to HTI.
HifReset ==
  /\ iCtlState = "READ" /\ iCtlRdIdx = 0 /\ iCtlWr = {}
  /\ ctlAvlCnt = QueDepth /\ datAvlCnt = QueDepth
  /\ oCtlState = "READ" /\ oCtlWrIdx = 0 /\ oCtlWr = {}
  /\ oCtlWrMsg = NoMsg /\ htiToHif_ctl = NoMsg
  /\ iBlkRdyQue = <<>> /\ iBlkSendAvl = FALSE
  /\ iBlkState = "IDLE" /\ iBlkRdCnt = 0 /\ iBlkRdAdr = <<0, 0>>
  /\ iBlkRdIdx = 0 /\ fetch = [i \in 0..FetchCnt-1 |-> NoFetch]
  /\ iBlkFetchIdx = 0 /\ iBlkPushIdx = 0 /\ iBlkPushCnt = 0
  /\ hifToHti_datHalt = FALSE
  /\ oBlkAvlCnt = 0 /\ oBlkQue = <<>> /\ oBlkWrDat = <<>>
  /\ oBlkState = "IDLE" /\ oBlkWrCnt = 0 /\ oBlkWrIdx = 0 /\ oBlkRdCnt = 0
  /\ oBlkExpired = FALSE /\ htiToHif_datHalt = FALSE
  /\ oBlkSendRdy = FALSE /\ oBlkSendIdx = 0 /\ oBlkSize = RdyMsg("DATA", 0)
  /\ wrReqs = {} /\ rdPend = [t \in 0..1 |-> {}]

\* Host memory as the library's constructor leaves it, the parameters read.
HifInit ==
  /\ ctlIn = [s \in 0..CtlQueSize-1 |-> IF s < OBlkCnt THEN AvlMsg ELSE NoMsg]
  /\ ctlOut = [s \in 0..CtlQueSize-1 |-> NoMsg]
  /\ iBlk = [b \in 0..IBlkCnt-1 |-> [q \in 0..BlkQw-1 |-> 0]]
  /\ oBlk = [b \in 0..OBlkCnt-1 |-> [q \in 0..BlkQw-1 |-> 0]]
  /\ busy = TRUE /\ iCtlQue = <<>> /\ iDatQue = <<>>
  /\ htiAvlCnt = QueDepth /\ posted = {}
  /\ HifReset

----------------------------------------------------------------------------
\* Inbound control messages: the ICM state machine.  Two halts and all the
\* out blocks back: nothing more will come.
IcmRead ==
  /\ busy /\ iCtlState = "READ"
  /\ ~(hifToHti_datHalt /\ oBlkAvlCnt = OBlkCnt)
  /\ ctlAvlCnt # 0
  /\ iCtlState' = "RD_WAIT"
  /\ UNCHANGED <<mem, busy, iCtlRdIdx, iCtlWr, ocm, ctlTo, htiIn, iAvl, ibk, obk, oSend>>

\* The read is answered: an empty slot is read again, a message taken.
IcmEmpty ==
  /\ iCtlState = "RD_WAIT" /\ ctlIn[iCtlRdIdx] = NoMsg
  /\ iCtlState' = "READ"
  /\ UNCHANGED <<mem, busy, iCtlRdIdx, iCtlWr, ocm, ctlTo, htiIn, iAvl, ibk, obk, oSend>>

IcmTake(cmd) ==
  /\ iCtlState = "RD_WAIT" /\ ctlIn[iCtlRdIdx].cmd = cmd
  /\ iCtlState' = "WRITE"
  /\ UNCHANGED <<mem, busy, iCtlRdIdx, iCtlWr, ocm, ctlTo, datAvlCnt, iDatQue,
                 iBlkSendAvl, ibk, oBlkState, oWr, oQue, oMem, htiToHif_datHalt, oSend>>

IcmUser ==
  /\ IcmTake("user")
  /\ iCtlQue' = Append(iCtlQue, ctlIn[iCtlRdIdx])
  /\ ctlAvlCnt' = ctlAvlCnt - 1
  /\ UNCHANGED <<iBlkRdyQue, oBlkAvlCnt>>
IcmRdy ==
  /\ IcmTake("rdy")
  /\ iBlkRdyQue' = Append(iBlkRdyQue, ctlIn[iCtlRdIdx])
  /\ UNCHANGED <<ctlAvlCnt, iCtlQue, oBlkAvlCnt>>
IcmAvl ==
  /\ IcmTake("avl")
  /\ oBlkAvlCnt' = oBlkAvlCnt + 1
  /\ UNCHANGED <<ctlAvlCnt, iCtlQue, iBlkRdyQue>>

\* Mutant of IcmWrite: does not wait for the clear before.
IcmWrite_NoWait ==
  /\ iCtlState = "WRITE"
  /\ iCtlWr' = iCtlWr \cup {iCtlRdIdx}
  /\ iCtlRdIdx' = (iCtlRdIdx + 1) % CtlQueSize
  /\ iCtlState' = "READ"
  /\ UNCHANGED <<mem, busy, ocm, ctlTo, htiIn, iAvl, ibk, obk, oSend>>

\* The slot is cleared; the next one is read without waiting for that.
IcmWrite ==
  /\ iCtlState = "WRITE" /\ iCtlWr = {}
  /\ iCtlWr' = {iCtlRdIdx}
  /\ iCtlRdIdx' = (iCtlRdIdx + 1) % CtlQueSize
  /\ iCtlState' = "READ"
  /\ UNCHANGED <<mem, busy, ocm, ctlTo, htiIn, iAvl, ibk, obk, oSend>>

\* The memory clears the slot and says so.
IcmWrRsp ==
  \E s \in iCtlWr :
    /\ ctlIn' = [ctlIn EXCEPT ![s] = NoMsg]
    /\ iCtlWr' = iCtlWr \ {s}
    /\ UNCHANGED <<ctlOut, iBlk, oBlk, busy, iCtlState, iCtlRdIdx, ocm, ctlTo,
                   htiIn, iAvl, ibk, obk, oSend>>

----------------------------------------------------------------------------
\* Outbound control messages: one at a time is chosen, in this order - a
\* block all of whose writes are done, a block given back, a message of HTI.

\* The writes and the flush reads of the blocks with the lowest index bit t
\* (r_oBlkWrPendCnt, r_oBlkRdPendCnt).
WrPend(t) == {r \in wrReqs : r.tid = t}

\* Mutant of BlkWritten: one write may be outstanding.
BlkWritten_Early(t) == Cardinality(WrPend(t)) <= 1 /\ (rdPend[t] = {} \/ ~FlshEn)
\* Mutant of BlkWritten: the count of the other tid is looked at.
BlkWritten_Other(t) == WrPend(1 - t) = {} /\ (rdPend[t] = {} \/ ~FlshEn)
BlkWritten(t) == WrPend(t) = {} /\ (rdPend[t] = {} \/ ~FlshEn)
CanSendBlk == oBlkSendRdy /\ BlkWritten(oBlkSendIdx)

SelectBlk ==
  /\ CanSendBlk
  /\ oCtlWrMsg' = oBlkSize /\ oBlkSendRdy' = FALSE
  /\ UNCHANGED <<iBlkSendAvl, htiToHif_ctl>>
SelectAvl ==
  /\ ~CanSendBlk /\ iBlkSendAvl
  /\ oCtlWrMsg' = AvlMsg /\ iBlkSendAvl' = FALSE
  /\ UNCHANGED <<oBlkSendRdy, htiToHif_ctl>>
SelectCtl ==
  /\ ~CanSendBlk /\ ~iBlkSendAvl /\ htiToHif_ctl # NoMsg
  /\ oCtlWrMsg' = htiToHif_ctl /\ htiToHif_ctl' = NoMsg
  /\ UNCHANGED <<oBlkSendRdy, iBlkSendAvl>>
Select == SelectBlk \/ SelectAvl \/ SelectCtl
NothingToSelect == ~CanSendBlk /\ ~iBlkSendAvl /\ htiToHif_ctl = NoMsg

OcmSelect ==
  /\ oCtlWrMsg = NoMsg /\ Select
  /\ UNCHANGED <<mem, busy, icm, ocm, htiIn, iBlkRdyQue, ibk, obk, oBlkSendIdx, oBlkSize>>

\* The OCM state machine looks for an open slot before it has a message.
OcmRead ==
  /\ busy /\ oCtlState = "READ" /\ (htiToHif_datHalt => oCtlWrMsg # NoMsg)
  /\ oCtlState' = "RD_WAIT"
  /\ UNCHANGED <<mem, busy, icm, oCtlWrIdx, oCtlWr, ctlTo, htiIn, iAvl, ibk, obk, oSend>>

\* Mutant of OcmRdWait: the slot is taken for open.
OcmRdWait_Blind ==
  /\ oCtlState = "RD_WAIT"
  /\ oCtlState' = "WRITE"
  /\ UNCHANGED <<mem, busy, icm, oCtlWrIdx, oCtlWr, ctlTo, htiIn, iAvl, ibk, obk, oSend>>

OcmRdWait ==
  /\ oCtlState = "RD_WAIT"
  /\ oCtlState' = IF ctlOut[oCtlWrIdx] = NoMsg THEN "WRITE" ELSE "READ"
  /\ UNCHANGED <<mem, busy, icm, oCtlWrIdx, oCtlWr, ctlTo, htiIn, iAvl, ibk, obk, oSend>>

\* In the clock that sends a message the next one is chosen.
OcmWrite ==
  /\ oCtlState = "WRITE" /\ oCtlWr = {} /\ oCtlWrMsg # NoMsg
  /\ oCtlWr' = {[slot |-> oCtlWrIdx, msg |-> oCtlWrMsg]}
  /\ oCtlWrIdx' = (oCtlWrIdx + 1) % CtlQueSize
  /\ oCtlState' = "READ"
  /\ \/ Select
     \/ /\ NothingToSelect /\ oCtlWrMsg' = NoMsg
        /\ UNCHANGED <<oBlkSendRdy, iBlkSendAvl, htiToHif_ctl>>
  /\ UNCHANGED <<mem, busy, icm, htiIn, iBlkRdyQue, ibk, obk, oBlkSendIdx, oBlkSize>>

OcmWrRsp ==
  \E w \in oCtlWr :
    /\ ctlOut' = [ctlOut EXCEPT ![w.slot] = w.msg]
    /\ oCtlWr' = oCtlWr \ {w}
    /\ UNCHANGED <<ctlIn, iBlk, oBlk, busy, icm, oCtlState, oCtlWrIdx, ctlTo,
                   htiIn, iAvl, ibk, obk, oSend>>

----------------------------------------------------------------------------
\* Inbound blocks: the IBK state machine.

\* Mutant of IDatPush: no credit is taken.
IDatPush_NoDebit(item) ==
  /\ iDatQue' = Append(iDatQue, item)
  /\ UNCHANGED <<datAvlCnt, ctlAvlCnt, iCtlQue>>

\* An item for HTI; the credit is a 6-bit register.
IDatPush(item) ==
  /\ iDatQue' = Append(iDatQue, item)
  /\ datAvlCnt' = (datAvlCnt - 1) % 64
  /\ UNCHANGED <<ctlAvlCnt, iCtlQue>>

\* Mutant of IbkTake: the block before may still be on its way back.
IbkTake_Pending ==
  /\ busy /\ iBlkState = "IDLE" /\ iBlkRdyQue # <<>>
  /\ iBlkRdyQue' = Tail(iBlkRdyQue)
  /\ iBlkRdIdx' = (iBlkRdIdx + 1) % IBlkCnt
  /\ UNCHANGED <<mem, busy, icm, ocm, ctlTo, fetch, iPush, iBlkFetchIdx, obk, oSend>>

\* The next block: an empty one is given to HTI and back to the host at once,
\* whether HTI has room for it or not.
IbkTake ==
  /\ busy /\ iBlkState = "IDLE" /\ iBlkRdyQue # <<>> /\ ~iBlkSendAvl
  /\ iBlkRdyQue' = Tail(iBlkRdyQue)
  /\ iBlkRdIdx' = (iBlkRdIdx + 1) % IBlkCnt
  /\ UNCHANGED <<mem, busy, icm, ocm, ctlTo, fetch, iPush, iBlkFetchIdx, obk, oSend>>
IbkSpecial ==
  /\ IbkTake
  /\ LET m == Head(iBlkRdyQue) IN
     /\ m.ctl # "DATA"
     /\ IDatPush(Item(m.ctl, m.arg))
     /\ hifToHti_datHalt' = (hifToHti_datHalt \/ m.ctl = "HALT")
  /\ iBlkSendAvl' = TRUE
  /\ UNCHANGED <<iBlkState, iBlkRdCnt, iBlkRdAdr>>
IbkData ==
  /\ IbkTake
  /\ Head(iBlkRdyQue).ctl = "DATA"
  /\ iBlkState' = "READ" /\ iBlkRdCnt' = Head(iBlkRdyQue).arg
  /\ iBlkRdAdr' = <<iBlkRdIdx, 0>>
  /\ UNCHANGED <<iBlkSendAvl, htiIn, hifToHti_datHalt>>

\* A request is issued when the buffer of the next line has been emptied.
CanFetch ==
  /\ iBlkState = "READ" /\ iBlkRdCnt # 0 /\ fetch[iBlkFetchIdx].val = 0

Fetch(qws, val, n) ==
  LET b == iBlkRdAdr[1]  q == iBlkRdAdr[2] IN
  /\ fetch' = [fetch EXCEPT ![iBlkFetchIdx].pend = @ \cup {<<b, q + i>> : i \in 0..qws-1},
                            ![iBlkFetchIdx].val = val]
  /\ iBlkRdAdr' = <<b, q + qws>>
  /\ iBlkRdCnt' = iBlkRdCnt - n
  /\ iBlkFetchIdx' = IF val = 0 THEN iBlkFetchIdx ELSE (iBlkFetchIdx + 1) % FetchCnt
  /\ UNCHANGED <<mem, busy, icm, ocm, ctlTo, htiIn, iAvl, iBlkState, iBlkRdIdx, iPush,
                 hifToHti_datHalt, obk, oSend>>

\* Mutant of IbkFetch64: every line is taken for a full one.
IbkFetch64_Full ==
  /\ B64 /\ CanFetch
  /\ LET n == Lower(iBlkRdCnt, LineQw) IN Fetch(LineQw, LineQw, n)
\* A whole line, of which the last may be needed in part.
IbkFetch64 ==
  /\ B64 /\ CanFetch
  /\ LET n == Lower(iBlkRdCnt, LineQw) IN Fetch(LineQw, n, n)
\* One quadword; the buffer is complete with the last one of a line, or of all.
IbkFetch8 ==
  /\ ~B64 /\ CanFetch
  /\ LET q == iBlkRdAdr[2] % LineQw IN
     Fetch(1, IF iBlkRdCnt = 1 \/ q = LineQw - 1 THEN q + 1 ELSE 0, 1)

IbkRead ==
  /\ iBlkState = "READ" /\ iBlkRdCnt = 0
  /\ iBlkState' = "WAIT"
  /\ UNCHANGED <<mem, busy, icm, ocm, ctlTo, htiIn, iAvl, iBlkRdCnt, iBlkRdAdr, iBlkRdIdx,
                 iBlkFetchIdx, fetch, iPush, hifToHti_datHalt, obk, oSend>>

\* Mutant of IbkWait: the block goes back once it has been read.
IbkWait_Early ==
  /\ iBlkState = "WAIT"
  /\ iBlkState' = "IDLE" /\ iBlkSendAvl' = TRUE
  /\ UNCHANGED <<mem, busy, icm, ocm, ctlTo, htiIn, iBlkRdyQue, iBlkRdCnt, iBlkRdAdr,
                 iBlkRdIdx, iBlkFetchIdx, fetch, iPush, hifToHti_datHalt, obk, oSend>>

\* Every word of the block is with HTI: it goes back to the host.
IbkWait ==
  /\ iBlkState = "WAIT"
  /\ \A i \in DOMAIN fetch : fetch[i].pend = {} /\ fetch[i].val = 0
  /\ iBlkState' = "IDLE" /\ iBlkSendAvl' = TRUE
  /\ UNCHANGED <<mem, busy, icm, ocm, ctlTo, htiIn, iBlkRdyQue, iBlkRdCnt, iBlkRdAdr,
                 iBlkRdIdx, iBlkFetchIdx, fetch, iPush, hifToHti_datHalt, obk, oSend>>

\* Read responses carry the buffer and the place in it; they come in any order.
IbkRdRsp ==
  \E i \in DOMAIN fetch : \E a \in fetch[i].pend :
    /\ fetch' = [fetch EXCEPT ![i].pend = @ \ {a},
                              ![i].dat[a[2] % LineQw] = iBlk[a[1]][a[2]]]
    /\ UNCHANGED <<mem, busy, icm, ocm, ctlTo, htiIn, iAvl, iRd, iPush, hifToHti_datHalt,
                   obk, oSend>>

\* Every word of the line is there (r_iBlkPushing says so a clock later).
PushReady == fetch[iBlkPushIdx].pend = {} /\ fetch[iBlkPushIdx].val # 0

\* The words of the lines go to HTI in order, while there are three credits
\* (c_iBlkQueFull).  A word is not read twice: the model forgets it.
IbkPush ==
  /\ PushReady /\ datAvlCnt >= 3
  /\ LET f == fetch[iBlkPushIdx]
         last == iBlkPushCnt + 1 = f.val IN
     /\ IDatPush(Item("DATA", f.dat[iBlkPushCnt]))
     /\ fetch' = [fetch EXCEPT ![iBlkPushIdx] =
          IF last THEN NoFetch ELSE [f EXCEPT !.dat[iBlkPushCnt] = 0]]
     /\ iBlkPushCnt' = IF last THEN 0 ELSE iBlkPushCnt + 1
     /\ iBlkPushIdx' = IF last THEN (iBlkPushIdx + 1) % FetchCnt ELSE iBlkPushIdx
  /\ UNCHANGED <<mem, busy, icm, ocm, ctlTo, iAvl, iRd, hifToHti_datHalt, obk, oSend>>

----------------------------------------------------------------------------
\* Outbound blocks: the OBK state machine.  Words go from oBlkQue through
\* oBlkWrDat, which gathers a line of them, to the block; an item that is not
\* a word closes the block.  The block's index has tid as its lowest bit.
Tid == oBlkWrIdx % 2

\* What a step of the machine leaves alone but for the part it changes.
ObkRest == <<mem, busy, icm, ocm, ctlTo, ctlAvlCnt, datAvlCnt, iCtlQue, iDatQue, iAvl, ibk>>

\* Mutant of ObkIdleFlsh: the credit is not given back.
ObkIdleFlsh_NoCredit ==
  /\ oBlkState = "IDLE" /\ oBlkWrDat = <<>>
  /\ oBlkQue # <<>> /\ Head(oBlkQue).ctl = "FLSH"
  /\ oBlkQue' = Tail(oBlkQue)
  /\ UNCHANGED <<ObkRest, htiAvlCnt, oBlkState, oWr, oBlkWrDat, oMem, oBlkAvlCnt, htiToHif_datHalt, oSend>>

\* A flush with nothing to be flushed.
ObkIdleFlsh ==
  /\ oBlkState = "IDLE" /\ oBlkWrDat = <<>>
  /\ oBlkQue # <<>> /\ Head(oBlkQue).ctl = "FLSH"
  /\ oBlkQue' = Tail(oBlkQue) /\ htiAvlCnt' = htiAvlCnt + 1
  /\ UNCHANGED <<ObkRest, oBlkState, oWr, oBlkWrDat, oMem, oBlkAvlCnt, htiToHif_datHalt, oSend>>

\* A block is begun: the host has one to spare, and the block with the same
\* tid, two before, is done with.
ObkIdle ==
  /\ oBlkState = "IDLE" /\ oBlkAvlCnt # 0 /\ BlkWritten(Tid)
  /\ oBlkWrDat # <<>> \/ (oBlkQue # <<>> /\ Head(oBlkQue).ctl # "FLSH")
  /\ oBlkState' = IF oBlkWrDat # <<>> \/ Head(oBlkQue).ctl = "DATA" THEN "POP" ELSE "SEND"
  /\ oBlkAvlCnt' = oBlkAvlCnt - 1 /\ oBlkRdCnt' = McCnt /\ oBlkExpired' = FALSE
  /\ UNCHANGED <<ObkRest, oBlkWrCnt, oBlkWrIdx, oQue, oMem, htiToHif_datHalt, oSend>>

\* The time is up for a block that is not full (it is set in IDLE and SEND).
ObkTimer ==
  /\ OBlkTime /\ oBlkState \notin {"IDLE", "SEND"} /\ ~oBlkExpired
  /\ oBlkExpired' = TRUE
  /\ UNCHANGED <<ObkRest, oBlkState, oBlkWrCnt, oBlkWrIdx, oBlkRdCnt, oQue, oMem, oBlkAvlCnt,
                 htiToHif_datHalt, oSend>>

\* The block is closed, by the timer or by what follows the words.
TimeUp == oBlkExpired /\ (oBlkWrCnt # 0 \/ oBlkWrDat # <<>>)
ObkClose ==
  /\ oBlkState = "POP"
  /\ TimeUp \/ (oBlkQue # <<>> /\ Head(oBlkQue).ctl # "DATA")
  /\ oBlkState' = IF oBlkWrDat = <<>> THEN "FLSH" ELSE "WR8"
  /\ UNCHANGED <<ObkRest, oWr, oQue, oMem, oBlkAvlCnt, htiToHif_datHalt, oSend>>

\* The next LineQw words are a line of the block.  (With 240 writes under way
\* the machine takes WR8, and waits there for some to end.)
LineFits == B64 /\ oBlkWrCnt <= BlkQw - LineQw /\ oBlkWrCnt % LineQw = 0

ObkPop ==
  /\ oBlkState = "POP" /\ ~TimeUp
  /\ oBlkQue # <<>> /\ Head(oBlkQue).ctl = "DATA"
  /\ oBlkWrDat' = Append(oBlkWrDat, Head(oBlkQue).dat)
  /\ oBlkQue' = Tail(oBlkQue)
  /\ oBlkState' = IF Len(oBlkWrDat) # LineQw - 1 THEN "POP"
                  ELSE IF LineFits THEN "WR64" ELSE "WR8"
  /\ UNCHANGED <<ObkRest, oWr, htiAvlCnt, oMem, oBlkAvlCnt, htiToHif_datHalt, oSend>>

\* Mutant of ObkWrite: one count for the writes of all blocks.
ObkWrite_OneCount(n) ==
  /\ wrReqs' = wrReqs \cup {[tid |-> 0, blk |-> oBlkWrIdx, off |-> oBlkWrCnt,
                             dat |-> SubSeq(oBlkWrDat, 1, n)]}
  /\ oBlkWrDat' = SubSeq(oBlkWrDat, n + 1, Len(oBlkWrDat))
  /\ htiAvlCnt' = htiAvlCnt + n
  /\ oBlkWrCnt' = oBlkWrCnt + n
  /\ UNCHANGED <<ObkRest, oBlkWrIdx, oBlkRdCnt, oBlkExpired, oBlkQue, posted, rdPend,
                 oBlkAvlCnt, htiToHif_datHalt, oSend>>

\* n words are written with one request, which gives n credits back.
ObkWrite(n) ==
  /\ wrReqs' = wrReqs \cup {[tid |-> Tid, blk |-> oBlkWrIdx, off |-> oBlkWrCnt,
                             dat |-> SubSeq(oBlkWrDat, 1, n)]}
  /\ oBlkWrDat' = SubSeq(oBlkWrDat, n + 1, Len(oBlkWrDat))
  /\ htiAvlCnt' = htiAvlCnt + n
  /\ oBlkWrCnt' = oBlkWrCnt + n
  /\ UNCHANGED <<ObkRest, oBlkWrIdx, oBlkRdCnt, oBlkExpired, oBlkQue, posted, rdPend,
                 oBlkAvlCnt, htiToHif_datHalt, oSend>>

ObkWr8 ==
  /\ oBlkState = "WR8"
  /\ ObkWrite(1)
  /\ oBlkState' = IF oBlkWrCnt = BlkQw - 1 THEN "FLSH"
                  ELSE IF Len(oBlkWrDat) # 1 THEN "WR8"
                  ELSE IF oBlkExpired THEN "FLSH" ELSE "POP"

\* The words of a line follow each other, while the memory port stays with
\* this machine.
ObkWr64 ==
  /\ oBlkState = "WR64"
  /\ ObkWrite(LineQw)
  /\ oBlkState' = IF oBlkWrCnt + LineQw = BlkQw THEN "FLSH" ELSE "POP"

\* Mutant of ObkFlsh: the reads do not wait for the writes.
ObkFlsh_NoWait ==
  /\ oBlkState = "FLSH" /\ FlshEn /\ oBlkRdCnt # 0
  /\ rdPend' = [rdPend EXCEPT ![Tid] = @ \cup {oBlkRdCnt % McCnt}]
  /\ oBlkRdCnt' = oBlkRdCnt - 1
  /\ UNCHANGED <<ObkRest, oBlkState, oBlkWrCnt, oBlkWrIdx, oBlkExpired, oQue, wrReqs, posted,
                 oBlkAvlCnt, htiToHif_datHalt, oSend>>

\* Where writes are posted, a read of every memory controller follows them.
ObkFlsh ==
  /\ oBlkState = "FLSH" /\ FlshEn /\ WrPend(Tid) = {} /\ oBlkRdCnt # 0
  /\ rdPend' = [rdPend EXCEPT ![Tid] = @ \cup {oBlkRdCnt % McCnt}]
  /\ oBlkRdCnt' = oBlkRdCnt - 1
  /\ UNCHANGED <<ObkRest, oBlkState, oBlkWrCnt, oBlkWrIdx, oBlkExpired, oQue, wrReqs, posted,
                 oBlkAvlCnt, htiToHif_datHalt, oSend>>
ObkFlshed ==
  /\ oBlkState = "FLSH" /\ (FlshEn => WrPend(Tid) = {} /\ oBlkRdCnt = 0)
  /\ oBlkState' = "SEND"
  /\ UNCHANGED <<ObkRest, oWr, oQue, oMem, oBlkAvlCnt, htiToHif_datHalt, oSend>>

\* Mutant of ObkSend: the block's index does not wrap.
ObkSend_NoWrap(msg) ==
  /\ oBlkState = "SEND" /\ ~oBlkSendRdy
  /\ oBlkSendRdy' = TRUE /\ oBlkSendIdx' = Tid /\ oBlkSize' = msg
  /\ oBlkWrCnt' = 0 /\ oBlkWrIdx' = oBlkWrIdx + 1
  /\ oBlkExpired' = FALSE
  /\ oBlkState' = "IDLE"
  /\ UNCHANGED <<ObkRest, oBlkRdCnt, oBlkWrDat, oMem, oBlkAvlCnt>>

\* The block is closed with message msg; the one before has been announced.
ObkSend(msg) ==
  /\ oBlkState = "SEND" /\ ~oBlkSendRdy
  /\ oBlkSendRdy' = TRUE /\ oBlkSendIdx' = Tid /\ oBlkSize' = msg
  /\ oBlkWrCnt' = 0 /\ oBlkWrIdx' = (oBlkWrIdx + 1) % OBlkCnt
  /\ oBlkExpired' = FALSE
  /\ oBlkState' = "IDLE"
  /\ UNCHANGED <<ObkRest, oBlkRdCnt, oBlkWrDat, oMem, oBlkAvlCnt>>
ObkSendData ==
  /\ oBlkWrCnt # 0
  /\ ObkSend(RdyMsg("DATA", oBlkWrCnt))
  /\ UNCHANGED <<oBlkQue, htiAvlCnt, htiToHif_datHalt>>

\* Mutant of HaltMayGo: forgets the block the halt itself takes.
HaltMayGo_All == oBlkAvlCnt = OBlkCnt
\* The halt goes out when every other block is back.
HaltMayGo == oBlkAvlCnt >= OBlkCnt - 1
ObkSendItem ==
  /\ oBlkState = "SEND" /\ oBlkWrCnt = 0
  /\ LET item == Head(oBlkQue) IN
     /\ item.ctl = "HALT" => HaltMayGo
     /\ ObkSend(RdyMsg(item.ctl, item.dat))
     /\ htiToHif_datHalt' = (item.ctl = "HALT")
  /\ oBlkQue' = Tail(oBlkQue) /\ htiAvlCnt' = htiAvlCnt + 1

----------------------------------------------------------------------------
\* The memory: a write is answered, and seen in the block - at once, or where
\* writes are posted some time later, but before a read that follows it at the
\* same controller is answered.
PutWords(r) ==
  oBlk' = [oBlk EXCEPT ![r.blk] =
    [q \in DOMAIN @ |-> IF q - r.off \in 0..Len(r.dat)-1 THEN r.dat[q - r.off + 1] ELSE @[q]]]
Mc(r) == ((r.blk * BlkQw + r.off) \div LineQw) % McCnt

MemRest == <<ctlIn, ctlOut, iBlk, busy, icm, ocm, ctlTo, htiIn, iAvl, ibk,
             oBlkState, oWr, oQue, oBlkAvlCnt, htiToHif_datHalt, oSend>>

ObkWrRsp ==
  \E r \in wrReqs :
    /\ wrReqs' = wrReqs \ {r}
    /\ IF FlshEn THEN posted' = posted \cup {r} /\ UNCHANGED oBlk
                 ELSE PutWords(r) /\ UNCHANGED posted
    /\ UNCHANGED <<MemRest, rdPend>>
MemSettle ==
  \E r \in posted :
    /\ posted' = posted \ {r} /\ PutWords(r)
    /\ UNCHANGED <<MemRest, wrReqs, rdPend>>
ObkRdRsp ==
  \E t \in 0..1 : \E c \in rdPend[t] :
    /\ \A r \in posted : Mc(r) # c
    /\ rdPend' = [rdPend EXCEPT ![t] = @ \ {c}]
    /\ UNCHANGED <<MemRest, oBlk, wrReqs, posted>>

----------------------------------------------------------------------------
\* Mutant of IdleNow: the halts are enough.
IdleNow_Halts ==
  /\ hifToHti_datHalt /\ htiToHif_datHalt
  /\ iCtlState = "READ" /\ iCtlWr = {}
  /\ oCtlState = "READ" /\ oCtlWr = {} /\ oCtlWrMsg = NoMsg

\* Both halts are through and every out block is back: the registers are
\* reset, and the unit is no longer busy.  The rest of the state is nobody's
\* business any more - or is lost.
IdleNow ==
  /\ hifToHti_datHalt /\ htiToHif_datHalt
  /\ iCtlState = "READ" /\ iCtlWr = {}
  /\ oCtlState = "READ" /\ oCtlWr = {} /\ oCtlWrMsg = NoMsg
  /\ oBlkAvlCnt = OBlkCnt

Idle ==
  /\ busy /\ IdleNow
  /\ busy' = FALSE
  /\ iCtlState' = "READ" /\ iCtlRdIdx' = 0 /\ iCtlWr' = {}
  /\ ctlAvlCnt' = QueDepth /\ datAvlCnt' = QueDepth
  /\ oCtlState' = "READ" /\ oCtlWrIdx' = 0 /\ oCtlWr' = {}
  /\ oCtlWrMsg' = NoMsg /\ htiToHif_ctl' = NoMsg
  /\ iBlkRdyQue' = <<>> /\ iBlkSendAvl' = FALSE
  /\ iBlkState' = "IDLE" /\ iBlkRdCnt' = 0 /\ iBlkRdAdr' = <<0, 0>>
  /\ iBlkRdIdx' = 0 /\ fetch' = [i \in 0..FetchCnt-1 |-> NoFetch]
  /\ iBlkFetchIdx' = 0 /\ iBlkPushIdx' = 0 /\ iBlkPushCnt' = 0
  /\ hifToHti_datHalt' = FALSE
  /\ oBlkAvlCnt' = 0 /\ oBlkQue' = <<>> /\ oBlkWrDat' = <<>>
  /\ oBlkState' = "IDLE" /\ oBlkWrCnt' = 0 /\ oBlkWrIdx' = 0 /\ oBlkRdCnt' = 0
  /\ oBlkExpired' = FALSE /\ htiToHif_datHalt' = FALSE
  /\ oBlkSendRdy' = FALSE /\ oBlkSendIdx' = 0 /\ oBlkSize' = RdyMsg("DATA", 0)
  /\ wrReqs' = {} /\ rdPend' = [t \in 0..1 |-> {}]
  /\ UNCHANGED <<mem, iCtlQue, iDatQue, htiAvlCnt, posted>>

IcmNext == IcmRead \/ IcmEmpty \/ IcmUser \/ IcmRdy \/ IcmAvl \/ IcmWrite \/ IcmWrRsp
OcmNext == OcmSelect \/ OcmRead \/ OcmRdWait \/ OcmWrite \/ OcmWrRsp
IbkNext ==
  IbkSpecial \/ IbkData \/ IbkFetch64 \/ IbkFetch8 \/ IbkRead \/ IbkWait \/ IbkRdRsp \/ IbkPush
ObkNext ==
  \/ ObkIdleFlsh \/ ObkIdle \/ ObkClose \/ ObkPop \/ ObkWr8 \/ ObkWr64
  \/ ObkFlsh \/ ObkFlshed \/ ObkSendData \/ ObkSendItem
MemNext == ObkWrRsp \/ MemSettle \/ ObkRdRsp
HifNext == IcmNext \/ OcmNext \/ IbkNext \/ ObkNext \/ ObkTimer \/ MemNext \/ Idle
=============================================================================
