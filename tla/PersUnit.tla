------------------------------ MODULE PersUnit ------------------------------
(***************************************************************************)
(* A unit of the coprocessor in hardware - CPersHif and CPersHti - with    *)
(* the host at the other end of the link.  The host is CHtUnitLib, here    *)
(* with one action per message: what its threads may do to each other is   *)
(* the subject of HifLink.                                                 *)
(***************************************************************************)
EXTENDS PersHti

CONSTANTS
  InCtls,      \* what the host sends: "DATA", "NULL", "CALL", "user"
  Argc,        \* quadwords of a call's arguments
  MaxIn        \* bound: items and messages the host sends in a run

ASSUME UnitAssumption == {Argc, MaxIn} \subseteq Nat

VARIABLES
  hInAvl, hInIdx, hInSlot,     \* credit, next block, next slot of the host
  hOutIdx, hOutSlot, hOwe,     \* next block and slot to read, blocks to give back
  hArgs,                       \* words of a call's arguments still to be sent
  hHalt,                       \* the halt has been sent
  usrIn,                       \* messages the host has sent
  inSent, outRcvd              \* log: items sent and received

hostVars == <<hInAvl, hInIdx, hInSlot, hOutIdx, hOutSlot, hOwe, hArgs, hHalt,
              usrIn, inSent, outRcvd>>
vars == <<hifVars, htiVars, hostVars>>

Init ==
  /\ HifInit /\ HtiInit
  /\ hInAvl = IBlkCnt /\ hInIdx = 0 /\ hInSlot = OBlkCnt % CtlQueSize
  /\ hOutIdx = 0 /\ hOutSlot = 0 /\ hOwe = 0
  /\ hArgs = 0 /\ hHalt = FALSE
  /\ inSent = <<>> /\ outRcvd = <<>> /\ usrIn = 0

Words(blk, n) == [i \in 1..n |-> Item("DATA", blk[i - 1])]

----------------------------------------------------------------------------
\* The host.  A message is written to a slot that is clear.
HostMsg(msg) ==
  /\ ctlIn[hInSlot] = NoMsg
  /\ ctlIn' = [ctlIn EXCEPT ![hInSlot] = msg]
  /\ hInSlot' = (hInSlot + 1) % CtlQueSize
  /\ UNCHANGED <<ctlOut, oBlk, busy, icm, ocm, ctlTo, htiIn, iAvl, ibk, obk, oSend, htiVars>>

\* A block of items is handed over for one credit.
HostBlk(items, msg) ==
  /\ hInAvl > 0 /\ ~hHalt
  /\ HostMsg(msg)
  /\ hInAvl' = hInAvl - 1 /\ hInIdx' = (hInIdx + 1) % IBlkCnt
  /\ inSent' = inSent \o items
  /\ UNCHANGED <<hOutIdx, hOutSlot, hOwe, outRcvd, usrIn>>

HostData ==
  \E n \in 1..Lower(BlkQw, MaxIn - Len(inSent) - usrIn) :
    /\ "DATA" \in InCtls \/ n <= hArgs
    /\ iBlk' = [iBlk EXCEPT ![hInIdx] =
                  [q \in DOMAIN @ |-> IF q < n THEN Len(inSent) + q + 1 ELSE @[q]]]
    /\ HostBlk(Words(iBlk'[hInIdx], n), RdyMsg("DATA", n))
    /\ hArgs' = IF n < hArgs THEN hArgs - n ELSE 0
    /\ UNCHANGED hHalt

\* HTI has no use for a marker before the first call or word.
HostSpecial ==
  /\ Len(inSent) + usrIn < MaxIn /\ hArgs = 0
  /\ \E k \in InCtls \cap {"NULL", "CALL"} :
       LET n == IF k = "CALL" THEN Argc ELSE 0 IN
       /\ k = "NULL" => inSent # <<>>
       /\ Len(inSent) + usrIn + n < MaxIn
       /\ HostBlk(<<Item(k, n)>>, RdyMsg(k, n))
       /\ hArgs' = n
  /\ UNCHANGED <<iBlk, hHalt>>

HostHalt ==
  /\ hArgs = 0
  /\ HostBlk(<<Item("HALT", 0)>>, RdyMsg("HALT", 0))
  /\ hHalt' = TRUE
  /\ UNCHANGED <<iBlk, hArgs>>

HostUser ==
  /\ "user" \in InCtls /\ ~hHalt /\ Len(inSent) + usrIn < MaxIn /\ hArgs = 0
  /\ HostMsg(UserMsg)
  /\ usrIn' = usrIn + 1
  /\ UNCHANGED <<iBlk, hInAvl, hInIdx, hOutIdx, hOutSlot, hOwe, hArgs, hHalt, inSent, outRcvd>>

\* The host takes a message of the unit; a block is read before it is owed.
HostRecv ==
  LET m == ctlOut[hOutSlot] IN
  /\ m # NoMsg
  /\ ctlOut' = [ctlOut EXCEPT ![hOutSlot] = NoMsg]
  /\ hOutSlot' = (hOutSlot + 1) % CtlQueSize
  /\ hInAvl' = IF m.cmd = "avl" THEN hInAvl + 1 ELSE hInAvl
  /\ IF m.cmd # "rdy"
     THEN UNCHANGED <<outRcvd, hOutIdx, hOwe>>
     ELSE /\ outRcvd' = outRcvd \o (IF m.ctl = "DATA" THEN Words(oBlk[hOutIdx], m.arg)
                                    ELSE <<Item(m.ctl, m.arg)>>)
          /\ hOutIdx' = (hOutIdx + 1) % OBlkCnt /\ hOwe' = hOwe + 1
  /\ UNCHANGED <<ctlIn, iBlk, oBlk, busy, icm, ocm, ctlTo, htiIn, iAvl, ibk, obk, oSend, htiVars,
                 hInIdx, hInSlot, hArgs, hHalt, inSent, usrIn>>
HostGiveBack ==
  /\ hOwe > 0
  /\ HostMsg(AvlMsg)
  /\ hOwe' = hOwe - 1
  /\ UNCHANGED <<iBlk, hInAvl, hInIdx, hOutIdx, hOutSlot, hArgs, hHalt, inSent, outRcvd, usrIn>>
HostNext ==
  HostData \/ HostSpecial \/ HostHalt \/ HostUser \/ HostRecv \/ HostGiveBack

\* HTI's queue of items has not been pushed when it was full: the ht_assert of
\* ht_dist_que::push, which ends the program.
DatQueFits == Len(iDatQue) <= QueDepth

\* The unit may be dispatched again by the next library object; or an
\* assertion has ended the program.
Finished == (DatQueFits => ~busy /\ ctlOut[hOutSlot] = NoMsg) /\ UNCHANGED vars

\* A step of CPersHif or the memory.
Alone(A) == A /\ UNCHANGED <<htiVars, hostVars>>
HifStep == Alone(HifNext)
HtiStep == (HtiNext \/ ModNext) /\ UNCHANGED hostVars
Next == (DatQueFits /\ (HifStep \/ HtiStep \/ HostNext)) \/ Finished

Spec == Init /\ [][Next]_vars

\* Every state machine is clocked and gets its turn at the memory port, the
\* memory answers every request, the modules finish their calls, and the host
\* goes on reading: as long as any of them has work, some work is done.  A poll
\* that finds nothing is no work; of the rest a run has finitely much, so that
\* nobody's work is put off for ever.
HifWork ==
  \/ IcmRead /\ ctlIn[iCtlRdIdx] # NoMsg
  \/ IcmUser \/ IcmRdy \/ IcmAvl \/ IcmWrite \/ IcmWrRsp
  \/ OcmRead /\ ctlOut[oCtlWrIdx] = NoMsg
  \/ OcmRdWait /\ ctlOut[oCtlWrIdx] = NoMsg
  \/ OcmSelect \/ OcmWrite \/ OcmWrRsp
  \/ IbkNext \/ ObkNext \/ ObkTimer \/ MemNext \/ Idle
Work ==
  /\ DatQueFits
  /\ \/ Alone(HifWork)
     \/ (HtiNext \/ ModTakeCall \/ ModReturn) /\ UNCHANGED hostVars
     \/ HostRecv \/ HostGiveBack
Fairness == WF_vars(Work)
FairSpec == Spec /\ Fairness

----------------------------------------------------------------------------
CtlStates == {"READ", "RD_WAIT", "WRITE"}
Msgs == [cmd : {"none", "avl", "rdy", "user"}, ctl : Ctl, arg : Nat]
Items == [ctl : Ctl, dat : Nat]

\* The values the registers and queues of CPersHif and CPersHti take.
TypeOK ==
  /\ ctlIn \in [0..CtlQueSize-1 -> Msgs] /\ ctlOut \in [0..CtlQueSize-1 -> Msgs]
  /\ iCtlState \in CtlStates /\ iCtlRdIdx \in 0..CtlQueSize-1
  /\ oCtlState \in CtlStates /\ oCtlWrIdx \in 0..CtlQueSize-1
  /\ oCtlWrMsg \in Msgs /\ htiToHif_ctl \in Msgs
  /\ ctlAvlCnt \in 0..QueDepth /\ htiAvlCnt \in 0..QueDepth
  /\ datAvlCnt \in IF DatQueFits THEN 0..QueDepth ELSE {63}
  /\ iBlkState \in {"IDLE", "READ", "WAIT"} /\ iBlkRdCnt \in 0..BlkQw
  /\ iBlkRdIdx \in 0..IBlkCnt-1 /\ oBlkWrIdx \in 0..OBlkCnt-1
  /\ \A i \in DOMAIN fetch : fetch[i].val \in 0..LineQw /\ Cardinality(fetch[i].pend) <= LineQw
  /\ oBlkState \in {"IDLE", "POP", "WR8", "WR64", "FLSH", "SEND"}
  /\ oBlkWrCnt \in 0..BlkQw /\ Len(oBlkWrDat) <= LineQw /\ oBlkAvlCnt \in 0..OBlkCnt
  /\ callState \in {"IDLE", "ARGS", "CMD", "DATA"} /\ rtnState \in {"IDLE", "CMD", "ARGS", "DATA"}
  /\ callActiveCnt \in Nat /\ hInAvl \in 0..IBlkCnt /\ hOwe \in 0..OBlkCnt

\* The host has sent three items in a row that are blocks without data.
ThreeInARow ==
  \E i \in 1..Len(inSent)-2 : \A j \in i..i+2 : inSent[j].ctl # "DATA"

\* No queue for HTI, and not the queue of announced blocks, is pushed when it
\* is full (the ht_assert of ht_dist_que): no more blocks are announced than
\* the host has, messages are covered by their credit, and words leave room
\* for two items that are pushed without a look at it.  It takes three of these
\* with no word between them to fail the assertion.
QueuesFit ==
  /\ Len(iBlkRdyQue) <= IBlkCnt /\ Len(iCtlQue) <= QueDepth
  /\ ~DatQueFits => ThreeInARow

\* Every entry of the queues from HTI has its credit, and no credit is lost:
\* these queues are never pushed when they are full and HTI never waits for
\* room there is.  Nor are they popped when they are empty (the other
\* ht_assert), where a state takes for granted what an earlier one looked at.
OutQueueSafe ==
  /\ busy => Len(oBlkQue) + Len(oBlkWrDat) + htiAvlCnt = QueDepth
  /\ oBlkState \in {"WR8", "WR64"} => oBlkWrDat # <<>>
  /\ oBlkState = "SEND" /\ oBlkWrCnt = 0 => oBlkQue # <<>>

\* The slots with a message CPersHif has not taken.
Unread == {s \in DOMAIN ctlIn : ctlIn[s] # NoMsg}
          \ (iCtlWr \cup IF iCtlState = "WRITE" THEN {iCtlRdIdx} ELSE {})
SlotsWith(ring, slots, cmd) == Cardinality({s \in slots : ring[s].cmd = cmd})
OnTheWay(cmd) ==
  SlotsWith(ctlOut, DOMAIN ctlOut, cmd) + Cardinality({w \in oCtlWr : w.msg.cmd = cmd})
  + IF oCtlWrMsg.cmd = cmd THEN 1 ELSE 0
One(p) == IF p THEN 1 ELSE 0

\* A block of the host is in one place: credit of the host, announced, being
\* fetched, or on its way back.  The hardware spreads this over a queue, a
\* state, a flag and the control message being sent; a flag that is set twice
\* or cleared by the wrong machine would lose a block for good.
InBlocksConserved ==
  busy => hInAvl + SlotsWith(ctlIn, Unread, "rdy") + Len(iBlkRdyQue)
          + One(iBlkState # "IDLE") + One(iBlkSendAvl) + OnTheWay("avl") = IBlkCnt

\* The same for the blocks of the unit, which end with the host and come back.
OutBlocksConserved ==
  busy => oBlkAvlCnt + One(oBlkState # "IDLE") + One(oBlkSendRdy) + OnTheWay("rdy")
          + hOwe + SlotsWith(ctlIn, Unread, "avl") = OBlkCnt

Overlap(r, w) ==
  r.blk = w.blk /\ r.off < w.off + Len(w.dat) /\ w.off < r.off + Len(r.dat)

\* Requests the memory may reorder do not touch the same address: what
\* CSyscMem::CheckMemReqOrdering reports.  A slot that is being cleared or
\* written is not read, a word has one write under way, and of the writes
\* under way those with one tid are of one block, whose count is the pending
\* count the block waits for.
NoConflict ==
  /\ Cardinality(iCtlWr) <= 1 /\ Cardinality(oCtlWr) <= 1
  /\ iCtlState = "RD_WAIT" => iCtlRdIdx \notin iCtlWr
  /\ oCtlState = "RD_WAIT" => \A w \in oCtlWr : w.slot # oCtlWrIdx
  /\ \A w \in oCtlWr : ctlOut[w.slot] = NoMsg
  /\ \A r, w \in wrReqs \cup posted :
       /\ r # w => ~Overlap(r, w)
       /\ {r, w} \subseteq wrReqs /\ r.tid = w.tid => r.blk = w.blk

\* When CPersHif finds itself idle and resets everything, there is nothing
\* left: no credit it owes the host, no request under way, no message unread,
\* no word on its way.  The condition looks at only some of this.
IdleIsQuiet ==
  busy /\ IdleNow =>
    /\ Unread = {} /\ htiToHif_ctl = NoMsg /\ ~iBlkSendAvl /\ ~oBlkSendRdy
    /\ iBlkRdyQue = <<>> /\ iBlkState = "IDLE" /\ oBlkState = "IDLE"
    /\ \A i \in DOMAIN fetch : fetch[i].pend = {} /\ fetch[i].val = 0
    /\ wrReqs = {} /\ posted = {} /\ rdPend = [t \in 0..1 |-> {}]
    /\ oBlkQue = <<>> /\ oBlkWrDat = <<>> /\ iDatQue = <<>>
    /\ callActiveCnt = 0 /\ outQue = <<>>

\* The halt is the last item of the unit: every call has returned before, and
\* all that the modules sent went before its return.
NothingAfterHalt ==
  \A i \in DOMAIN outSent : outSent[i].ctl = "HALT" =>
    i = Len(outSent) /\ callActiveCnt = 0 /\ outQue = <<>> /\ oCmdCnt = 0

Rest(sent, rcvd) == SubSeq(sent, Len(rcvd) + 1, Len(sent))
InChannel  == INSTANCE HifChannel WITH sent <- inSent, rcvd <- inRcvd,
                                       chan <- Rest(inSent, inRcvd)
OutChannel == INSTANCE HifChannel WITH sent <- outSent, rcvd <- outRcvd,
                                       chan <- Rest(outSent, outRcvd)

\* What the host sends HTI takes, and what HTI sends the host takes, once and
\* in order, though lines are fetched, and words written, in any order and
\* only the pending counts tell when all is there.
InArrivesInOrder  == InChannel!Spec
OutArrivesInOrder == OutChannel!Spec

\* A unit that has been sent the halt ends.
UnitStops == hHalt ~> ~busy
=============================================================================
