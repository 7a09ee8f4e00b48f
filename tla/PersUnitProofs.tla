--------------------------- MODULE PersUnitProofs ---------------------------
(***************************************************************************)
(* What holds of a unit in hardware for every number of slots, blocks,     *)
(* lines and memory controllers.                                           *)
(* - The queues from CPersHti to the outbound blocks: every entry has its  *)
(*   credit, so that no queue overflows, and no state of the OBK state     *)
(*   machine pops an empty one (OutInv).                                   *)
(* - The two rings of control messages, and with them the blocks of both   *)
(*   directions: none is lost (BlkInv).                                    *)
(* - The requests to the memory: no two that may be reordered touch one    *)
(*   address (WrInv).                                                      *)
(* - The halt: it is the last the unit is given (HaltInv) and the last it  *)
(*   sends (Calls, OutEnds), and what the reset finds is empty (OwnReqs,   *)
(*   LastSent).                                                            *)
(***************************************************************************)
EXTENDS PersUnit, SequenceTheorems, FiniteSetTheorems, TLAPS

\* The values of what the invariant is about.
OutTypes ==
  /\ oBlkQue \in Seq(Items) /\ oBlkWrDat \in Seq(Nat) /\ outSent \in Seq(Items)
  /\ htiAvlCnt \in Nat /\ oBlkWrCnt \in Nat
  /\ oBlkState \in {"IDLE", "POP", "WR8", "WR64", "FLSH", "SEND"}

\* Less than a line is gathered but in the states that write it, which have
\* something to write.
Gathered ==
  /\ Len(oBlkWrDat) <= LineQw
  /\ oBlkState = "WR64" => Len(oBlkWrDat) = LineQw
  /\ oBlkState = "WR8"  => Len(oBlkWrDat) > 0
  /\ oBlkState \notin {"WR8", "WR64"} => Len(oBlkWrDat) < LineQw

\* A block without a word is closed for the item at the front.
ClosedFor == oBlkState \in {"FLSH", "SEND"} /\ oBlkWrCnt = 0 => oBlkQue # <<>>

OutCredit == busy => Len(oBlkQue) + Len(oBlkWrDat) + htiAvlCnt = QueDepth

OutInv == OutTypes /\ Gathered /\ ClosedFor /\ OutCredit

\* What the invariant depends on.
outPart == <<oBlkQue, oBlkWrDat, outSent, htiAvlCnt, oBlkWrCnt, oBlkState, busy>>

----------------------------------------------------------------------------
\* The first entry of a queue is taken, or one is added at its end.
LEMMA Popped ==
  ASSUME NEW S, NEW s \in Seq(S), s # <<>>
  PROVE  Tail(s) \in Seq(S) /\ Len(Tail(s)) = Len(s) - 1 /\ Head(s) \in S /\ Len(s) \in Nat
BY HeadTailProperties, LenProperties

\* An entry is added at the end of a queue.
LEMMA Pushed ==
  ASSUME NEW S, NEW s \in Seq(S), NEW e \in S
  PROVE  /\ Append(s, e) \in Seq(S) /\ Len(Append(s, e)) = Len(s) + 1
         /\ Append(s, e) # <<>> /\ Len(s) \in Nat
BY AppendProperties, LenProperties

\* The first n words are written.
LEMMA Written ==
  ASSUME NEW S, NEW s \in Seq(S), NEW n \in 1..Len(s)
  PROVE  /\ SubSeq(s, n + 1, Len(s)) \in Seq(S)
         /\ Len(SubSeq(s, n + 1, Len(s))) = Len(s) - n
<1>1. Len(s) \in Nat /\ n \in Nat
  BY LenProperties
<1>2. CASE n = Len(s)
  BY <1>1, <1>2, SubSeqProperties
<1>3. CASE n < Len(s)
  <2>1. n + 1 \in 1..Len(s) /\ Len(s) \in n + 1 .. Len(s)
    BY <1>1, <1>3
  <2> QED BY <1>1, <1>3, <2>1, SubSeqProperties
<1> QED BY <1>1, <1>2, <1>3

\* Only the reset, the OBK state machine and HTI's pushes change what the
\* invariant is about.
LEMMA Unaffected ==
  ASSUME OutInv, UNCHANGED outPart
  PROVE  OutInv'
BY DEF OutInv, OutTypes, Gathered, ClosedFor, OutCredit, outPart

----------------------------------------------------------------------------
\* An empty queue of HTI, a full credit.
LEMMA OutInit ==
  ASSUME PersAssumption, Init
  PROVE  OutInv
<1>1. /\ oBlkQue = <<>> /\ oBlkWrDat = <<>> /\ outSent = <<>> /\ htiAvlCnt = QueDepth
      /\ oBlkWrCnt = 0 /\ oBlkState = "IDLE"
  BY DEF Init, HifInit, HtiInit, HifReset
<1> QED BY <1>1 DEF OutInv, OutTypes, Gathered, ClosedFor, OutCredit, PersAssumption

\* The reset of an idle unit empties the queues; the credit is not asked for
\* any more.
LEMMA IdleKeeps ==
  ASSUME PersAssumption, OutInv, Idle, UNCHANGED outSent
  PROVE  OutInv'
<1>1. /\ oBlkQue' = <<>> /\ oBlkWrDat' = <<>> /\ oBlkWrCnt' = 0 /\ oBlkState' = "IDLE"
      /\ busy' = FALSE /\ htiAvlCnt' = htiAvlCnt
  BY DEF Idle
<1> QED BY <1>1 DEF OutInv, OutTypes, Gathered, ClosedFor, OutCredit, PersAssumption

\* The machines of the control messages and of the inbound blocks, and the
\* memory, leave the outbound queues alone.
LEMMA OthersKeep ==
  ASSUME OutInv, IcmNext \/ OcmNext \/ IbkNext \/ ObkTimer \/ MemNext, UNCHANGED outSent
  PROVE  OutInv'
<1>1. CASE IcmNext
  <2>1. UNCHANGED outPart
    BY <1>1 DEF IcmNext, IcmRead, IcmEmpty, IcmTake, IcmUser, IcmRdy, IcmAvl, IcmWrite,
                IcmWrRsp, obk, oWr, oQue, outPart
  <2> QED BY <2>1, Unaffected
<1>2. CASE OcmNext
  <2>1. UNCHANGED outPart
    BY <1>2, SMTT(30) DEF OcmNext, OcmSelect, OcmRead, OcmRdWait, OcmWrite, OcmWrRsp, obk, oWr, oQue, outPart
  <2> QED BY <2>1, Unaffected
<1>3. CASE IbkNext
  <2>1. UNCHANGED outPart
    BY <1>3 DEF IbkNext, IbkSpecial, IbkData, IbkTake, IbkFetch64, IbkFetch8, Fetch, IbkRead,
                IbkWait, IbkRdRsp, IbkPush, obk, oWr, oQue, outPart
  <2> QED BY <2>1, Unaffected
<1>4. CASE ObkTimer
  <2>1. UNCHANGED outPart
    BY <1>4 DEF ObkTimer, ObkRest, oQue, outPart
  <2> QED BY <2>1, Unaffected
<1>5. CASE MemNext
  <2>1. UNCHANGED outPart
    BY <1>5 DEF MemNext, ObkWrRsp, MemSettle, ObkRdRsp, MemRest, oWr, oQue, outPart
  <2> QED BY <2>1, Unaffected
<1> QED BY <1>1, <1>2, <1>3, <1>4, <1>5

----------------------------------------------------------------------------
\* Words written leave the line they were gathered in, and give their
\* credits back.
LEMMA WriteKeeps ==
  ASSUME PersAssumption, OutInv, NEW n \in 1..Len(oBlkWrDat), ObkWrite(n), UNCHANGED outSent,
         oBlkState' \in {"POP", "WR8", "FLSH"},
         oBlkState' = "WR8" => Len(oBlkWrDat) > n
  PROVE  OutInv'
<1>1. Len(oBlkWrDat) \in Nat /\ Len(oBlkQue) \in Nat /\ n \in Nat /\ n > 0
  BY LenProperties, SMTT(30) DEF OutInv, OutTypes
<1>2. oBlkWrDat' \in Seq(Nat) /\ Len(oBlkWrDat') = Len(oBlkWrDat) - n
  BY Written DEF ObkWrite, OutInv, OutTypes
<1>3. /\ htiAvlCnt' = htiAvlCnt + n /\ oBlkWrCnt' = oBlkWrCnt + n /\ oBlkQue' = oBlkQue
      /\ busy' = busy
  BY DEF ObkWrite, ObkRest
<1>4. OutTypes'
  <2>1. oBlkQue' \in Seq(Items) /\ outSent' \in Seq(Items)
    BY <1>3 DEF OutInv, OutTypes
  <2>2. htiAvlCnt' \in Nat /\ oBlkWrCnt' \in Nat
    BY <1>1, <1>3 DEF OutInv, OutTypes
  <2> QED BY <1>2, <2>1, <2>2 DEF OutTypes
<1>5. Gathered'
  BY <1>1, <1>2, SMTT(30) DEF OutInv, Gathered, PersAssumption
<1>6. ClosedFor'
  BY <1>1, <1>3 DEF OutInv, OutTypes, ClosedFor
<1>7. OutCredit'
  <2>1. busy => Len(oBlkQue) + Len(oBlkWrDat) + htiAvlCnt = QueDepth
    BY DEF OutInv, OutCredit
  <2>2. htiAvlCnt \in Nat
    BY DEF OutInv, OutTypes
  <2> QED BY <1>1, <1>2, <1>3, <2>1, <2>2, SMTT(30) DEF OutCredit
<1> QED BY <1>4, <1>5, <1>6, <1>7 DEF OutInv

\* An item other than a word is taken from the queue.
LEMMA TakeKeeps ==
  ASSUME PersAssumption, OutInv, oBlkQue # <<>>, oBlkQue' = Tail(oBlkQue),
         htiAvlCnt' = htiAvlCnt + 1, oBlkState \in {"IDLE", "SEND"}, oBlkState' = "IDLE",
         oBlkWrCnt' \in Nat, UNCHANGED <<oBlkWrDat, outSent, busy>>
  PROVE  OutInv'
<1>1. oBlkQue' \in Seq(Items) /\ Len(oBlkQue') = Len(oBlkQue) - 1 /\ Len(oBlkQue) \in Nat
  BY Popped DEF OutInv, OutTypes
<1>2. Len(oBlkWrDat) \in Nat /\ htiAvlCnt \in Nat
  BY LenProperties DEF OutInv, OutTypes
<1>3. OutTypes'
  BY <1>1, <1>2 DEF OutInv, OutTypes
<1>4. Gathered' /\ ClosedFor'
  BY DEF OutInv, Gathered, ClosedFor
<1>5. OutCredit'
  <2>1. busy => Len(oBlkQue) + Len(oBlkWrDat) + htiAvlCnt = QueDepth
    BY DEF OutInv, OutCredit
  <2> QED BY <1>1, <1>2, <2>1, SMTT(30) DEF OutCredit
<1> QED BY <1>3, <1>4, <1>5 DEF OutInv

\* The OBK state machine.
LEMMA ObkKeeps ==
  ASSUME PersAssumption, OutInv, ObkNext, UNCHANGED outSent
  PROVE  OutInv'
<1>1. CASE ObkIdleFlsh
  BY <1>1, TakeKeeps DEF ObkIdleFlsh, ObkRest, oWr, OutInv, OutTypes
<1>2. CASE ObkIdle
  BY <1>2 DEF ObkIdle, ObkRest, oQue, OutInv, OutTypes, Gathered, ClosedFor, OutCredit
<1>3. CASE ObkClose
  BY <1>3, EmptySeq, LenProperties
     DEF ObkClose, TimeUp, ObkRest, oQue, oWr, OutInv, OutTypes, Gathered, ClosedFor, OutCredit
<1>4. CASE ObkPop
  <2>1. /\ oBlkQue' \in Seq(Items) /\ Len(oBlkQue') = Len(oBlkQue) - 1
        /\ Len(oBlkQue) \in Nat /\ Head(oBlkQue) \in Items
    BY <1>4, Popped DEF ObkPop, OutInv, OutTypes
  <2>2. /\ oBlkWrDat' \in Seq(Nat) /\ Len(oBlkWrDat') = Len(oBlkWrDat) + 1
        /\ Len(oBlkWrDat) \in Nat
    BY <1>4, <2>1, Pushed DEF ObkPop, OutInv, OutTypes, Items
  <2>3. /\ htiAvlCnt' = htiAvlCnt /\ oBlkWrCnt' = oBlkWrCnt /\ busy' = busy
        /\ oBlkState = "POP" /\ oBlkState' \in {"POP", "WR8", "WR64"}
        /\ oBlkState' = "POP" <=> Len(oBlkWrDat) # LineQw - 1
    BY <1>4 DEF ObkPop, ObkRest, oWr
  <2>4. OutTypes'
    BY <2>1, <2>2, <2>3 DEF OutInv, OutTypes
  <2>5. Gathered' /\ ClosedFor'
    BY <2>1, <2>2, <2>3, SMTT(30) DEF OutInv, Gathered, ClosedFor, PersAssumption
  <2>6. OutCredit'
    <3>1. busy => Len(oBlkQue) + Len(oBlkWrDat) + htiAvlCnt = QueDepth
      BY DEF OutInv, OutCredit
    <3>2. htiAvlCnt \in Nat
      BY DEF OutInv, OutTypes
    <3> QED BY <2>1, <2>2, <2>3, <3>1, <3>2 DEF OutCredit
  <2> QED BY <2>4, <2>5, <2>6 DEF OutInv
<1>5. CASE ObkWr8
  <2>1. 1 \in 1..Len(oBlkWrDat)
    BY <1>5, LenProperties DEF ObkWr8, OutInv, OutTypes, Gathered
  <2>2. Len(oBlkWrDat) \in Nat
    BY LenProperties DEF OutInv, OutTypes
  <2>3. ObkWrite(1) /\ oBlkState' \in {"POP", "WR8", "FLSH"}
    BY <1>5 DEF ObkWr8
  <2>4. oBlkState' = "WR8" => Len(oBlkWrDat) # 1
    <3>1. CASE oBlkWrCnt = BlkQw - 1
      BY <1>5, <3>1 DEF ObkWr8
    <3>2. CASE oBlkWrCnt # BlkQw - 1 /\ Len(oBlkWrDat) = 1
      <4>1. oBlkState' = IF oBlkExpired THEN "FLSH" ELSE "POP"
        BY <1>5, <3>2 DEF ObkWr8
      <4> QED BY <4>1
    <3> QED BY <3>1, <3>2
  <2>5. Len(oBlkWrDat) # 1 => Len(oBlkWrDat) > 1
    <3>1. \A n \in Nat : 1 \in 1..n /\ n # 1 => n > 1
      OBVIOUS
    <3> QED BY <2>1, <2>2, <3>1
  <2> QED BY <2>1, <2>3, <2>4, <2>5, WriteKeeps
<1>6. CASE ObkWr64
  <2>1. LineQw \in 1..Len(oBlkWrDat)
    BY <1>6 DEF ObkWr64, OutInv, Gathered, PersAssumption
  <2> QED BY <1>6, <2>1, WriteKeeps DEF ObkWr64
<1>7. CASE ObkFlsh
  <2>1. UNCHANGED outPart
    BY <1>7 DEF ObkFlsh, ObkRest, oQue, outPart
  <2> QED BY <2>1, Unaffected
<1>8. CASE ObkFlshed
  BY <1>8 DEF ObkFlshed, ObkRest, oQue, oWr, OutInv, OutTypes, Gathered, ClosedFor, OutCredit
<1>9. CASE ObkSendData
  BY <1>9 DEF ObkSendData, ObkSend, ObkRest, OutInv, OutTypes, Gathered, ClosedFor, OutCredit
<1>10. CASE ObkSendItem
  <2>1. oBlkQue # <<>>
    BY <1>10 DEF ObkSendItem, OutInv, ClosedFor
  <2> QED BY <1>10, <2>1, TakeKeeps DEF ObkSendItem, ObkSend, ObkRest, OutInv, OutTypes
<1> QED BY <1>1, <1>2, <1>3, <1>4, <1>5, <1>6, <1>7, <1>8, <1>9, <1>10 DEF ObkNext

----------------------------------------------------------------------------
\* An item goes in for one credit.
LEMMA PushKeeps ==
  ASSUME PersAssumption, OutInv, NEW item \in Items, OPush(item),
         UNCHANGED <<oBlkWrDat, oBlkWrCnt, oBlkState, busy>>
  PROVE  OutInv'
<1>1. /\ oBlkQue' \in Seq(Items) /\ Len(oBlkQue') = Len(oBlkQue) + 1 /\ oBlkQue' # <<>>
      /\ Len(oBlkQue) \in Nat
  BY Pushed DEF OPush, OutInv, OutTypes
<1>2. outSent' \in Seq(Items)
  BY Pushed DEF OPush, OutInv, OutTypes
<1>3. htiAvlCnt \in Nat /\ htiAvlCnt # 0 /\ htiAvlCnt' = htiAvlCnt - 1
  BY DEF OPush, OutInv, OutTypes
<1>4. OutTypes'
  BY <1>1, <1>2, <1>3 DEF OutInv, OutTypes
<1>5. Gathered' /\ ClosedFor'
  BY <1>1 DEF OutInv, Gathered, ClosedFor
<1>6. OutCredit'
  <2>1. busy => Len(oBlkQue) + Len(oBlkWrDat) + htiAvlCnt = QueDepth
    BY DEF OutInv, OutCredit
  <2>2. Len(oBlkWrDat) \in Nat
    BY LenProperties DEF OutInv, OutTypes
  <2> QED BY <1>1, <1>3, <2>1, <2>2, SMTT(30) DEF OutCredit
<1> QED BY <1>4, <1>5, <1>6 DEF OutInv

\* HTI's return machine, and the answer to the halt.
LEMMA HtiKeeps ==
  ASSUME PersAssumption, HtiAssumption, OutInv, HtiNext \/ ModNext
  PROVE  OutInv'
<1>1. NextWord \in Items
  <2>1. Len(outSent) + 1 \in Nat
    BY LenProperties DEF OutInv, OutTypes
  <2> QED BY <2>1 DEF NextWord, Item, Items, Ctl
<1>2. \A k \in {"HALT", "FLSH", "NULL"} : Item(k, 0) \in Items
  BY DEF Item, Items, Ctl
<1>3. Item("CALL", RtnQw) \in Items
  BY DEF Item, Items, Ctl, HtiAssumption
<1>4. CASE CallIdleHalt
  BY <1>2, <1>4, PushKeeps DEF CallIdleHalt, CallRest, HifRest, oWr
<1>5. CASE RtnCmd
  BY <1>3, <1>5, PushKeeps DEF RtnCmd, RtnRest, HifRest, oWr
<1>6. CASE RtnArg
  BY <1>1, <1>6, PushKeeps DEF RtnArg, RtnRest, HifRest, oWr
<1>7. CASE RtnDone
  BY <1>2, <1>7, PushKeeps DEF RtnDone, RtnRest, HifRest, oWr
<1>8. CASE RtnData
  <2>1. CASE outQue = <<>>
    <3>1. UNCHANGED outPart
      BY <1>8, <2>1 DEF RtnData, RtnRest, HifRest, oWr, outPart
    <3> QED BY <3>1, Unaffected
  <2>2. CASE outQue # <<>>
    <3>1. PICK item \in Items : OPush(item)
      BY <1>1, <1>2, <1>8, <2>2 DEF RtnData
    <3> QED BY <1>8, <3>1, PushKeeps DEF RtnData, RtnRest, HifRest, oWr
  <2> QED BY <2>1, <2>2
<1>9. CASE CallIdleData \/ CallIdleCall \/ CallArgs \/ CallCmd \/ CallData \/ IhmPop \/ RtnIdle
  <2>1. UNCHANGED outPart
    BY <1>9 DEF CallIdleData, CallIdleCall, CallArgs, CallCmd, CallData, IhmPop, RtnIdle,
                CallRest, RtnRest, HifRest, oWr, outPart
  <2> QED BY <2>1, Unaffected
<1>10. CASE ModNext
  <2>1. UNCHANGED outPart
    BY <1>10 DEF ModNext, ModTakeCall, ModReturn, ModSend, ModSendMsg, ModRest, HifRest,
                 hifVars, obk, oQue, oWr, outPart
  <2> QED BY <2>1, Unaffected
<1> QED BY <1>4, <1>5, <1>6, <1>7, <1>8, <1>9, <1>10 DEF HtiNext, HtiCallNext, HtiRtnNext

\* The host is at the other end of the memory.
LEMMA HostKeeps ==
  ASSUME OutInv, HostNext
  PROVE  OutInv'
<1>1. UNCHANGED outPart
  BY DEF HostNext, HostData, HostSpecial, HostHalt, HostUser, HostRecv, HostGiveBack, HostBlk,
         HostMsg, obk, oQue, oWr, htiVars, htiLog, outPart
<1> QED BY <1>1, Unaffected

----------------------------------------------------------------------------
\* The invariant holds in every state of the unit, with any sizes of the
\* queues, the blocks and the lines, posted writes or not.
THEOREM OutInvariance == Spec => []OutInv
<1>1. Init => OutInv
  BY OutInit, PersAssumption
<1>2. OutInv /\ [Next]_vars => OutInv'
  <2> SUFFICES ASSUME OutInv, [Next]_vars PROVE OutInv'
    OBVIOUS
  <2>1. CASE HifStep
    <3>1. UNCHANGED outSent
      BY <2>1 DEF HifStep, Alone, htiVars, htiLog
    <3> QED BY <2>1, <3>1, IdleKeeps, OthersKeep, ObkKeeps, PersAssumption
            DEF HifStep, Alone, HifNext
  <2>2. CASE HtiStep
    BY <2>2, HtiKeeps, PersAssumption, HtiAssumption DEF HtiStep
  <2>3. CASE HostNext
    BY <2>3, HostKeeps
  <2>4. CASE UNCHANGED vars
    <3>1. UNCHANGED outPart
      BY <2>4 DEF vars, hifVars, htiVars, htiLog, obk, oQue, oWr, outPart
    <3> QED BY <3>1, Unaffected
  <2> QED BY <2>1, <2>2, <2>3, <2>4 DEF Next, Finished
<1> QED BY <1>1, <1>2, PTL DEF Spec

\* The ht_asserts of the queues from CPersHti to the blocks: they are not
\* pushed when they are full, since CPersHti has one credit per free entry,
\* and not popped when they are empty by the OBK state machine.
THEOREM OutQueueCorrect == Spec => []OutQueueSafe
<1>1. OutInv => OutQueueSafe
  <2>1. SUFFICES ASSUME OutInv PROVE OutQueueSafe
    OBVIOUS
  <2>2. oBlkState \in {"WR8", "WR64"} => Len(oBlkWrDat) # 0
    BY <2>1, PersAssumption DEF OutInv, Gathered, PersAssumption
  <2>3. oBlkState \in {"WR8", "WR64"} => oBlkWrDat # <<>>
    BY <2>2
  <2> QED BY <2>1, <2>3 DEF OutInv, ClosedFor, OutCredit, OutQueueSafe
<1> QED BY <1>1, OutInvariance, PTL

----------------------------------------------------------------------------
\* The rings of control messages.  Every slot is empty or has a message of
\* the other side.
Slots == 0..CtlQueSize-1
Cmds  == {"avl", "rdy", "user"}
IsMsg(m) == m \in Msgs /\ (m = NoMsg \/ m.cmd \in Cmds)

\* The ring from the host: one slot at most is being cleared, that before the
\* reader's place, and a message being taken is there.
InRing ==
  /\ DOMAIN ctlIn = Slots /\ \A s \in Slots : IsMsg(ctlIn[s])
  /\ iCtlState \in CtlStates /\ iCtlRdIdx \in Slots /\ hInSlot \in Slots
  /\ \A s \in iCtlWr : /\ iCtlWr = {s} /\ s \in Slots /\ ctlIn[s] # NoMsg
                       /\ (s + 1) % CtlQueSize = iCtlRdIdx
  /\ iCtlState = "WRITE" => ctlIn[iCtlRdIdx] # NoMsg

\* The ring to the host: one slot at most is being written, that before the
\* writer's place, and it is empty, as is the slot of the next message.
OutRing ==
  /\ DOMAIN ctlOut = Slots /\ \A s \in Slots : IsMsg(ctlOut[s])
  /\ oCtlState \in CtlStates /\ oCtlWrIdx \in Slots /\ hOutSlot \in Slots
  /\ \A w \in oCtlWr : /\ oCtlWr = {w} /\ w.slot \in Slots /\ w.msg \in Msgs /\ w.msg.cmd \in Cmds
                       /\ ctlOut[w.slot] = NoMsg
                       /\ (w.slot + 1) % CtlQueSize = oCtlWrIdx
  /\ oCtlState = "WRITE" => ctlOut[oCtlWrIdx] = NoMsg
  /\ IsMsg(oCtlWrMsg) /\ htiToHif_ctl \in {NoMsg, UserMsg}
  /\ oBlkSize \in Msgs /\ oBlkSize.cmd = "rdy"

inRing  == <<ctlIn, iCtlState, iCtlRdIdx, iCtlWr, hInSlot>>
outRing == <<ctlOut, oCtlState, oCtlWrIdx, oCtlWr, hOutSlot, oCtlWrMsg, htiToHif_ctl, oBlkSize>>

\* The slot after slot s.
LEMMA NextSlot ==
  ASSUME PersAssumption, NEW s \in Slots
  PROVE  /\ (s + 1) % CtlQueSize \in Slots /\ (s + 1) % CtlQueSize # s
         /\ (s + 1) % CtlQueSize = IF s = CtlQueSize - 1 THEN 0 ELSE s + 1
         /\ 0 \in Slots
<1>1. CtlQueSize \in Nat /\ CtlQueSize > 1 /\ s \in Nat /\ s < CtlQueSize
  BY DEF PersAssumption, Slots
<1>2. CASE s = CtlQueSize - 1
  BY <1>1, <1>2 DEF Slots
<1>3. CASE s # CtlQueSize - 1
  <2>1. s + 1 \in 0..CtlQueSize-1
    BY <1>1, <1>3
  <2>2. (s + 1) % CtlQueSize = s + 1
    BY <1>1, <2>1
  <2> QED BY <1>1, <1>3, <2>1, <2>2 DEF Slots
<1> QED BY <1>2, <1>3

\* The messages there are.
LEMMA MsgCmds ==
  /\ NoMsg.cmd = "none" /\ AvlMsg.cmd = "avl" /\ UserMsg.cmd = "user"
  /\ \A k, n : RdyMsg(k, n).cmd = "rdy" /\ RdyMsg(k, n).ctl = k
  /\ NoMsg.ctl = "DATA" /\ AvlMsg.ctl = "DATA" /\ UserMsg.ctl = "DATA"
  /\ AvlMsg # NoMsg /\ UserMsg # NoMsg /\ \A k, n : RdyMsg(k, n) # NoMsg
  /\ \A m : m.cmd \in Cmds => m # NoMsg
  /\ {NoMsg, AvlMsg, UserMsg} \subseteq Msgs
  /\ \A k \in Ctl, n \in Nat : RdyMsg(k, n) \in Msgs
BY DEF NoMsg, AvlMsg, UserMsg, RdyMsg, Msg, Cmds, Msgs, Ctl

----------------------------------------------------------------------------
\* The reader polls, clears a slot, and the memory answers: what it has not
\* taken stays.
LEMMA InPoll ==
  ASSUME PersAssumption, InRing, IcmRead \/ IcmEmpty \/ IcmWrite \/ IcmWrRsp,
         UNCHANGED hostVars
  PROVE  InRing' /\ Unread' = Unread /\ \A s \in Unread : ctlIn'[s] = ctlIn[s]
<1>1. CASE IcmRead \/ IcmEmpty
  <2>1. /\ UNCHANGED <<ctlIn, iCtlRdIdx, iCtlWr, hInSlot>> /\ iCtlState # "WRITE"
        /\ iCtlState' \in {"READ", "RD_WAIT"}
    BY <1>1 DEF IcmRead, IcmEmpty, mem, hostVars
  <2> QED BY <2>1 DEF InRing, Unread, CtlStates
<1>2. CASE IcmWrite
  <2>1. /\ UNCHANGED <<ctlIn, hInSlot>> /\ iCtlState = "WRITE" /\ iCtlState' = "READ"
        /\ iCtlWr = {} /\ iCtlWr' = {iCtlRdIdx}
        /\ iCtlRdIdx' = (iCtlRdIdx + 1) % CtlQueSize
    BY <1>2 DEF IcmWrite, mem, hostVars
  <2>2. iCtlRdIdx' \in Slots /\ iCtlRdIdx \in Slots
    BY <2>1, NextSlot DEF InRing
  <2> QED BY <2>1, <2>2 DEF InRing, Unread, CtlStates
<1>3. CASE IcmWrRsp
  <2>1. PICK s \in iCtlWr : ctlIn' = [ctlIn EXCEPT ![s] = NoMsg] /\ iCtlWr' = iCtlWr \ {s}
    BY <1>3 DEF IcmWrRsp
  <2>2. UNCHANGED <<iCtlState, iCtlRdIdx, hInSlot>>
    BY <1>3 DEF IcmWrRsp, hostVars
  <2>3. /\ s \in Slots /\ iCtlWr = {s} /\ iCtlWr' = {} /\ s # iCtlRdIdx
    BY <2>1, NextSlot DEF InRing
  <2>4. DOMAIN ctlIn' = Slots /\ ctlIn'[s] = NoMsg /\ \A t \in Slots \ {s} : ctlIn'[t] = ctlIn[t]
    BY <2>1, <2>3 DEF InRing
  <2>5. InRing'
    BY <2>2, <2>3, <2>4, MsgCmds DEF InRing, IsMsg
  <2>6. Unread' = Unread
    BY <2>2, <2>3, <2>4 DEF InRing, Unread
  <2>7. \A t \in Unread : ctlIn'[t] = ctlIn[t]
    BY <2>3, <2>4 DEF InRing, Unread
  <2> QED BY <2>5, <2>6, <2>7
<1> QED BY <1>1, <1>2, <1>3

\* A message is taken.
LEMMA InTake ==
  ASSUME PersAssumption, InRing, NEW cmd \in Cmds, IcmTake(cmd), UNCHANGED hostVars
  PROVE  /\ InRing' /\ ctlIn' = ctlIn /\ iCtlRdIdx \in Unread /\ ctlIn[iCtlRdIdx].cmd = cmd
         /\ Unread' = Unread \ {iCtlRdIdx}
<1>1. /\ UNCHANGED <<ctlIn, iCtlRdIdx, iCtlWr, hInSlot>> /\ iCtlState = "RD_WAIT"
      /\ iCtlState' = "WRITE" /\ ctlIn[iCtlRdIdx].cmd = cmd
  BY DEF IcmTake, mem, hostVars
<1>2. ctlIn[iCtlRdIdx] # NoMsg
  BY <1>1, MsgCmds
<1>3. iCtlRdIdx \in Slots /\ iCtlRdIdx \notin iCtlWr
  BY NextSlot DEF InRing
<1>4. InRing'
  BY <1>1, <1>2 DEF InRing, CtlStates
<1> QED BY <1>1, <1>2, <1>3, <1>4 DEF InRing, Unread

\* The host writes a message.
LEMMA InPut ==
  ASSUME PersAssumption, InRing, NEW m \in Msgs, m.cmd \in Cmds, HostMsg(m)
  PROVE  /\ InRing' /\ hInSlot \notin Unread /\ Unread' = Unread \cup {hInSlot}
         /\ ctlIn'[hInSlot] = m /\ \A s \in Unread : ctlIn'[s] = ctlIn[s]
<1>1. /\ ctlIn[hInSlot] = NoMsg /\ ctlIn' = [ctlIn EXCEPT ![hInSlot] = m]
      /\ hInSlot' = (hInSlot + 1) % CtlQueSize /\ UNCHANGED icm
  BY DEF HostMsg
<1>2. hInSlot \in Slots /\ hInSlot' \in Slots
  BY <1>1, NextSlot DEF InRing
<1>3. DOMAIN ctlIn' = Slots /\ ctlIn'[hInSlot] = m
      /\ \A t \in Slots \ {hInSlot} : ctlIn'[t] = ctlIn[t]
  BY <1>1, <1>2 DEF InRing
<1>4. m # NoMsg
  BY MsgCmds
<1>5. hInSlot \notin iCtlWr /\ (iCtlState = "WRITE" => hInSlot # iCtlRdIdx)
  BY <1>1 DEF InRing
<1>6. InRing'
  BY <1>1, <1>2, <1>3, <1>4, <1>5 DEF InRing, IsMsg, icm
<1>7. Unread' = Unread \cup {hInSlot}
  BY <1>1, <1>2, <1>3, <1>4, <1>5 DEF InRing, Unread, icm
<1> QED BY <1>1, <1>3, <1>6, <1>7 DEF InRing, Unread

\* The reset finds the reader at rest.
LEMMA InReset ==
  ASSUME PersAssumption, InRing, Idle, UNCHANGED hostVars
  PROVE  InRing' /\ Unread' = Unread /\ ctlIn' = ctlIn
<1>1. /\ UNCHANGED <<ctlIn, hInSlot>> /\ iCtlState = "READ" /\ iCtlWr = {}
      /\ iCtlState' = "READ" /\ iCtlWr' = {} /\ iCtlRdIdx' = 0
  BY DEF Idle, IdleNow, mem, hostVars
<1>2. 0 \in Slots
  BY NextSlot DEF InRing
<1> QED BY <1>1, <1>2 DEF InRing, Unread, CtlStates

\* The ring from the host is not touched.
LEMMA InStays ==
  ASSUME InRing, UNCHANGED inRing
  PROVE  InRing' /\ Unread' = Unread /\ ctlIn' = ctlIn
BY DEF InRing, Unread, inRing

----------------------------------------------------------------------------
\* The outbound machine looks for an open slot, and the memory writes one: a
\* message on its way stays on its way.
LEMMA OutChosen ==
  ASSUME OutRing, Select, UNCHANGED oBlkSize
  PROVE  /\ oCtlWrMsg' \in Msgs /\ oCtlWrMsg'.cmd \in Cmds /\ htiToHif_ctl' \in {NoMsg, UserMsg}
         /\ oBlkSize' \in Msgs /\ oBlkSize'.cmd = "rdy"
<1>1. CASE SelectBlk
  BY <1>1 DEF SelectBlk, OutRing, Cmds
<1>2. CASE SelectAvl
  BY <1>2, MsgCmds DEF SelectAvl, OutRing, Cmds
<1>3. CASE SelectCtl
  BY <1>3, MsgCmds DEF SelectCtl, OutRing, Cmds
<1> QED BY <1>1, <1>2, <1>3 DEF Select

\* A count of slots: it is of a finite set, and grows by one, shrinks by one.
SlotSet(ring, S, c) == {s \in S : ring[s].cmd = c}

\* The slots with a message of one kind are finitely many.
LEMMA SlotsFinite ==
  ASSUME PersAssumption, NEW S \in SUBSET Slots, NEW ring, NEW c
  PROVE  /\ IsFiniteSet(SlotSet(ring, S, c)) /\ SlotsWith(ring, S, c) \in Nat
<1>1. IsFiniteSet(Slots)
  BY FS_Interval DEF Slots, PersAssumption
<1>2. SlotSet(ring, S, c) \in SUBSET Slots
  BY DEF SlotSet
<1>3. IsFiniteSet(SlotSet(ring, S, c))
  BY <1>1, <1>2, FS_Subset
<1>4. SlotsWith(ring, S, c) = Cardinality(SlotSet(ring, S, c))
  BY DEF SlotsWith, SlotSet
<1> QED BY <1>3, <1>4, FS_CardinalityType

\* The same messages, the same count.
LEMMA SlotsSame ==
  ASSUME NEW S, NEW r1, NEW r2, NEW c, \A s \in S : r2[s].cmd = r1[s].cmd
  PROVE  SlotsWith(r2, S, c) = SlotsWith(r1, S, c)
<1>1. {s \in S : r2[s].cmd = c} = {s \in S : r1[s].cmd = c}
  OBVIOUS
<1> QED BY <1>1 DEF SlotsWith

\* A slot more.
LEMMA SlotsMore ==
  ASSUME PersAssumption, NEW S \in SUBSET Slots, NEW x \in Slots, x \notin S, NEW c,
         NEW r1, NEW r2, \A s \in S : r2[s].cmd = r1[s].cmd
  PROVE  SlotsWith(r2, S \cup {x}, c) =
           IF r2[x].cmd = c THEN SlotsWith(r1, S, c) + 1 ELSE SlotsWith(r1, S, c)
<1> DEFINE A == SlotSet(r1, S, c)
           B == SlotSet(r2, S \cup {x}, c)
<1>1. IsFiniteSet(A)
  BY SlotsFinite
<1>2. CASE r2[x].cmd = c
  <2>1. B = A \cup {x} /\ x \notin A
    BY <1>2 DEF SlotSet
  <2> HIDE DEF A, B
  <2>2. Cardinality(B) = Cardinality(A) + 1
    BY <1>1, <2>1, FS_AddElement
  <2> QED BY <1>2, <2>2 DEF SlotsWith, SlotSet, A, B
<1>3. CASE r2[x].cmd # c
  <2>1. B = A
    BY <1>3 DEF SlotSet
  <2> QED BY <1>3, <2>1 DEF SlotsWith, SlotSet
<1> QED BY <1>2, <1>3

\* A slot less.
LEMMA SlotsLess ==
  ASSUME PersAssumption, NEW S \in SUBSET Slots, NEW x \in S, NEW ring, NEW c
  PROVE  SlotsWith(ring, S, c) =
           IF ring[x].cmd = c THEN SlotsWith(ring, S \ {x}, c) + 1
                              ELSE SlotsWith(ring, S \ {x}, c)
<1>1. S \ {x} \in SUBSET Slots /\ x \in Slots /\ x \notin S \ {x} /\ (S \ {x}) \cup {x} = S
  OBVIOUS
<1> QED BY <1>1, SlotsMore

\* The count of the messages not taken, by the three things that happen.
LEMMA UnreadType ==
  ASSUME PersAssumption, InRing, NEW CONSTANT c
  PROVE  SlotsWith(ctlIn, Unread, c) \in Nat /\ Unread \in SUBSET Slots
<1>1. Unread \in SUBSET Slots
  BY DEF Unread, InRing
<1> QED BY <1>1, SlotsFinite

\* The count of the messages not taken stays,
LEMMA UnreadStays ==
  ASSUME NEW CONSTANT c, Unread' = Unread, \A s \in Unread : ctlIn'[s] = ctlIn[s]
  PROVE  SlotsWith(ctlIn, Unread, c)' = SlotsWith(ctlIn, Unread, c)
<1>1. SlotsWith(ctlIn', Unread, c) = SlotsWith(ctlIn, Unread, c)
  BY SlotsSame
<1> QED BY <1>1 DEF SlotsWith

\* falls when one is taken,
LEMMA UnreadTaken ==
  ASSUME PersAssumption, InRing, NEW CONSTANT c, ctlIn' = ctlIn,
         NEW s \in Unread, Unread' = Unread \ {s}
  PROVE  SlotsWith(ctlIn, Unread, c) =
           IF ctlIn[s].cmd = c THEN SlotsWith(ctlIn, Unread, c)' + 1
                               ELSE SlotsWith(ctlIn, Unread, c)'
<1>1. Unread \in SUBSET Slots
  BY UnreadType
<1>2. SlotsWith(ctlIn, Unread, c)' = SlotsWith(ctlIn, Unread \ {s}, c)
  BY DEF SlotsWith
<1> QED BY <1>1, <1>2, SlotsLess

\* and grows when the host writes one.
LEMMA UnreadPut ==
  ASSUME PersAssumption, InRing, NEW CONSTANT c, NEW x \in Slots, x \notin Unread,
         Unread' = Unread \cup {x}, \A s \in Unread : ctlIn'[s] = ctlIn[s]
  PROVE  SlotsWith(ctlIn, Unread, c)' =
           IF ctlIn'[x].cmd = c THEN SlotsWith(ctlIn, Unread, c) + 1
                                ELSE SlotsWith(ctlIn, Unread, c)
<1>1. Unread \in SUBSET Slots
  BY UnreadType
<1>2. SlotsWith(ctlIn, Unread, c)' = SlotsWith(ctlIn', Unread \cup {x}, c)
  BY DEF SlotsWith
<1> QED BY <1>1, <1>2, SlotsMore

----------------------------------------------------------------------------
\* The messages on their way to the host: chosen, being written, written.
LEMMA WrittenCount ==
  ASSUME OutRing, NEW CONSTANT c
  PROVE  LET n == Cardinality({w \in oCtlWr : w.msg.cmd = c}) IN
         n \in Nat /\ (oCtlWr = {} => n = 0)
                   /\ \A w \in oCtlWr : n = IF w.msg.cmd = c THEN 1 ELSE 0
<1> DEFINE W == {w \in oCtlWr : w.msg.cmd = c}
<1>1. CASE oCtlWr = {}
  <2>1. W = {}
    BY <1>1
  <2> QED BY <1>1, <2>1, FS_EmptySet
<1>2. ASSUME NEW w \in oCtlWr PROVE Cardinality(W) = IF w.msg.cmd = c THEN 1 ELSE 0
  <2>1. oCtlWr = {w}
    BY <1>2 DEF OutRing
  <2>2. CASE w.msg.cmd = c
    <3>1. W = {w}
      BY <2>1, <2>2
    <3> QED BY <2>2, <3>1, FS_Singleton
  <2>3. CASE w.msg.cmd # c
    <3>1. W = {}
      BY <2>1, <2>3
    <3> QED BY <2>3, <3>1, FS_EmptySet
  <2> QED BY <2>2, <2>3
<1> QED BY <1>1, <1>2

\* The count of the messages on their way to the host.
LEMMA WayType ==
  ASSUME PersAssumption, OutRing, NEW CONSTANT c
  PROVE  /\ OnTheWay(c) \in Nat /\ SlotsWith(ctlOut, DOMAIN ctlOut, c) \in Nat
         /\ Cardinality({w \in oCtlWr : w.msg.cmd = c}) \in Nat
<1>1. SlotsWith(ctlOut, DOMAIN ctlOut, c) \in Nat
  BY SlotsFinite DEF OutRing
<1>2. Cardinality({w \in oCtlWr : w.msg.cmd = c}) \in Nat
  BY WrittenCount
<1> QED BY <1>1, <1>2 DEF OnTheWay

\* It stays while the ring to the host is not touched.
LEMMA WayStays ==
  ASSUME OutRing, UNCHANGED outRing
  PROVE  OutRing' /\ \A c : OnTheWay(c)' = OnTheWay(c)
BY DEF OutRing, OnTheWay, SlotsWith, outRing

\* A look for an open slot.
LEMMA WayLook ==
  ASSUME PersAssumption, OutRing, OcmRead \/ OcmRdWait, UNCHANGED hostVars
  PROVE  OutRing' /\ \A c : OnTheWay(c)' = OnTheWay(c)
<1>1. UNCHANGED <<ctlOut, oCtlWrIdx, oCtlWr, hOutSlot, oCtlWrMsg, htiToHif_ctl, oBlkSize>>
  BY DEF OcmRead, OcmRdWait, mem, ctlTo, oSend, hostVars
<1>2. oCtlState' \in CtlStates /\ (oCtlState' = "WRITE" => ctlOut[oCtlWrIdx] = NoMsg)
  BY DEF OcmRead, OcmRdWait, CtlStates
<1> QED BY <1>1, <1>2 DEF OutRing, OnTheWay, SlotsWith

\* The message chosen is on its way; what is written is.
LEMMA WaySelect ==
  ASSUME PersAssumption, OutRing, OcmSelect, UNCHANGED hostVars, NEW CONSTANT c \in Cmds
  PROVE  /\ OutRing' /\ oCtlWrMsg'.cmd \in Cmds
         /\ OnTheWay(c)' = IF oCtlWrMsg'.cmd = c THEN OnTheWay(c) + 1 ELSE OnTheWay(c)
<1>1. oCtlWrMsg = NoMsg /\ Select
      /\ UNCHANGED <<ctlOut, oCtlState, oCtlWrIdx, oCtlWr, hOutSlot, oBlkSize>>
  BY DEF OcmSelect, mem, ocm, hostVars
<1>2. /\ oCtlWrMsg' \in Msgs /\ oCtlWrMsg'.cmd \in Cmds /\ htiToHif_ctl' \in {NoMsg, UserMsg}
      /\ oBlkSize' \in Msgs /\ oBlkSize'.cmd = "rdy"
  BY <1>1, OutChosen
<1>3. OutRing'
  BY <1>1, <1>2 DEF OutRing, IsMsg
<1>4. oCtlWrMsg.cmd # c
  BY <1>1, MsgCmds DEF Cmds
<1>5. /\ SlotsWith(ctlOut, DOMAIN ctlOut, c)' = SlotsWith(ctlOut, DOMAIN ctlOut, c)
      /\ Cardinality({w \in oCtlWr : w.msg.cmd = c})' = Cardinality({w \in oCtlWr : w.msg.cmd = c})
  BY <1>1 DEF SlotsWith
<1>6. OnTheWay(c)' = IF oCtlWrMsg'.cmd = c THEN OnTheWay(c) + 1 ELSE OnTheWay(c)
  BY <1>4, <1>5, WayType DEF OnTheWay
<1> QED BY <1>2, <1>3, <1>6

\* The message before is being written, the next one is chosen, if any.
LEMMA WayWrite ==
  ASSUME PersAssumption, OutRing, OcmWrite, UNCHANGED hostVars, NEW CONSTANT c \in Cmds
  PROVE  /\ OutRing' /\ (Select \/ oCtlWrMsg' = NoMsg)
         /\ OnTheWay(c)' = IF oCtlWrMsg'.cmd = c THEN OnTheWay(c) + 1 ELSE OnTheWay(c)
<1>1. /\ oCtlState = "WRITE" /\ oCtlWr = {} /\ oCtlWrMsg # NoMsg
      /\ oCtlWr' = {[slot |-> oCtlWrIdx, msg |-> oCtlWrMsg]}
      /\ oCtlWrIdx' = (oCtlWrIdx + 1) % CtlQueSize /\ oCtlState' = "READ"
      /\ UNCHANGED <<ctlOut, hOutSlot, oBlkSize>>
  BY DEF OcmWrite, mem, hostVars
<1>2. \/ Select
      \/ oCtlWrMsg' = NoMsg /\ UNCHANGED htiToHif_ctl
  BY DEF OcmWrite
<1>3. /\ IsMsg(oCtlWrMsg') /\ htiToHif_ctl' \in {NoMsg, UserMsg}
      /\ oBlkSize' \in Msgs /\ oBlkSize'.cmd = "rdy"
  <2>1. CASE Select
    BY <1>1, <2>1, OutChosen DEF IsMsg
  <2>2. CASE oCtlWrMsg' = NoMsg /\ UNCHANGED htiToHif_ctl
    BY <1>1, <2>2, MsgCmds DEF IsMsg, OutRing
  <2> QED BY <1>2, <2>1, <2>2
<1>4. oCtlWrMsg \in Msgs /\ oCtlWrMsg.cmd \in Cmds /\ ctlOut[oCtlWrIdx] = NoMsg
  BY <1>1 DEF OutRing, IsMsg
<1>5. oCtlWrIdx' \in Slots /\ oCtlWrIdx \in Slots
  BY <1>1, NextSlot DEF OutRing
<1>6. OutRing'
  BY <1>1, <1>3, <1>4, <1>5 DEF OutRing, CtlStates
<1> DEFINE old == Cardinality({w \in oCtlWr : w.msg.cmd = c})
           slots == SlotsWith(ctlOut, DOMAIN ctlOut, c)
<1>7. old = 0 /\ slots \in Nat /\ slots' = slots
  BY <1>1, WrittenCount, WayType DEF SlotsWith
<1>8. old' = IF oCtlWrMsg.cmd = c THEN 1 ELSE 0
  <2>1. CASE oCtlWrMsg.cmd = c
    <3>1. {w \in oCtlWr' : w.msg.cmd = c} = {[slot |-> oCtlWrIdx, msg |-> oCtlWrMsg]}
      BY <1>1, <2>1
    <3> QED BY <2>1, <3>1, FS_Singleton
  <2>2. CASE oCtlWrMsg.cmd # c
    <3>1. {w \in oCtlWr' : w.msg.cmd = c} = {}
      BY <1>1, <2>2
    <3> QED BY <2>2, <3>1, FS_EmptySet
  <2> QED BY <2>1, <2>2
<1>9. /\ OnTheWay(c) = slots + old + (IF oCtlWrMsg.cmd = c THEN 1 ELSE 0)
      /\ OnTheWay(c)' = slots' + old' + (IF oCtlWrMsg'.cmd = c THEN 1 ELSE 0)
  BY DEF OnTheWay
<1>10. OnTheWay(c)' = IF oCtlWrMsg'.cmd = c THEN OnTheWay(c) + 1 ELSE OnTheWay(c)
  <2> HIDE DEF old, slots
  <2> QED BY <1>7, <1>8, <1>9
<1> QED BY <1>2, <1>6, <1>10

\* The memory has written it: the host may see it.
LEMMA WayWritten ==
  ASSUME PersAssumption, OutRing, OcmWrRsp, UNCHANGED hostVars, NEW CONSTANT c \in Cmds
  PROVE  OutRing' /\ OnTheWay(c)' = OnTheWay(c)
<1>1. PICK w \in oCtlWr : /\ ctlOut' = [ctlOut EXCEPT ![w.slot] = w.msg]
                          /\ oCtlWr' = oCtlWr \ {w}
  BY DEF OcmWrRsp
<1>2. UNCHANGED <<oCtlState, oCtlWrIdx, hOutSlot, oCtlWrMsg, htiToHif_ctl, oBlkSize>>
  BY DEF OcmWrRsp, ctlTo, oSend, hostVars
<1>3. /\ oCtlWr = {w} /\ oCtlWr' = {} /\ w.slot \in Slots /\ w.msg \in Msgs /\ w.msg.cmd \in Cmds
      /\ ctlOut[w.slot] = NoMsg /\ w.slot # oCtlWrIdx
  BY <1>1, NextSlot DEF OutRing
<1>4. /\ DOMAIN ctlOut = Slots /\ DOMAIN ctlOut' = Slots /\ ctlOut'[w.slot] = w.msg
      /\ \A t \in Slots \ {w.slot} : ctlOut'[t] = ctlOut[t]
  BY <1>1, <1>3 DEF OutRing
<1>5. OutRing'
  BY <1>2, <1>3, <1>4 DEF OutRing, IsMsg
<1> DEFINE rest == SlotsWith(ctlOut, Slots \ {w.slot}, c)
           slots == SlotsWith(ctlOut, DOMAIN ctlOut, c)
           writes == Cardinality({v \in oCtlWr : v.msg.cmd = c})
<1>6. slots = rest
  <2>1. Slots \in SUBSET Slots /\ NoMsg.cmd # c
    BY MsgCmds DEF Cmds
  <2> QED BY <1>3, <1>4, <2>1, SlotsLess
<1>7. slots' = IF w.msg.cmd = c THEN rest + 1 ELSE rest
  <2>1. Slots \ {w.slot} \in SUBSET Slots /\ w.slot \notin Slots \ {w.slot}
        /\ (Slots \ {w.slot}) \cup {w.slot} = Slots
    BY <1>3
  <2>2. SlotsWith(ctlOut', Slots, c) = IF w.msg.cmd = c THEN rest + 1 ELSE rest
    <3> DEFINE S == Slots \ {w.slot}
    <3>1. S \in SUBSET Slots /\ w.slot \in Slots /\ w.slot \notin S /\ S \cup {w.slot} = Slots
          /\ \A t \in S : ctlOut'[t].cmd = ctlOut[t].cmd
      BY <1>3, <1>4, <2>1
    <3> HIDE DEF S
    <3>2. SlotsWith(ctlOut', S \cup {w.slot}, c) =
            IF ctlOut'[w.slot].cmd = c THEN SlotsWith(ctlOut, S, c) + 1 ELSE SlotsWith(ctlOut, S, c)
      BY <3>1, SlotsMore
    <3> QED BY <1>4, <3>1, <3>2 DEF S
  <2>3. slots' = SlotsWith(ctlOut', Slots, c)
    BY <1>4 DEF SlotsWith
  <2> QED BY <2>2, <2>3
<1>8. writes = (IF w.msg.cmd = c THEN 1 ELSE 0) /\ writes' = 0
  <2>1. writes = IF w.msg.cmd = c THEN 1 ELSE 0
    BY WrittenCount
  <2>2. writes' = 0
    BY <1>3, <1>5, FS_EmptySet
  <2> QED BY <2>1, <2>2
<1>9. rest \in Nat
  BY <1>6, WayType
<1>10. /\ OnTheWay(c) = slots + writes + (IF oCtlWrMsg.cmd = c THEN 1 ELSE 0)
       /\ OnTheWay(c)' = slots' + writes' + (IF oCtlWrMsg.cmd = c THEN 1 ELSE 0)
  BY <1>2 DEF OnTheWay
<1>11. OnTheWay(c)' = OnTheWay(c)
  <2> HIDE DEF rest, slots, writes
  <2> QED BY <1>6, <1>7, <1>8, <1>9, <1>10
<1> QED BY <1>5, <1>11

\* The host takes a message.
LEMMA WayRecv ==
  ASSUME PersAssumption, OutRing, HostRecv, NEW CONSTANT c \in Cmds
  PROVE  /\ OutRing' /\ ctlOut[hOutSlot].cmd \in Cmds
         /\ OnTheWay(c)' \in Nat
         /\ OnTheWay(c) = IF ctlOut[hOutSlot].cmd = c THEN OnTheWay(c)' + 1 ELSE OnTheWay(c)'
<1>1. /\ ctlOut[hOutSlot] # NoMsg /\ ctlOut' = [ctlOut EXCEPT ![hOutSlot] = NoMsg]
      /\ hOutSlot' = (hOutSlot + 1) % CtlQueSize
      /\ UNCHANGED <<ocm, oCtlWrMsg, htiToHif_ctl, oBlkSize>>
  BY DEF HostRecv, ctlTo, oSend
<1>2. hOutSlot \in Slots /\ hOutSlot' \in Slots /\ ctlOut[hOutSlot].cmd \in Cmds
  BY <1>1, NextSlot DEF OutRing, IsMsg
<1>3. /\ DOMAIN ctlOut = Slots /\ DOMAIN ctlOut' = Slots /\ ctlOut'[hOutSlot] = NoMsg
      /\ \A t \in Slots \ {hOutSlot} : ctlOut'[t] = ctlOut[t]
  BY <1>1, <1>2 DEF OutRing
<1>4. OutRing'
  BY <1>1, <1>2, <1>3, MsgCmds DEF OutRing, IsMsg, ocm
<1> DEFINE rest == SlotsWith(ctlOut, Slots \ {hOutSlot}, c)
           slots == SlotsWith(ctlOut, DOMAIN ctlOut, c)
           writes == Cardinality({v \in oCtlWr : v.msg.cmd = c})
<1>5. slots = IF ctlOut[hOutSlot].cmd = c THEN rest + 1 ELSE rest
  <2>1. Slots \in SUBSET Slots
    OBVIOUS
  <2> QED BY <1>2, <1>3, <2>1, SlotsLess
<1>6. slots' = rest
  <2>1. Slots \ {hOutSlot} \in SUBSET Slots /\ hOutSlot \notin Slots \ {hOutSlot}
        /\ (Slots \ {hOutSlot}) \cup {hOutSlot} = Slots /\ NoMsg.cmd # c
    BY <1>2, MsgCmds DEF Cmds
  <2>2. SlotsWith(ctlOut', Slots, c) = rest
    <3> DEFINE S == Slots \ {hOutSlot}
    <3>1. S \in SUBSET Slots /\ hOutSlot \in Slots /\ hOutSlot \notin S /\ S \cup {hOutSlot} = Slots
          /\ \A t \in S : ctlOut'[t].cmd = ctlOut[t].cmd
      BY <1>2, <1>3, <2>1
    <3> HIDE DEF S
    <3>2. SlotsWith(ctlOut', S \cup {hOutSlot}, c) =
            IF ctlOut'[hOutSlot].cmd = c THEN SlotsWith(ctlOut, S, c) + 1 ELSE SlotsWith(ctlOut, S, c)
      BY <3>1, SlotsMore
    <3> QED BY <1>3, <2>1, <3>1, <3>2 DEF S
  <2>3. slots' = SlotsWith(ctlOut', Slots, c)
    BY <1>3 DEF SlotsWith
  <2> QED BY <2>2, <2>3
<1>7. writes' = writes /\ writes \in Nat /\ rest \in Nat
  <2>1. writes \in Nat
    BY WayType
  <2>2. Slots \ {hOutSlot} \in SUBSET Slots
    OBVIOUS
  <2> QED BY <1>1, <2>1, <2>2, SlotsFinite DEF ocm
<1>8. /\ OnTheWay(c) = slots + writes + (IF oCtlWrMsg.cmd = c THEN 1 ELSE 0)
      /\ OnTheWay(c)' = slots' + writes' + (IF oCtlWrMsg.cmd = c THEN 1 ELSE 0)
  BY <1>1 DEF OnTheWay
<1>n. OnTheWay(c)' \in Nat
  <2> HIDE DEF rest, slots, writes
  <2> QED BY <1>6, <1>7, <1>8
<1>9. OnTheWay(c) = IF ctlOut[hOutSlot].cmd = c THEN OnTheWay(c)' + 1 ELSE OnTheWay(c)'
  <2> HIDE DEF rest, slots, writes
  <2> QED BY <1>5, <1>6, <1>7, <1>8
<1> QED BY <1>2, <1>4, <1>n, <1>9

\* The reset finds no message being written.
LEMMA WayReset ==
  ASSUME PersAssumption, OutRing, Idle, UNCHANGED hostVars
  PROVE  OutRing'
<1>1. /\ UNCHANGED <<ctlOut, hOutSlot>> /\ oCtlState' = "READ" /\ oCtlWr' = {} /\ oCtlWrIdx' = 0
      /\ oCtlWrMsg' = NoMsg /\ htiToHif_ctl' = NoMsg /\ oBlkSize' = RdyMsg("DATA", 0)
  BY DEF Idle, mem, hostVars
<1>2. 0 \in Slots
  BY NextSlot DEF OutRing
<1>3. RdyMsg("DATA", 0) \in Msgs
  BY MsgCmds DEF Ctl
<1> QED BY <1>1, <1>2, <1>3, MsgCmds DEF OutRing, CtlStates, IsMsg

----------------------------------------------------------------------------
\* The blocks.  Every block of the host is credit of the host, announced (in
\* the ring or the queue), being fetched, to be given back, or on its way
\* back; every block of the unit is with it, being filled, to be announced, on
\* its way, with the host or on its way back.  What the reset forgets is gone.
NotTaken(c) == SlotsWith(ctlIn, Unread, c)
InHeld  == IF iBlkState = "IDLE" THEN 0 ELSE 1
InBack  == IF iBlkSendAvl THEN 1 ELSE 0
OutHeld == IF oBlkState = "IDLE" THEN 0 ELSE 1
OutDone == IF oBlkSendRdy THEN 1 ELSE 0
InSum  == hInAvl + NotTaken("rdy") + Len(iBlkRdyQue) + InHeld + InBack + OnTheWay("avl")
OutSum == oBlkAvlCnt + OutHeld + OutDone + OnTheWay("rdy") + hOwe + NotTaken("avl")

BlkTypes ==
  /\ hInAvl \in Nat /\ hOwe \in Nat /\ oBlkAvlCnt \in Nat /\ iBlkRdyQue \in Seq(Msgs)
  /\ iBlkState \in {"IDLE", "READ", "WAIT"} /\ {iBlkSendAvl, oBlkSendRdy, busy} \subseteq BOOLEAN
  /\ iBlkState # "IDLE" => ~iBlkSendAvl

Sums ==
  /\ InSum <= IBlkCnt /\ OutSum <= OBlkCnt
  /\ busy => InSum = IBlkCnt /\ OutSum = OBlkCnt

BlkInv == InRing /\ OutRing /\ BlkTypes /\ Sums

blkPart == <<hInAvl, hOwe, oBlkAvlCnt, iBlkRdyQue, iBlkState, iBlkSendAvl, oBlkState,
             oBlkSendRdy, busy>>

\* The numbers the sums are made of.
LEMMA SumTypes ==
  ASSUME PersAssumption, InRing, OutRing, BlkTypes
  PROVE  /\ hInAvl \in Nat /\ hOwe \in Nat /\ oBlkAvlCnt \in Nat /\ Len(iBlkRdyQue) \in Nat
         /\ NotTaken("rdy") \in Nat /\ NotTaken("avl") \in Nat
         /\ OnTheWay("rdy") \in Nat /\ OnTheWay("avl") \in Nat
         /\ IBlkCnt \in Nat /\ OBlkCnt \in Nat
         /\ iBlkState \in {"IDLE", "READ", "WAIT"} /\ iBlkSendAvl \in BOOLEAN /\ oBlkSendRdy \in BOOLEAN
         /\ busy \in BOOLEAN
         /\ InHeld \in Nat /\ InBack \in Nat /\ OutHeld \in Nat /\ OutDone \in Nat
<1>1. NotTaken("rdy") \in Nat /\ NotTaken("avl") \in Nat
  BY UnreadType DEF NotTaken
<1>2. OnTheWay("rdy") \in Nat /\ OnTheWay("avl") \in Nat
  BY WayType
<1>3. InHeld \in Nat /\ InBack \in Nat /\ OutHeld \in Nat /\ OutDone \in Nat
  BY DEF InHeld, InBack, OutHeld, OutDone
<1> QED BY <1>1, <1>2, <1>3, LenProperties DEF BlkTypes, PersAssumption

\* The ring from the host is not touched, or that to the host is not.
LEMMA InSame ==
  ASSUME InRing, UNCHANGED inRing
  PROVE  /\ InRing' /\ Unread' = Unread /\ ctlIn' = ctlIn
         /\ NotTaken("rdy")' = NotTaken("rdy") /\ NotTaken("avl")' = NotTaken("avl")
BY InStays, UnreadStays DEF NotTaken

\* The ring to the host is not touched.
LEMMA OutSame ==
  ASSUME OutRing, UNCHANGED outRing
  PROVE  OutRing' /\ OnTheWay("rdy")' = OnTheWay("rdy") /\ OnTheWay("avl")' = OnTheWay("avl")
BY WayStays

\* Nothing of the sums changes.
LEMMA SumsStay ==
  ASSUME PersAssumption, BlkInv, InRing', OutRing', UNCHANGED blkPart,
         NotTaken("rdy")' = NotTaken("rdy"), NotTaken("avl")' = NotTaken("avl"),
         OnTheWay("rdy")' = OnTheWay("rdy"), OnTheWay("avl")' = OnTheWay("avl")
  PROVE  BlkInv'
BY DEF BlkInv, BlkTypes, Sums, InSum, OutSum, InHeld, InBack, OutHeld, OutDone, blkPart

\* The reader of the host's ring.
LEMMA IcmKeepsSums ==
  ASSUME PersAssumption, BlkInv, IcmNext, UNCHANGED hostVars
  PROVE  BlkInv'
<1>o. /\ UNCHANGED outRing /\ UNCHANGED <<hInAvl, hOwe, iBlkState, iBlkSendAvl, oBlkState, oBlkSendRdy, busy>>
  BY DEF IcmNext, IcmRead, IcmEmpty, IcmTake, IcmUser, IcmRdy, IcmAvl, IcmWrite, IcmWrRsp,
         outRing, mem, ocm, ctlTo, iAvl, ibk, iRd, obk, oSend, hostVars
<1>w. OutRing' /\ OnTheWay("rdy")' = OnTheWay("rdy") /\ OnTheWay("avl")' = OnTheWay("avl")
  BY <1>o, OutSame DEF BlkInv
<1>t. InRing /\ OutRing /\ BlkTypes /\ Sums
  BY DEF BlkInv
<1>n. /\ hInAvl \in Nat /\ hOwe \in Nat /\ oBlkAvlCnt \in Nat /\ Len(iBlkRdyQue) \in Nat
      /\ NotTaken("rdy") \in Nat /\ NotTaken("avl") \in Nat
      /\ OnTheWay("rdy") \in Nat /\ OnTheWay("avl") \in Nat
      /\ IBlkCnt \in Nat /\ OBlkCnt \in Nat
  BY <1>t, SumTypes
<1>1. CASE IcmRead \/ IcmEmpty \/ IcmWrite \/ IcmWrRsp
  <2>1. InRing' /\ Unread' = Unread /\ \A s \in Unread : ctlIn'[s] = ctlIn[s]
    BY <1>1, <1>t, InPoll
  <2>2. NotTaken("rdy")' = NotTaken("rdy") /\ NotTaken("avl")' = NotTaken("avl")
    BY <2>1, UnreadStays DEF NotTaken
  <2>3. UNCHANGED blkPart
    BY <1>1, <1>o DEF IcmRead, IcmEmpty, IcmWrite, IcmWrRsp, iAvl, obk, blkPart
  <2> QED BY <1>w, <2>1, <2>2, <2>3, SumsStay
<1>2. ASSUME NEW cmd \in Cmds, IcmTake(cmd)
      PROVE  /\ InRing' /\ ctlIn[iCtlRdIdx] \in Msgs
             /\ NotTaken("rdy") = NotTaken("rdy")' + (IF cmd = "rdy" THEN 1 ELSE 0)
             /\ NotTaken("avl") = NotTaken("avl")' + (IF cmd = "avl" THEN 1 ELSE 0)
             /\ NotTaken("rdy")' \in Nat /\ NotTaken("avl")' \in Nat
  <2>1. /\ InRing' /\ ctlIn' = ctlIn /\ iCtlRdIdx \in Unread /\ ctlIn[iCtlRdIdx].cmd = cmd
        /\ Unread' = Unread \ {iCtlRdIdx}
    BY <1>2, <1>t, InTake
  <2>2. NotTaken("rdy")' \in Nat /\ NotTaken("avl")' \in Nat
    <3>1. Unread' \in SUBSET Slots
      BY <2>1, <1>t, UnreadType
    <3>2. SlotsWith(ctlIn', Unread', "rdy") \in Nat /\ SlotsWith(ctlIn', Unread', "avl") \in Nat
      BY <3>1, SlotsFinite
    <3> QED BY <3>2 DEF NotTaken, SlotsWith
  <2>3. /\ NotTaken("rdy") = IF cmd = "rdy" THEN NotTaken("rdy")' + 1 ELSE NotTaken("rdy")'
        /\ NotTaken("avl") = IF cmd = "avl" THEN NotTaken("avl")' + 1 ELSE NotTaken("avl")'
    BY <2>1, <1>t, UnreadTaken DEF NotTaken
  <2>4. ctlIn[iCtlRdIdx] \in Msgs
    BY <1>t DEF InRing, IsMsg
  <2> QED BY <2>1, <2>2, <2>3, <2>4
<1>3. CASE IcmUser
  <2>1. IcmTake("user") /\ UNCHANGED <<iBlkRdyQue, oBlkAvlCnt>>
    BY <1>3 DEF IcmUser
  <2>2. InRing' /\ NotTaken("rdy")' = NotTaken("rdy") /\ NotTaken("avl")' = NotTaken("avl")
    BY <2>1, <1>2, <1>n DEF Cmds
  <2>3. UNCHANGED blkPart
    BY <2>1, <1>o DEF blkPart
  <2> QED BY <1>w, <2>2, <2>3, SumsStay
<1>4. CASE IcmRdy
  <2>1. IcmTake("rdy") /\ UNCHANGED oBlkAvlCnt /\ iBlkRdyQue' = Append(iBlkRdyQue, ctlIn[iCtlRdIdx])
    BY <1>4 DEF IcmRdy
  <2>2. /\ InRing' /\ NotTaken("rdy") = NotTaken("rdy")' + 1 /\ NotTaken("avl")' = NotTaken("avl")
        /\ NotTaken("rdy")' \in Nat /\ ctlIn[iCtlRdIdx] \in Msgs
    BY <2>1, <1>2, <1>n DEF Cmds
  <2>3. iBlkRdyQue' \in Seq(Msgs) /\ Len(iBlkRdyQue') = Len(iBlkRdyQue) + 1
    BY <2>1, <2>2, <1>t, Pushed DEF BlkTypes
  <2>4. BlkTypes'
    BY <1>o, <1>t, <2>1, <2>3 DEF BlkTypes
  <2>5. InSum' = InSum /\ OutSum' = OutSum
    BY <1>o, <1>n, <1>w, <2>1, <2>2, <2>3, SMTT(30) DEF InSum, OutSum, InHeld, InBack, OutHeld, OutDone
  <2> QED BY <1>o, <1>w, <1>t, <2>2, <2>4, <2>5 DEF BlkInv, Sums
<1>5. CASE IcmAvl
  <2>1. IcmTake("avl") /\ UNCHANGED iBlkRdyQue /\ oBlkAvlCnt' = oBlkAvlCnt + 1
    BY <1>5 DEF IcmAvl
  <2>2. /\ InRing' /\ NotTaken("avl") = NotTaken("avl")' + 1 /\ NotTaken("rdy")' = NotTaken("rdy")
        /\ NotTaken("avl")' \in Nat
    BY <2>1, <1>2, <1>n DEF Cmds
  <2>4. BlkTypes'
    BY <1>o, <1>t, <2>1 DEF BlkTypes
  <2>5. InSum' = InSum
    BY <1>o, <1>w, <2>1, <2>2 DEF InSum, InHeld, InBack
  <2>6. OutSum' = OutSum
    <3>1. OutHeld' = OutHeld /\ OutDone' = OutDone /\ OutHeld \in Nat /\ OutDone \in Nat /\ hOwe' = hOwe
      BY <1>o DEF OutHeld, OutDone
    <3> QED BY <1>n, <1>w, <2>1, <2>2, <3>1, SMTT(30) DEF OutSum
  <2> QED BY <1>o, <1>w, <1>t, <2>2, <2>4, <2>5, <2>6 DEF BlkInv, Sums
<1> QED BY <1>1, <1>3, <1>4, <1>5 DEF IcmNext

\* The writer of the ring to the host: what it chooses, a block to be given
\* back or one to be announced, is on its way.
LEMMA Chosen ==
  ASSUME PersAssumption, OutRing, BlkTypes, Select, UNCHANGED oBlkSize,
         OnTheWay("rdy")' = (IF oCtlWrMsg'.cmd = "rdy" THEN OnTheWay("rdy") + 1 ELSE OnTheWay("rdy")),
         OnTheWay("avl")' = (IF oCtlWrMsg'.cmd = "avl" THEN OnTheWay("avl") + 1 ELSE OnTheWay("avl")),
         OnTheWay("rdy") \in Nat, OnTheWay("avl") \in Nat
  PROVE  /\ {iBlkSendAvl', oBlkSendRdy'} \subseteq BOOLEAN
         /\ ~iBlkSendAvl => ~iBlkSendAvl'
         /\ \/ InBack' = InBack /\ OnTheWay("avl")' = OnTheWay("avl")
            \/ InBack = 1 /\ InBack' = 0 /\ OnTheWay("avl")' = OnTheWay("avl") + 1
         /\ \/ OutDone' = OutDone /\ OnTheWay("rdy")' = OnTheWay("rdy")
            \/ OutDone = 1 /\ OutDone' = 0 /\ OnTheWay("rdy")' = OnTheWay("rdy") + 1
<1>t. iBlkSendAvl \in BOOLEAN /\ oBlkSendRdy \in BOOLEAN
  BY DEF BlkTypes
<1>1. CASE SelectBlk
  <2>1. oBlkSendRdy /\ ~oBlkSendRdy' /\ iBlkSendAvl' = iBlkSendAvl /\ oCtlWrMsg'.cmd = "rdy"
    BY <1>1, <1>t DEF SelectBlk, CanSendBlk, OutRing
  <2>2. InBack' = InBack /\ OutDone = 1 /\ OutDone' = 0
    BY <2>1 DEF InBack, OutDone
  <2>3. {iBlkSendAvl', oBlkSendRdy'} \subseteq BOOLEAN
    BY <1>1, <1>t DEF SelectBlk
  <2>4. OnTheWay("avl")' = OnTheWay("avl") /\ OnTheWay("rdy")' = OnTheWay("rdy") + 1
    BY <2>1
  <2> QED BY <2>1, <2>2, <2>3, <2>4
<1>2. CASE SelectAvl
  <2>1. iBlkSendAvl /\ ~iBlkSendAvl' /\ oBlkSendRdy' = oBlkSendRdy /\ oCtlWrMsg'.cmd = "avl"
    BY <1>2, <1>t, MsgCmds DEF SelectAvl
  <2>2. InBack = 1 /\ InBack' = 0 /\ OutDone' = OutDone
    BY <2>1 DEF InBack, OutDone
  <2>3. {iBlkSendAvl', oBlkSendRdy'} \subseteq BOOLEAN
    BY <1>2, <1>t DEF SelectAvl
  <2>4. OnTheWay("rdy")' = OnTheWay("rdy") /\ OnTheWay("avl")' = OnTheWay("avl") + 1
    BY <2>1
  <2> QED BY <2>1, <2>2, <2>3, <2>4
<1>3. CASE SelectCtl
  <2>1. iBlkSendAvl' = iBlkSendAvl /\ oBlkSendRdy' = oBlkSendRdy /\ oCtlWrMsg'.cmd = "user"
    BY <1>3, MsgCmds DEF SelectCtl, OutRing
  <2>2. InBack' = InBack /\ OutDone' = OutDone
    BY <2>1 DEF InBack, OutDone
  <2>4. OnTheWay("rdy")' = OnTheWay("rdy") /\ OnTheWay("avl")' = OnTheWay("avl")
    BY <2>1
  <2> QED BY <1>t, <2>1, <2>2, <2>4
<1> QED BY <1>1, <1>2, <1>3 DEF Select

\* The machine of the outbound control messages moves blocks along their way.
LEMMA OcmKeepsSums ==
  ASSUME PersAssumption, BlkInv, OcmNext, UNCHANGED hostVars
  PROVE  BlkInv'
<1>i. UNCHANGED inRing /\ UNCHANGED <<hInAvl, hOwe, oBlkAvlCnt, iBlkRdyQue, iBlkState, oBlkState, busy>>
  BY DEF OcmNext, OcmSelect, OcmRead, OcmRdWait, OcmWrite, OcmWrRsp,
         inRing, mem, icm, ctlTo, iAvl, ibk, iRd, obk, oSend, hostVars
<1>t. InRing /\ OutRing /\ BlkTypes /\ Sums
  BY DEF BlkInv
<1>s. InRing' /\ NotTaken("rdy")' = NotTaken("rdy") /\ NotTaken("avl")' = NotTaken("avl")
  BY <1>i, <1>t, InSame
<1>n. /\ hInAvl \in Nat /\ hOwe \in Nat /\ oBlkAvlCnt \in Nat /\ Len(iBlkRdyQue) \in Nat
      /\ NotTaken("rdy") \in Nat /\ NotTaken("avl") \in Nat
      /\ OnTheWay("rdy") \in Nat /\ OnTheWay("avl") \in Nat
      /\ InHeld \in Nat /\ InBack \in Nat /\ OutHeld \in Nat /\ OutDone \in Nat
  BY <1>t, SumTypes
<1>c. "rdy" \in Cmds /\ "avl" \in Cmds
  BY DEF Cmds
<1>1. CASE OcmRead \/ OcmRdWait
  <2>1. OutRing' /\ OnTheWay("rdy")' = OnTheWay("rdy") /\ OnTheWay("avl")' = OnTheWay("avl")
    BY <1>1, <1>t, WayLook
  <2>2. UNCHANGED blkPart
    BY <1>1, <1>i DEF OcmRead, OcmRdWait, iAvl, oSend, blkPart
  <2> QED BY <1>s, <2>1, <2>2, SumsStay
<1>2. CASE OcmWrRsp
  <2>1. OutRing' /\ OnTheWay("rdy")' = OnTheWay("rdy") /\ OnTheWay("avl")' = OnTheWay("avl")
    BY <1>2, <1>t, <1>c, WayWritten
  <2>2. UNCHANGED blkPart
    BY <1>2, <1>i DEF OcmWrRsp, iAvl, oSend, blkPart
  <2> QED BY <1>s, <2>1, <2>2, SumsStay
<1>3. CASE OcmSelect \/ OcmWrite
  <2>1. /\ OutRing' /\ (Select \/ oCtlWrMsg' = NoMsg)
        /\ OnTheWay("rdy")' = (IF oCtlWrMsg'.cmd = "rdy" THEN OnTheWay("rdy") + 1 ELSE OnTheWay("rdy"))
        /\ OnTheWay("avl")' = (IF oCtlWrMsg'.cmd = "avl" THEN OnTheWay("avl") + 1 ELSE OnTheWay("avl"))
    <3>1. CASE OcmSelect
      <4>1. Select
        BY <3>1 DEF OcmSelect
      <4> QED BY <3>1, <4>1, <1>t, <1>c, WaySelect
    <3>2. CASE OcmWrite
      BY <3>2, <1>t, <1>c, WayWrite
    <3> QED BY <1>3, <3>1, <3>2
  <2>2. UNCHANGED oBlkSize
    BY <1>3 DEF OcmSelect, OcmWrite
  <2>3. CASE Select
    <3>1. /\ {iBlkSendAvl', oBlkSendRdy'} \subseteq BOOLEAN
          /\ ~iBlkSendAvl => ~iBlkSendAvl'
          /\ \/ InBack' = InBack /\ OnTheWay("avl")' = OnTheWay("avl")
             \/ InBack = 1 /\ InBack' = 0 /\ OnTheWay("avl")' = OnTheWay("avl") + 1
          /\ \/ OutDone' = OutDone /\ OnTheWay("rdy")' = OnTheWay("rdy")
             \/ OutDone = 1 /\ OutDone' = 0 /\ OnTheWay("rdy")' = OnTheWay("rdy") + 1
      BY <1>t, <1>n, <2>1, <2>2, <2>3, Chosen
    <3>2. BlkTypes'
      BY <1>i, <1>t, <3>1 DEF BlkTypes
    <3>3. InHeld' = InHeld /\ OutHeld' = OutHeld
      BY <1>i DEF InHeld, OutHeld
    <3>5. InSum' = InSum
      <4>1. CASE InBack' = InBack /\ OnTheWay("avl")' = OnTheWay("avl")
        BY <1>i, <1>s, <3>3, <4>1 DEF InSum
      <4>2. CASE InBack = 1 /\ InBack' = 0 /\ OnTheWay("avl")' = OnTheWay("avl") + 1
        <5> DEFINE x == hInAvl + NotTaken("rdy") + Len(iBlkRdyQue) + InHeld
        <5>1. x \in Nat /\ InSum = x + 1 + OnTheWay("avl")
          BY <1>n, <4>2, SMTT(30) DEF InSum
        <5>2. InSum' = x + 0 + (OnTheWay("avl") + 1)
          BY <1>i, <1>s, <3>3, <4>2 DEF InSum
        <5> HIDE DEF x
        <5> QED BY <1>n, <5>1, <5>2, SMTT(30)
      <4> QED BY <3>1, <4>1, <4>2
    <3>6. OutSum' = OutSum
      <4>1. CASE OutDone' = OutDone /\ OnTheWay("rdy")' = OnTheWay("rdy")
        BY <1>i, <1>s, <3>3, <4>1 DEF OutSum
      <4>2. CASE OutDone = 1 /\ OutDone' = 0 /\ OnTheWay("rdy")' = OnTheWay("rdy") + 1
        BY <1>i, <1>n, <1>s, <3>3, <4>2, SMTT(30) DEF OutSum
      <4> QED BY <3>1, <4>1, <4>2
    <3> QED BY <1>i, <1>s, <1>t, <2>1, <3>2, <3>5, <3>6 DEF BlkInv, Sums
  <2>4. CASE ~Select
    <3>1. oCtlWrMsg' = NoMsg /\ OcmWrite
      BY <1>3, <2>1, <2>4 DEF OcmSelect
    <3>2. UNCHANGED <<oBlkSendRdy, iBlkSendAvl>>
      BY <2>4, <3>1 DEF OcmWrite
    <3>3. OnTheWay("rdy")' = OnTheWay("rdy") /\ OnTheWay("avl")' = OnTheWay("avl")
      BY <2>1, <3>1, MsgCmds
    <3>4. UNCHANGED blkPart
      BY <1>i, <3>2 DEF blkPart
    <3> QED BY <1>s, <2>1, <3>3, <3>4, SumsStay
  <2> QED BY <2>3, <2>4
<1> QED BY <1>1, <1>2, <1>3 DEF OcmNext

\* The blocks that are fetched.
LEMMA IbkKeepsSums ==
  ASSUME PersAssumption, BlkInv, IbkNext, UNCHANGED hostVars
  PROVE  BlkInv'
<1>i. /\ UNCHANGED inRing /\ UNCHANGED outRing
      /\ UNCHANGED <<hInAvl, hOwe, oBlkAvlCnt, oBlkState, oBlkSendRdy, busy>>
  BY DEF IbkNext, IbkSpecial, IbkTake, IbkData, IbkFetch64, IbkFetch8, Fetch, IbkRead, IbkWait,
         IbkRdRsp, IbkPush, inRing, outRing, mem, icm, ocm, ctlTo, obk, oSend, hostVars
<1>t. InRing /\ OutRing /\ BlkTypes /\ Sums
  BY DEF BlkInv
<1>s. /\ InRing' /\ NotTaken("rdy")' = NotTaken("rdy") /\ NotTaken("avl")' = NotTaken("avl")
      /\ OutRing' /\ OnTheWay("rdy")' = OnTheWay("rdy") /\ OnTheWay("avl")' = OnTheWay("avl")
  BY <1>i, <1>t, InSame, OutSame
<1>n. /\ hInAvl \in Nat /\ hOwe \in Nat /\ oBlkAvlCnt \in Nat /\ Len(iBlkRdyQue) \in Nat
      /\ NotTaken("rdy") \in Nat /\ NotTaken("avl") \in Nat
      /\ OnTheWay("rdy") \in Nat /\ OnTheWay("avl") \in Nat
      /\ InHeld \in Nat /\ InBack \in Nat /\ OutHeld \in Nat /\ OutDone \in Nat
  BY <1>t, SumTypes
<1>o. OutSum' = OutSum
  <2>1. OutHeld' = OutHeld /\ OutDone' = OutDone
    BY <1>i DEF OutHeld, OutDone
  <2> QED BY <1>i, <1>n, <1>s, <2>1 DEF OutSum
<1>1. ASSUME BlkTypes', InSum' = InSum PROVE BlkInv'
  BY <1>1, <1>i, <1>s, <1>o, <1>t DEF BlkInv, Sums
<1>2. ASSUME iBlkRdyQue # <<>>, iBlkRdyQue' = Tail(iBlkRdyQue)
      PROVE  iBlkRdyQue' \in Seq(Msgs) /\ Len(iBlkRdyQue') = Len(iBlkRdyQue) - 1
  BY <1>2, <1>t, Popped DEF BlkTypes
<1>3. CASE IbkSpecial
  <2>1. /\ iBlkRdyQue # <<>> /\ iBlkRdyQue' = Tail(iBlkRdyQue) /\ iBlkState = "IDLE"
        /\ ~iBlkSendAvl /\ iBlkSendAvl' = TRUE /\ iBlkState' = iBlkState
    BY <1>3 DEF IbkSpecial, IbkTake
  <2>2. BlkTypes'
    BY <1>i, <1>t, <1>2, <2>1 DEF BlkTypes
  <2>3. InHeld' = InHeld /\ InBack = 0 /\ InBack' = 1
    BY <2>1 DEF InHeld, InBack
  <2>4. InSum' = InSum
    BY <1>i, <1>n, <1>s, <1>2, <2>1, <2>3, SMTT(30) DEF InSum
  <2> QED BY <1>1, <2>2, <2>4
<1>4. CASE IbkData
  <2>1. /\ iBlkRdyQue # <<>> /\ iBlkRdyQue' = Tail(iBlkRdyQue) /\ iBlkState = "IDLE"
        /\ ~iBlkSendAvl /\ iBlkSendAvl' = iBlkSendAvl /\ iBlkState' = "READ"
    BY <1>4 DEF IbkData, IbkTake
  <2>2. BlkTypes'
    BY <1>i, <1>t, <1>2, <2>1 DEF BlkTypes
  <2>3. InHeld = 0 /\ InHeld' = 1 /\ InBack' = InBack
    BY <2>1 DEF InHeld, InBack
  <2>4. InSum' = InSum
    BY <1>i, <1>n, <1>s, <1>2, <2>1, <2>3, SMTT(30) DEF InSum
  <2> QED BY <1>1, <2>2, <2>4
<1>5. CASE IbkWait
  <2>1. iBlkState = "WAIT" /\ iBlkState' = "IDLE" /\ iBlkSendAvl' = TRUE /\ UNCHANGED iBlkRdyQue
    BY <1>5 DEF IbkWait
  <2>2. ~iBlkSendAvl
    BY <1>t, <2>1 DEF BlkTypes
  <2>3. BlkTypes'
    BY <1>i, <1>t, <2>1 DEF BlkTypes
  <2>4. InHeld = 1 /\ InHeld' = 0 /\ InBack = 0 /\ InBack' = 1
    BY <2>1, <2>2 DEF InHeld, InBack
  <2>5. InSum' = InSum
    BY <1>i, <1>n, <1>s, <2>1, <2>4, SMTT(30) DEF InSum
  <2> QED BY <1>1, <2>3, <2>5
<1>6. CASE IbkRead
  <2>1. iBlkState = "READ" /\ iBlkState' = "WAIT" /\ UNCHANGED <<iBlkRdyQue, iBlkSendAvl>>
    BY <1>6 DEF IbkRead, iAvl
  <2>2. BlkTypes'
    BY <1>i, <1>t, <2>1 DEF BlkTypes
  <2>3. InHeld' = InHeld /\ InBack' = InBack
    BY <2>1 DEF InHeld, InBack
  <2>4. InSum' = InSum
    BY <1>i, <1>n, <1>s, <2>1, <2>3 DEF InSum
  <2> QED BY <1>1, <2>2, <2>4
<1>7. CASE IbkFetch64 \/ IbkFetch8 \/ IbkRdRsp \/ IbkPush
  <2>1. UNCHANGED blkPart
    BY <1>7, <1>i DEF IbkFetch64, IbkFetch8, Fetch, IbkRdRsp, IbkPush, iAvl, iRd, blkPart
  <2> QED BY <1>s, <2>1, SumsStay
<1> QED BY <1>3, <1>4, <1>5, <1>6, <1>7 DEF IbkNext

\* The blocks that are filled.
LEMMA ObkKeepsSums ==
  ASSUME PersAssumption, BlkInv, OutInv, ObkNext \/ ObkTimer \/ MemNext, UNCHANGED hostVars
  PROVE  BlkInv'
<1>i. /\ UNCHANGED inRing
      /\ UNCHANGED <<ctlOut, oCtlState, oCtlWrIdx, oCtlWr, hOutSlot, oCtlWrMsg, htiToHif_ctl>>
      /\ UNCHANGED <<hInAvl, hOwe, iBlkRdyQue, iBlkState, iBlkSendAvl, busy>>
  <2>1. CASE ObkTimer \/ MemNext
    BY <2>1 DEF ObkTimer, MemNext, ObkWrRsp, MemSettle, ObkRdRsp, MemRest, PutWords, ObkRest,
         inRing, mem, icm, ocm, ctlTo, iAvl, ibk, iRd, hostVars
  <2>2. CASE ObkNext
    <3>1. UNCHANGED ObkRest
      BY <2>2 DEF ObkNext, ObkIdleFlsh, ObkIdle, ObkClose, ObkPop, ObkWr8, ObkWr64, ObkWrite,
           ObkFlsh, ObkFlshed, ObkSendData, ObkSendItem, ObkSend
    <3> QED BY <3>1 DEF ObkRest, inRing, mem, icm, ocm, ctlTo, iAvl, ibk, iRd, hostVars
  <2> QED BY <2>1, <2>2, SMTT(30)
<1>t. InRing /\ OutRing /\ BlkTypes /\ Sums
  BY DEF BlkInv
<1>r. InRing' /\ NotTaken("rdy")' = NotTaken("rdy") /\ NotTaken("avl")' = NotTaken("avl")
  BY <1>i, <1>t, InSame
<1>s. OnTheWay("rdy")' = OnTheWay("rdy") /\ OnTheWay("avl")' = OnTheWay("avl")
  BY <1>i DEF OnTheWay, SlotsWith
<1>o. ASSUME oBlkSize' \in Msgs, oBlkSize'.cmd = "rdy" PROVE OutRing'
  BY <1>i, <1>t, <1>o DEF OutRing
<1>n. /\ hInAvl \in Nat /\ hOwe \in Nat /\ oBlkAvlCnt \in Nat /\ Len(iBlkRdyQue) \in Nat
      /\ NotTaken("rdy") \in Nat /\ NotTaken("avl") \in Nat
      /\ OnTheWay("rdy") \in Nat /\ OnTheWay("avl") \in Nat
      /\ InHeld \in Nat /\ InBack \in Nat /\ OutHeld \in Nat /\ OutDone \in Nat
  BY <1>t, SumTypes
<1>m. InSum' = InSum
  BY <1>i, <1>r, <1>s DEF InSum, InHeld, InBack
<1>1. ASSUME OutRing', oBlkAvlCnt' \in Nat, oBlkSendRdy' \in BOOLEAN, OutSum' = OutSum
      PROVE  BlkInv'
  <2>1. BlkTypes'
    BY <1>1, <1>i, <1>t DEF BlkTypes
  <2> QED BY <1>1, <1>i, <1>r, <1>m, <1>t, <2>1 DEF BlkInv, Sums
<1>2. CASE ObkIdle
  <2>1. /\ oBlkState = "IDLE" /\ oBlkState' \in {"POP", "SEND"} /\ oBlkAvlCnt # 0
        /\ oBlkAvlCnt' = oBlkAvlCnt - 1 /\ UNCHANGED <<oBlkSendRdy, oBlkSize>>
    BY <1>2 DEF ObkIdle, oSend
  <2>2. OutRing'
    BY <1>o, <1>t, <2>1 DEF OutRing
  <2>3. OutHeld = 0 /\ OutHeld' = 1 /\ OutDone' = OutDone
    BY <2>1 DEF OutHeld, OutDone
  <2>4. oBlkAvlCnt' \in Nat /\ oBlkSendRdy' \in BOOLEAN
    BY <1>n, <1>t, <2>1 DEF BlkTypes
  <2>5. OutSum' = OutSum
    <3>1. OutSum' = (oBlkAvlCnt - 1) + 1 + OutDone + OnTheWay("rdy") + hOwe + NotTaken("avl")
      BY <1>i, <1>r, <1>s, <2>1, <2>3 DEF OutSum
    <3>2. OutSum = oBlkAvlCnt + 0 + OutDone + OnTheWay("rdy") + hOwe + NotTaken("avl")
      BY <2>3 DEF OutSum
    <3>3. (oBlkAvlCnt - 1) + 1 = oBlkAvlCnt + 0
      BY <1>n
    <3> QED BY <3>1, <3>2, <3>3
  <2> QED BY <1>1, <2>2, <2>4, <2>5
<1>3. CASE ObkSendData \/ ObkSendItem
  <2>1. PICK k \in Ctl, n \in Nat : ObkSend(RdyMsg(k, n))
    <3>1. CASE ObkSendData
      <4>1. oBlkWrCnt \in Nat /\ "DATA" \in Ctl
        BY DEF OutInv, OutTypes, Ctl
      <4> QED BY <3>1, <4>1 DEF ObkSendData
    <3>2. CASE ObkSendItem
      <4>1. oBlkQue # <<>> /\ oBlkQue \in Seq(Items)
        BY <3>2 DEF ObkSendItem, OutInv, OutTypes, ClosedFor
      <4>2. Head(oBlkQue) \in Items
        BY <4>1, Popped
      <4>3. Head(oBlkQue).ctl \in Ctl /\ Head(oBlkQue).dat \in Nat
        BY <4>2 DEF Items
      <4> QED BY <3>2, <4>3 DEF ObkSendItem
    <3> QED BY <1>3, <3>1, <3>2
  <2>2. /\ oBlkState = "SEND" /\ oBlkState' = "IDLE" /\ ~oBlkSendRdy /\ oBlkSendRdy' = TRUE
        /\ oBlkSize' = RdyMsg(k, n) /\ oBlkAvlCnt' = oBlkAvlCnt
    BY <2>1 DEF ObkSend
  <2>3. OutRing'
    <3>1. oBlkSize' \in Msgs /\ oBlkSize'.cmd = "rdy"
      BY <2>2, MsgCmds
    <3> QED BY <1>o, <3>1
  <2>4. OutHeld = 1 /\ OutHeld' = 0 /\ OutDone = 0 /\ OutDone' = 1
    BY <2>2 DEF OutHeld, OutDone
  <2>5. OutSum' = OutSum
    <3>1. OutSum' = oBlkAvlCnt + 0 + 1 + OnTheWay("rdy") + hOwe + NotTaken("avl")
      BY <1>i, <1>r, <1>s, <2>2, <2>4 DEF OutSum
    <3>2. OutSum = oBlkAvlCnt + 1 + 0 + OnTheWay("rdy") + hOwe + NotTaken("avl")
      BY <2>4 DEF OutSum
    <3>3. oBlkAvlCnt + 0 + 1 = oBlkAvlCnt + 1 + 0
      BY <1>n
    <3> QED BY <3>1, <3>2, <3>3
  <2> QED BY <1>1, <1>n, <2>2, <2>3, <2>5
<1>4. CASE \/ ObkIdleFlsh \/ ObkClose \/ ObkPop \/ ObkWr8 \/ ObkWr64 \/ ObkFlsh \/ ObkFlshed
           \/ ObkTimer \/ MemNext
  <2>1. /\ UNCHANGED <<oBlkAvlCnt, oBlkSendRdy, oBlkSize>>
        /\ (oBlkState' = "IDLE") <=> (oBlkState = "IDLE")
    BY <1>4 DEF ObkIdleFlsh, ObkClose, ObkPop, ObkWr8, ObkWr64, ObkWrite, ObkFlsh, ObkFlshed,
                ObkTimer, MemNext, ObkWrRsp, MemSettle, ObkRdRsp, MemRest, oSend
  <2>2. OutRing'
    BY <1>o, <1>t, <2>1 DEF OutRing
  <2>3. OutHeld' = OutHeld /\ OutDone' = OutDone
    BY <2>1 DEF OutHeld, OutDone
  <2>4. OutSum' = OutSum
    BY <1>i, <1>r, <1>s, <2>1, <2>3 DEF OutSum
  <2> QED BY <1>1, <1>n, <1>t, <2>1, <2>2, <2>4 DEF BlkTypes
<1> QED BY <1>2, <1>3, <1>4 DEF ObkNext

\* The reset of an idle unit forgets no more than there is.
LEMMA IdleKeepsSums ==
  ASSUME PersAssumption, BlkInv, Idle, UNCHANGED hostVars
  PROVE  BlkInv'
<1>t. InRing /\ OutRing /\ BlkTypes /\ Sums
  BY DEF BlkInv
<1>n. /\ hInAvl \in Nat /\ hOwe \in Nat /\ oBlkAvlCnt \in Nat /\ Len(iBlkRdyQue) \in Nat
      /\ NotTaken("rdy") \in Nat /\ NotTaken("avl") \in Nat
      /\ OnTheWay("rdy") \in Nat /\ OnTheWay("avl") \in Nat
      /\ InHeld \in Nat /\ InBack \in Nat /\ OutHeld \in Nat /\ OutDone \in Nat
      /\ IBlkCnt \in Nat /\ OBlkCnt \in Nat
  BY <1>t, SumTypes
<1>1. InRing' /\ Unread' = Unread /\ ctlIn' = ctlIn
  BY <1>t, InReset
<1>2. OutRing'
  BY <1>t, WayReset
<1>3. NotTaken("rdy")' = NotTaken("rdy") /\ NotTaken("avl")' = NotTaken("avl")
  BY <1>1, UnreadStays DEF NotTaken
<1>4. OnTheWay("rdy")' = OnTheWay("rdy") /\ OnTheWay("avl")' = OnTheWay("avl")
  BY DEF Idle, IdleNow, mem, OnTheWay, SlotsWith
<1>5. /\ iBlkRdyQue' = <<>> /\ iBlkState' = "IDLE" /\ iBlkSendAvl' = FALSE /\ oBlkState' = "IDLE"
      /\ oBlkSendRdy' = FALSE /\ oBlkAvlCnt' = 0 /\ busy' = FALSE /\ UNCHANGED <<hInAvl, hOwe>>
  BY DEF Idle, hostVars
<1>6. InHeld' = 0 /\ InBack' = 0 /\ OutHeld' = 0 /\ OutDone' = 0 /\ Len(iBlkRdyQue)' = 0
  BY <1>5 DEF InHeld, InBack, OutHeld, OutDone
<1>7. BlkTypes'
  <2>1. <<>> \in Seq(Msgs)
    BY EmptySeq
  <2>2. {FALSE} \subseteq BOOLEAN /\ 0 \in Nat
    OBVIOUS
  <2> QED BY <1>n, <1>5, <2>1, <2>2 DEF BlkTypes
<1>8. InSum' <= InSum
  <2>1. InSum' = hInAvl + NotTaken("rdy") + 0 + 0 + 0 + OnTheWay("avl")
    BY <1>3, <1>4, <1>5, <1>6 DEF InSum
  <2> QED BY <1>n, <2>1, SMTT(30) DEF InSum
<1>9. OutSum' <= OutSum
  <2>1. OutSum' = 0 + 0 + 0 + OnTheWay("rdy") + hOwe + NotTaken("avl")
    BY <1>3, <1>4, <1>5, <1>6 DEF OutSum
  <2> QED BY <1>n, <2>1, SMTT(30) DEF OutSum
<1>10. InSum \in Nat /\ OutSum \in Nat /\ InSum' \in Nat /\ OutSum' \in Nat
  <2>1. InSum \in Nat /\ OutSum \in Nat
    <3>1. \A a, b, c, d, e, f \in Nat : a + b + c + d + e + f \in Nat
      OBVIOUS
    <3>2. InSum \in Nat
      BY <1>n, <3>1 DEF InSum
    <3>3. OutSum \in Nat
      BY <1>n, <3>1 DEF OutSum
    <3> QED BY <3>2, <3>3
  <2>2. InSum' \in Nat /\ OutSum' \in Nat
    BY <1>n, <1>3, <1>4, <1>5, <1>6, SMTT(30) DEF InSum, OutSum
  <2> QED BY <2>1, <2>2
<1>11. Sums'
  BY <1>n, <1>t, <1>5, <1>8, <1>9, <1>10, SMTT(30) DEF Sums
<1> QED BY <1>1, <1>2, <1>7, <1>11 DEF BlkInv

\* HTI and the modules: a message of theirs is all they have to do with this.
LEMMA HtiKeepsSums ==
  ASSUME PersAssumption, BlkInv, HtiNext \/ ModNext, UNCHANGED hostVars
  PROVE  BlkInv'
<1>1. UNCHANGED <<inRing, blkPart>>
  BY DEF HtiNext, HtiCallNext, CallIdleData, CallIdleCall, CallIdleHalt, CallArgs, CallCmd, CallData,
         IhmPop, HtiRtnNext, RtnIdle, RtnCmd, RtnArg, RtnDone, RtnData, ModNext, ModTakeCall,
         ModReturn, ModSend, ModSendMsg, CallRest, RtnRest, ModRest, HifRest, hifVars,
         mem, icm, iAvl, ibk, iRd, obk, oSend, hostVars, inRing, blkPart
<1>2. /\ UNCHANGED <<ctlOut, oCtlState, oCtlWrIdx, oCtlWr, hOutSlot, oCtlWrMsg, oBlkSize>>
      /\ htiToHif_ctl' \in {htiToHif_ctl, UserMsg}
  BY DEF HtiNext, HtiCallNext, CallIdleData, CallIdleCall, CallIdleHalt, CallArgs, CallCmd, CallData,
         IhmPop, HtiRtnNext, RtnIdle, RtnCmd, RtnArg, RtnDone, RtnData, ModNext, ModTakeCall,
         ModReturn, ModSend, ModSendMsg, CallRest, RtnRest, ModRest, HifRest, hifVars,
         mem, ocm, ctlTo, oSend, hostVars
<1>3. OutRing' /\ OnTheWay("rdy")' = OnTheWay("rdy") /\ OnTheWay("avl")' = OnTheWay("avl")
  BY <1>2 DEF BlkInv, OutRing, OnTheWay, SlotsWith
<1>4. InRing' /\ NotTaken("rdy")' = NotTaken("rdy") /\ NotTaken("avl")' = NotTaken("avl")
  <2>1. UNCHANGED inRing
    BY <1>1 DEF inRing
  <2> QED BY <2>1, InSame DEF BlkInv
<1>5. UNCHANGED blkPart
  BY <1>1 DEF blkPart
<1> QED BY <1>3, <1>4, <1>5, SumsStay

\* The host: a block for a message, a message for a block.
LEMMA HostKeepsSums ==
  ASSUME PersAssumption, UnitAssumption, BlkInv, HostNext
  PROVE  BlkInv'
<1>t. InRing /\ OutRing /\ BlkTypes /\ Sums
  BY DEF BlkInv
<1>n. /\ hInAvl \in Nat /\ hOwe \in Nat /\ oBlkAvlCnt \in Nat /\ Len(iBlkRdyQue) \in Nat
      /\ NotTaken("rdy") \in Nat /\ NotTaken("avl") \in Nat
      /\ OnTheWay("rdy") \in Nat /\ OnTheWay("avl") \in Nat
      /\ InHeld \in Nat /\ InBack \in Nat /\ OutHeld \in Nat /\ OutDone \in Nat
  BY <1>t, SumTypes
<1>c. "rdy" \in Cmds /\ "avl" \in Cmds
  BY DEF Cmds
<1>u. UNCHANGED <<oBlkAvlCnt, iBlkRdyQue, iBlkState, iBlkSendAvl, oBlkState, oBlkSendRdy, busy>>
  BY DEF HostNext, HostData, HostSpecial, HostHalt, HostUser, HostRecv, HostGiveBack, HostBlk,
         HostMsg, iAvl, ibk, iRd, obk, oSend
<1>h. InHeld' = InHeld /\ InBack' = InBack /\ OutHeld' = OutHeld /\ OutDone' = OutDone
  BY <1>u DEF InHeld, InBack, OutHeld, OutDone
<1>1. ASSUME NEW m \in Msgs, m.cmd \in Cmds, HostMsg(m)
      PROVE  /\ InRing' /\ UNCHANGED <<ctlOut, oCtlState, oCtlWrIdx, oCtlWr, oCtlWrMsg, htiToHif_ctl, oBlkSize>>
             /\ NotTaken("rdy")' = (IF m.cmd = "rdy" THEN NotTaken("rdy") + 1 ELSE NotTaken("rdy"))
             /\ NotTaken("avl")' = (IF m.cmd = "avl" THEN NotTaken("avl") + 1 ELSE NotTaken("avl"))
  <2>1. /\ InRing' /\ hInSlot \notin Unread /\ Unread' = Unread \cup {hInSlot}
        /\ ctlIn'[hInSlot] = m /\ \A s \in Unread : ctlIn'[s] = ctlIn[s]
    BY <1>1, <1>t, InPut
  <2>2. hInSlot \in Slots
    BY <1>t DEF InRing
  <2>3. /\ NotTaken("rdy")' = (IF m.cmd = "rdy" THEN NotTaken("rdy") + 1 ELSE NotTaken("rdy"))
        /\ NotTaken("avl")' = (IF m.cmd = "avl" THEN NotTaken("avl") + 1 ELSE NotTaken("avl"))
    BY <1>t, <2>1, <2>2, UnreadPut DEF NotTaken
  <2> QED BY <1>1, <2>1, <2>3 DEF HostMsg, ocm, ctlTo, oSend
<1>2. ASSUME InRing', UNCHANGED outRing, hInAvl' \in Nat, hOwe' \in Nat, InSum' = InSum, OutSum' = OutSum
      PROVE  BlkInv'
  <2>1. OutRing'
    BY <1>2, <1>t, OutSame
  <2>2. BlkTypes'
    BY <1>2, <1>t, <1>u DEF BlkTypes
  <2> QED BY <1>2, <1>t, <1>u, <2>1, <2>2 DEF BlkInv, Sums
<1>3. CASE HostData \/ HostSpecial \/ HostHalt
  <2>1. PICK k \in Ctl, n \in Nat : \E items : HostBlk(items, RdyMsg(k, n))
    <3>1. CASE HostData
      <4>1. PICK n \in 1..Lower(BlkQw, MaxIn - Len(inSent) - usrIn) :
                HostBlk(Words(iBlk'[hInIdx], n), RdyMsg("DATA", n))
        BY <3>1 DEF HostData
      <4>2. n \in Nat /\ "DATA" \in Ctl
        BY DEF Ctl
      <4> QED BY <4>1, <4>2
    <3>2. CASE HostSpecial
      <4>1. PICK k \in InCtls \cap {"NULL", "CALL"} :
              LET n == IF k = "CALL" THEN Argc ELSE 0 IN HostBlk(<<Item(k, n)>>, RdyMsg(k, n))
        BY <3>2 DEF HostSpecial
      <4>2. k \in Ctl /\ (IF k = "CALL" THEN Argc ELSE 0) \in Nat
        BY DEF Ctl, UnitAssumption
      <4> QED BY <4>1, <4>2
    <3>3. CASE HostHalt
      BY <3>3 DEF HostHalt, Ctl
    <3> QED BY <1>3, <3>1, <3>2, <3>3
  <2>2. /\ HostMsg(RdyMsg(k, n)) /\ hInAvl > 0 /\ hInAvl' = hInAvl - 1
        /\ UNCHANGED <<hOwe, hOutSlot>>
    BY <2>1 DEF HostBlk
  <2>3. RdyMsg(k, n) \in Msgs /\ RdyMsg(k, n).cmd = "rdy"
    BY MsgCmds
  <2>4. /\ InRing' /\ UNCHANGED <<ctlOut, oCtlState, oCtlWrIdx, oCtlWr, oCtlWrMsg, htiToHif_ctl, oBlkSize>>
        /\ NotTaken("rdy")' = NotTaken("rdy") + 1 /\ NotTaken("avl")' = NotTaken("avl")
    BY <1>1, <1>c, <2>2, <2>3
  <2>5. UNCHANGED outRing
    BY <2>2, <2>4 DEF outRing
  <2>6. OnTheWay("rdy")' = OnTheWay("rdy") /\ OnTheWay("avl")' = OnTheWay("avl")
    BY <2>5, <1>t, OutSame
  <2>7. OutSum' = OutSum
    BY <1>u, <1>h, <2>2, <2>4, <2>6 DEF OutSum
  <2>8. InSum' = InSum
    <3> DEFINE x == Len(iBlkRdyQue) + InHeld + InBack + OnTheWay("avl")
    <3>1. InSum' = (hInAvl - 1) + (NotTaken("rdy") + 1) + Len(iBlkRdyQue) + InHeld + InBack + OnTheWay("avl")
      BY <1>u, <1>h, <2>2, <2>4, <2>6 DEF InSum
    <3>2. (hInAvl - 1) + (NotTaken("rdy") + 1) = hInAvl + NotTaken("rdy")
      BY <1>n, SMTT(30)
    <3> QED BY <3>1, <3>2 DEF InSum
  <2>9. hInAvl' \in Nat /\ hOwe' \in Nat
    BY <1>n, <2>2
  <2> QED BY <1>2, <2>4, <2>5, <2>7, <2>8, <2>9
<1>4. CASE HostUser
  <2>1. HostMsg(UserMsg) /\ UNCHANGED <<hInAvl, hOwe, hOutSlot>>
    BY <1>4 DEF HostUser
  <2>2. UserMsg \in Msgs /\ UserMsg.cmd = "user" /\ "user" \in Cmds
    BY MsgCmds DEF Cmds
  <2>3. /\ InRing' /\ UNCHANGED <<ctlOut, oCtlState, oCtlWrIdx, oCtlWr, oCtlWrMsg, htiToHif_ctl, oBlkSize>>
        /\ NotTaken("rdy")' = NotTaken("rdy") /\ NotTaken("avl")' = NotTaken("avl")
    BY <1>1, <2>1, <2>2
  <2>4. UNCHANGED outRing
    BY <2>1, <2>3 DEF outRing
  <2>5. OnTheWay("rdy")' = OnTheWay("rdy") /\ OnTheWay("avl")' = OnTheWay("avl")
    BY <2>4, <1>t, OutSame
  <2>6. InSum' = InSum /\ OutSum' = OutSum
    BY <1>u, <1>h, <2>1, <2>3, <2>5 DEF InSum, OutSum
  <2> QED BY <1>2, <1>n, <2>1, <2>3, <2>4, <2>6
<1>5. CASE HostGiveBack
  <2>1. HostMsg(AvlMsg) /\ hOwe > 0 /\ hOwe' = hOwe - 1 /\ UNCHANGED <<hInAvl, hOutSlot>>
    BY <1>5 DEF HostGiveBack
  <2>2. AvlMsg \in Msgs /\ AvlMsg.cmd = "avl"
    BY MsgCmds
  <2>3. /\ InRing' /\ UNCHANGED <<ctlOut, oCtlState, oCtlWrIdx, oCtlWr, oCtlWrMsg, htiToHif_ctl, oBlkSize>>
        /\ NotTaken("rdy")' = NotTaken("rdy") /\ NotTaken("avl")' = NotTaken("avl") + 1
    BY <1>1, <1>c, <2>1, <2>2
  <2>4. UNCHANGED outRing
    BY <2>1, <2>3 DEF outRing
  <2>5. OnTheWay("rdy")' = OnTheWay("rdy") /\ OnTheWay("avl")' = OnTheWay("avl")
    BY <2>4, <1>t, OutSame
  <2>6. InSum' = InSum
    BY <1>u, <1>h, <2>1, <2>3, <2>5 DEF InSum
  <2>7. OutSum' = OutSum
    <3> DEFINE x == oBlkAvlCnt + OutHeld + OutDone + OnTheWay("rdy")
    <3>1. OutSum' = x + (hOwe - 1) + (NotTaken("avl") + 1)
      BY <1>u, <1>h, <2>1, <2>3, <2>5 DEF OutSum
    <3>2. OutSum = x + hOwe + NotTaken("avl") /\ x \in Nat
      BY <1>n, SMTT(30) DEF OutSum
    <3> HIDE DEF x
    <3> QED BY <1>n, <3>1, <3>2, SMTT(30)
  <2> QED BY <1>2, <1>n, <2>1, <2>3, <2>4, <2>6, <2>7
<1>6. CASE HostRecv
  <2> DEFINE m == ctlOut[hOutSlot]
  <2>1. /\ UNCHANGED inRing
        /\ hInAvl' = (IF m.cmd = "avl" THEN hInAvl + 1 ELSE hInAvl)
        /\ hOwe' = (IF m.cmd = "rdy" THEN hOwe + 1 ELSE hOwe)
    BY <1>6 DEF HostRecv, inRing, icm
  <2>2. /\ OutRing'
        /\ OnTheWay("rdy") = IF m.cmd = "rdy" THEN OnTheWay("rdy")' + 1 ELSE OnTheWay("rdy")'
        /\ OnTheWay("avl") = IF m.cmd = "avl" THEN OnTheWay("avl")' + 1 ELSE OnTheWay("avl")'
    BY <1>6, <1>c, <1>t, WayRecv
  <2>3. InRing' /\ NotTaken("rdy")' = NotTaken("rdy") /\ NotTaken("avl")' = NotTaken("avl")
    BY <2>1, <1>t, InSame
  <2>4. BlkTypes'
    <3>1. hInAvl' \in Nat /\ hOwe' \in Nat
      BY <1>n, <2>1
    <3> QED BY <1>t, <1>u, <3>1 DEF BlkTypes
  <2>n. OnTheWay("rdy")' \in Nat /\ OnTheWay("avl")' \in Nat
    BY <1>6, <1>c, <1>t, WayRecv
  <2> HIDE DEF m
  <2>5. InSum' = InSum
    <3>1. CASE m.cmd = "avl"
      <4>1. OnTheWay("avl") = OnTheWay("avl")' + 1 /\ hInAvl' = hInAvl + 1
        BY <2>1, <2>2, <3>1
      <4>2. InSum' = (hInAvl + 1) + NotTaken("rdy") + Len(iBlkRdyQue) + InHeld + InBack + OnTheWay("avl")'
        BY <1>u, <1>h, <2>3, <4>1 DEF InSum
      <4>3. InSum = hInAvl + NotTaken("rdy") + Len(iBlkRdyQue) + InHeld + InBack + (OnTheWay("avl")' + 1)
        BY <4>1 DEF InSum
      <4>4. PICK a, b, d, e, f, g \in Nat :
              /\ a = hInAvl /\ b = NotTaken("rdy") /\ d = Len(iBlkRdyQue) /\ e = InHeld /\ f = InBack
              /\ g = OnTheWay("avl")'
        BY <1>n, <2>n
      <4>5. InSum' = (a + 1) + b + d + e + f + g /\ InSum = a + b + d + e + f + (g + 1)
        BY <4>2, <4>3, <4>4
      <4> QED BY <4>5
    <3>2. CASE m.cmd # "avl"
      BY <1>u, <1>h, <2>1, <2>2, <2>3, <3>2 DEF InSum
    <3> QED BY <3>1, <3>2
  <2>6. OutSum' = OutSum
    <3>1. CASE m.cmd = "rdy"
      <4> DEFINE x == oBlkAvlCnt + OutHeld + OutDone
      <4>1. OnTheWay("rdy") = OnTheWay("rdy")' + 1 /\ hOwe' = hOwe + 1
        BY <2>1, <2>2, <3>1
      <4>2. OutSum' = x + OnTheWay("rdy")' + (hOwe + 1) + NotTaken("avl") /\ x \in Nat
        BY <1>n, <1>u, <1>h, <2>3, <4>1 DEF OutSum
      <4>3. OutSum = x + (OnTheWay("rdy")' + 1) + hOwe + NotTaken("avl")
        BY <4>1 DEF OutSum
      <4> HIDE DEF x
      <4> QED BY <1>n, <2>n, <4>2, <4>3, SMTT(30)
    <3>2. CASE m.cmd # "rdy"
      BY <1>u, <1>h, <2>1, <2>2, <2>3, <3>2 DEF OutSum
    <3> QED BY <3>1, <3>2
  <2>7. Sums'
    BY <1>t, <1>u, <2>5, <2>6 DEF Sums
  <2> QED BY <2>2, <2>3, <2>4, <2>7 DEF BlkInv
<1> QED BY <1>3, <1>4, <1>5, <1>6 DEF HostNext

\* The library has every block of the unit in the ring, the host its credit.
LEMMA InitBlocks ==
  ASSUME PersAssumption, Init
  PROVE  BlkInv
<1>1. /\ ctlIn = [s \in Slots |-> IF s < OBlkCnt THEN AvlMsg ELSE NoMsg]
      /\ ctlOut = [s \in Slots |-> NoMsg]
      /\ iCtlState = "READ" /\ iCtlRdIdx = 0 /\ iCtlWr = {} /\ hInSlot = OBlkCnt % CtlQueSize
      /\ oCtlState = "READ" /\ oCtlWrIdx = 0 /\ oCtlWr = {} /\ hOutSlot = 0 /\ oCtlWrMsg = NoMsg
      /\ htiToHif_ctl = NoMsg /\ oBlkSize = RdyMsg("DATA", 0)
      /\ iBlkRdyQue = <<>> /\ iBlkSendAvl = FALSE /\ iBlkState = "IDLE"
      /\ oBlkAvlCnt = 0 /\ oBlkState = "IDLE" /\ oBlkSendRdy = FALSE /\ busy = TRUE
      /\ hInAvl = IBlkCnt /\ hOwe = 0
  BY DEF Init, HifInit, HifReset, Slots
<1>n. /\ CtlQueSize \in Nat /\ OBlkCnt \in Nat /\ IBlkCnt \in Nat /\ CtlQueSize > OBlkCnt /\ OBlkCnt > 0
  BY DEF PersAssumption
<1>2. OBlkCnt % CtlQueSize \in Slots /\ 0 \in Slots
  BY <1>n DEF Slots
<1>3. /\ {NoMsg, AvlMsg} \subseteq Msgs /\ AvlMsg.cmd = "avl" /\ NoMsg.cmd = "none"
      /\ RdyMsg("DATA", 0) \in Msgs /\ RdyMsg("DATA", 0).cmd = "rdy" /\ AvlMsg.cmd \in Cmds
  <2>1. "DATA" \in Ctl /\ 0 \in Nat /\ "avl" \in Cmds
    BY DEF Ctl, Cmds
  <2> QED BY <2>1, MsgCmds
<1>4. InRing
  <2>1. \A s \in Slots : IsMsg(ctlIn[s])
    BY <1>1, <1>3 DEF IsMsg
  <2> QED BY <1>1, <1>2, <2>1 DEF InRing, CtlStates
<1>5. OutRing
  BY <1>1, <1>2, <1>3 DEF OutRing, CtlStates, IsMsg
<1>6. BlkTypes
  <2>1. <<>> \in Seq(Msgs)
    BY EmptySeq
  <2> QED BY <1>1, <1>n, <2>1 DEF BlkTypes
<1>7. Unread = 0..OBlkCnt-1 /\ \A s \in Unread : ctlIn[s].cmd = "avl"
  <2>1. \A s \in Slots : s \in Nat /\ (ctlIn[s] # NoMsg <=> s < OBlkCnt)
    BY <1>1, <1>3, MsgCmds DEF Slots
  <2>2. \A s \in 0..OBlkCnt-1 : s \in Slots /\ s < OBlkCnt
    BY <1>n DEF Slots
  <2>3. \A s \in Slots : s < OBlkCnt => s \in 0..OBlkCnt-1
    BY <1>n DEF Slots
  <2>4. Unread = {s \in Slots : ctlIn[s] # NoMsg}
    BY <1>1 DEF Unread
  <2>5. Unread = 0..OBlkCnt-1
    BY <2>1, <2>2, <2>3, <2>4
  <2>6. \A s \in 0..OBlkCnt-1 : ctlIn[s] = AvlMsg
    BY <1>1, <2>2
  <2> QED BY <1>3, <2>5, <2>6
<1>8. NotTaken("avl") = OBlkCnt
  <2>1. {s \in Unread : ctlIn[s].cmd = "avl"} = 0..OBlkCnt-1
    BY <1>7
  <2>2. Cardinality(0..OBlkCnt-1) = OBlkCnt
    BY <1>n, FS_Interval
  <2> QED BY <2>1, <2>2 DEF NotTaken, SlotsWith
<1>9. NotTaken("rdy") = 0
  <2>1. {s \in Unread : ctlIn[s].cmd = "rdy"} = {}
    BY <1>7
  <2> QED BY <2>1, FS_EmptySet DEF NotTaken, SlotsWith
<1>10. OnTheWay("rdy") = 0 /\ OnTheWay("avl") = 0
  <2>1. ASSUME NEW c \in {"rdy", "avl"} PROVE OnTheWay(c) = 0
    <3>1. {s \in DOMAIN ctlOut : ctlOut[s].cmd = c} = {}
      BY <1>1, <1>3
    <3>2. {w \in oCtlWr : w.msg.cmd = c} = {}
      BY <1>1
    <3>3. oCtlWrMsg.cmd # c
      BY <1>1, <1>3
    <3>4. SlotsWith(ctlOut, DOMAIN ctlOut, c) = 0
      BY <3>1, FS_EmptySet DEF SlotsWith
    <3>5. Cardinality({w \in oCtlWr : w.msg.cmd = c}) = 0
      BY <3>2, FS_EmptySet
    <3> QED BY <3>3, <3>4, <3>5 DEF OnTheWay
  <2> QED BY <2>1
<1>11. InHeld = 0 /\ InBack = 0 /\ OutHeld = 0 /\ OutDone = 0 /\ Len(iBlkRdyQue) = 0
  BY <1>1 DEF InHeld, InBack, OutHeld, OutDone
<1>12. InSum = IBlkCnt
  <2>1. InSum = IBlkCnt + 0 + 0 + 0 + 0 + 0
    BY <1>1, <1>9, <1>10, <1>11 DEF InSum
  <2> QED BY <1>n, <2>1
<1>13. OutSum = OBlkCnt
  <2>1. OutSum = 0 + 0 + 0 + 0 + 0 + OBlkCnt
    BY <1>1, <1>8, <1>10, <1>11 DEF OutSum
  <2> QED BY <1>n, <2>1
<1> QED BY <1>4, <1>5, <1>6, <1>12, <1>13, <1>n DEF BlkInv, Sums

\* The rings and the sums are kept by every step.
THEOREM BlkInvariance == Spec => []BlkInv
<1>1. Init => BlkInv
  BY InitBlocks, PersAssumption
<1>2. BlkInv /\ OutInv /\ [Next]_vars => BlkInv'
  <2> SUFFICES ASSUME BlkInv, OutInv, [Next]_vars PROVE BlkInv'
    OBVIOUS
  <2>1. CASE HifStep
    BY <2>1, IcmKeepsSums, OcmKeepsSums, IbkKeepsSums, ObkKeepsSums, IdleKeepsSums, PersAssumption
       DEF HifStep, Alone, HifNext
  <2>2. CASE HtiStep
    BY <2>2, HtiKeepsSums, PersAssumption DEF HtiStep
  <2>3. CASE HostNext
    BY <2>3, HostKeepsSums, PersAssumption, UnitAssumption
  <2>4. CASE UNCHANGED vars
    <3>1. UNCHANGED <<inRing, outRing, blkPart>>
      BY <2>4 DEF vars, hifVars, mem, icm, ocm, ctlTo, iAvl, ibk, iRd, obk, oSend, hostVars,
                  inRing, outRing, blkPart
    <3>2. UNCHANGED inRing /\ UNCHANGED outRing /\ UNCHANGED blkPart
      BY <3>1
    <3> QED BY <3>2, InSame, OutSame, SumsStay, PersAssumption DEF BlkInv
  <2> QED BY <2>1, <2>2, <2>3, <2>4 DEF Next, Finished
<1> QED BY <1>1, <1>2, OutInvariance, PTL DEF Spec

\* No block is lost: every block of the host is credit of the host, announced,
\* fetched or on its way back, as long as the unit is busy.
THEOREM InBlocksCorrect == Spec => []InBlocksConserved
<1>1. BlkInv => InBlocksConserved
  <2> SUFFICES ASSUME BlkInv, busy PROVE InSum = IBlkCnt
    BY DEF InBlocksConserved, InSum, InHeld, InBack, NotTaken, One
  <2> QED BY DEF BlkInv, Sums
<1> QED BY <1>1, BlkInvariance, PTL

\* The same for the blocks of the unit.
THEOREM OutBlocksCorrect == Spec => []OutBlocksConserved
<1>1. BlkInv => OutBlocksConserved
  <2> SUFFICES ASSUME BlkInv, busy PROVE OutSum = OBlkCnt
    BY DEF OutBlocksConserved, OutSum, OutHeld, OutDone, NotTaken, One
  <2> QED BY DEF BlkInv, Sums
<1> QED BY <1>1, BlkInvariance, PTL

----------------------------------------------------------------------------
\* The requests to the memory.  Writes of a block are pairwise apart, and of
\* the writes that are not answered those with one tid are of one block: the
\* pending count the block waits for is its own.  Where writes are posted,
\* every write that is not settled will be by a read that is pending or that
\* the block has still to issue.
Filling == {"POP", "WR8", "WR64", "FLSH"}
Reqs == wrReqs \cup posted

IsReq(r) ==
  /\ r.blk \in 0..OBlkCnt-1 /\ r.tid = r.blk % 2
  /\ r.off \in Nat /\ Len(r.dat) \in Nat /\ Len(r.dat) > 0

\* A unit that is not busy begins no block.
Rested == ~busy => iCtlState = "READ" /\ oBlkAvlCnt = 0 /\ oBlkState = "IDLE"

WrTypes ==
  /\ oBlkWrIdx \in 0..OBlkCnt-1 /\ oBlkRdCnt \in 0..McCnt
  /\ rdPend \in [0..1 -> SUBSET Int]
  /\ \A r \in Reqs : IsReq(r)

\* The writes of the block being filled are of words before the next one.
OwnWrites ==
  oBlkState # "IDLE" =>
    \A r \in Reqs : r.tid = Tid => r.blk = oBlkWrIdx /\ r.off + Len(r.dat) <= oBlkWrCnt

Apart ==
  /\ \A r, w \in Reqs : r # w => ~Overlap(r, w)
  /\ \A r, w \in wrReqs : r.tid = w.tid => r.blk = w.blk

NotIssued(c) == \E i \in 1..oBlkRdCnt : c = i % McCnt
Flushing ==
  /\ ~FlshEn => posted = {}
  /\ FlshEn /\ wrReqs # {} => oBlkState \in Filling /\ oBlkRdCnt = McCnt
  /\ FlshEn => \A r \in wrReqs : r.tid = Tid
  /\ busy => \A r \in posted : \/ Mc(r) \in rdPend[r.tid]
                               \/ oBlkState \in Filling /\ r.tid = Tid /\ NotIssued(Mc(r))
  /\ oBlkState \in Filling \ {"FLSH"} => oBlkRdCnt = McCnt

WrInv == WrTypes /\ OwnWrites /\ Apart /\ Flushing

wrPart == <<wrReqs, posted, rdPend, oBlkState, oBlkWrCnt, oBlkWrIdx, oBlkRdCnt, busy>>

\* The controller of a write, and the reads of all of them.
LEMMA AnyMc ==
  ASSUME PersAssumption, NEW r, IsReq(r), oBlkRdCnt = McCnt
  PROVE  NotIssued(Mc(r))
<1>1. /\ OBlkCnt \in Nat /\ BlkQw \in Nat /\ LineQw \in Nat /\ LineQw > 0 /\ McCnt \in Nat /\ McCnt > 1
      /\ r.blk \in Nat /\ r.off \in Nat
  BY SMTT(30) DEF PersAssumption, IsReq
<1>2. r.blk * BlkQw + r.off \in Nat
  BY <1>1
<1> DEFINE x == (r.blk * BlkQw + r.off) \div LineQw
<1>3. x \in Nat
  BY <1>1, <1>2
<1> HIDE DEF x
<1>4. x % McCnt \in 0..McCnt-1
  BY <1>1, <1>3
<1>5. CASE x % McCnt = 0
  <2>1. McCnt % McCnt = 0 /\ McCnt \in 1..McCnt
    BY <1>1
  <2> QED BY <1>5, <2>1 DEF NotIssued, Mc, x
<1>6. CASE x % McCnt # 0
  <2>1. (x % McCnt) % McCnt = x % McCnt /\ x % McCnt \in 1..McCnt
    BY <1>1, <1>4, <1>6
  <2> QED BY <2>1 DEF NotIssued, Mc, x
<1> QED BY <1>5, <1>6

\* A step that changes nothing the invariant is about.
LEMMA WrUnaffected ==
  ASSUME WrInv, UNCHANGED wrPart
  PROVE  WrInv'
BY DEF WrInv, WrTypes, OwnWrites, Apart, Flushing, NotIssued, Reqs, Tid, wrPart

\* No request at first.
LEMMA InitWrites ==
  ASSUME PersAssumption, Init
  PROVE  WrInv /\ Rested
<1>1. /\ wrReqs = {} /\ posted = {} /\ rdPend = [t \in 0..1 |-> {}] /\ oBlkState = "IDLE"
      /\ oBlkWrIdx = 0 /\ oBlkRdCnt = 0 /\ busy = TRUE
  BY DEF Init, HifInit, HifReset
<1>2. OBlkCnt \in Nat /\ OBlkCnt > 0 /\ McCnt \in Nat
  BY DEF PersAssumption
<1> QED BY <1>1, <1>2 DEF WrInv, WrTypes, OwnWrites, Apart, Flushing, Filling, Reqs, Rested

\* A block is begun: no request has its tid any more.
LEMMA BeginKeeps ==
  ASSUME PersAssumption, WrInv, Rested, oBlkAvlCnt \in Nat, busy \in BOOLEAN, ObkIdle
  PROVE  WrInv'
<1>1. /\ oBlkState = "IDLE" /\ oBlkAvlCnt # 0 /\ BlkWritten(Tid) /\ oBlkState' \in {"POP", "SEND"}
      /\ oBlkRdCnt' = McCnt /\ UNCHANGED <<wrReqs, posted, rdPend, oBlkWrIdx, busy>>
  BY DEF ObkIdle, oMem, ObkRest
<1>2. busy
  BY <1>1 DEF Rested
<1>3. \A r \in Reqs : r.tid # Tid
  <2>1. \A r \in wrReqs : r.tid # Tid
    BY <1>1 DEF BlkWritten, WrPend
  <2>2. \A r \in posted : r.tid # Tid
    BY <1>1, <1>2 DEF BlkWritten, WrInv, Flushing, Filling
  <2> QED BY <2>1, <2>2 DEF Reqs
<1>4. FlshEn => wrReqs = {}
  BY <1>1 DEF WrInv, Flushing, Filling
<1>5. WrTypes'
  BY <1>1 DEF WrInv, WrTypes, Reqs, PersAssumption
<1>6. OwnWrites' /\ Apart'
  BY <1>1, <1>3 DEF WrInv, OwnWrites, Apart, Reqs, Tid
<1>7. Flushing'
  BY <1>1, <1>4 DEF WrInv, Flushing, Filling
<1> QED BY <1>5, <1>6, <1>7 DEF WrInv

\* Words are written: behind those before.
LEMMA WordsKeep ==
  ASSUME PersAssumption, WrInv, OutInv, busy \in BOOLEAN, NEW n \in 1..Len(oBlkWrDat), ObkWrite(n),
         oBlkState \in {"WR8", "WR64"}, oBlkState' \in {"POP", "WR8", "FLSH"}
  PROVE  WrInv'
<1> DEFINE new == [tid |-> Tid, blk |-> oBlkWrIdx, off |-> oBlkWrCnt, dat |-> SubSeq(oBlkWrDat, 1, n)]
<1>1. /\ wrReqs' = wrReqs \cup {new} /\ oBlkWrCnt' = oBlkWrCnt + n
      /\ UNCHANGED <<posted, rdPend, oBlkWrIdx, oBlkRdCnt, busy>>
  BY DEF ObkWrite, ObkRest
<1>t. /\ oBlkWrCnt \in Nat /\ n \in Nat /\ n > 0 /\ oBlkWrIdx \in 0..OBlkCnt-1 /\ oBlkWrIdx \in Nat
      /\ oBlkRdCnt = McCnt
  <2>1. oBlkWrCnt \in Nat /\ oBlkWrDat \in Seq(Nat)
    BY DEF OutInv, OutTypes
  <2>2. oBlkWrIdx \in 0..OBlkCnt-1 /\ oBlkRdCnt = McCnt
    BY DEF WrInv, WrTypes, Flushing, Filling
  <2>3. n \in Nat /\ n > 0
    BY <2>1, LenProperties
  <2> QED BY <2>1, <2>2, <2>3
<1>2. Len(new.dat) = n
  <2>1. oBlkWrDat \in Seq(Nat)
    BY DEF OutInv, OutTypes
  <2>2. Len(SubSeq(oBlkWrDat, 1, n)) = n
    <3>1. Len(oBlkWrDat) \in Nat /\ n \in 1..Len(oBlkWrDat)
      BY <2>1, LenProperties
    <3>2. 1 \in 1..Len(oBlkWrDat) + 1 /\ n \in 0..Len(oBlkWrDat)
      BY <3>1
    <3> QED BY <2>1, <3>1, <3>2, SubSeqProperties
  <2> QED BY <2>2
<1>3. /\ new.tid = Tid /\ new.blk = oBlkWrIdx /\ new.off = oBlkWrCnt
  OBVIOUS
<1> HIDE DEF new
<1>4. IsReq(new)
  BY <1>t, <1>2, <1>3 DEF IsReq, Tid
<1>5. \A r \in Reqs : IsReq(r)
  BY DEF WrInv, WrTypes
<1>6. \A r \in Reqs : r.tid = Tid => r.blk = oBlkWrIdx /\ r.off + Len(r.dat) <= oBlkWrCnt
  BY DEF WrInv, OwnWrites
<1>7. Reqs' = Reqs \cup {new} /\ Tid' = Tid
  BY <1>1 DEF Reqs, Tid
<1>8. WrTypes'
  BY <1>1, <1>4, <1>7 DEF WrInv, WrTypes, IsReq
<1>9. OwnWrites'
  <2>1. ASSUME NEW r \in Reqs, r.tid = Tid PROVE r.off + Len(r.dat) <= oBlkWrCnt + n
    <3>1. r.off \in Nat /\ Len(r.dat) \in Nat /\ r.off + Len(r.dat) <= oBlkWrCnt
      BY <1>5, <1>6, <2>1 DEF IsReq
    <3> QED BY <1>t, <3>1, SMTT(30)
  <2>2. new.off + Len(new.dat) <= oBlkWrCnt + n
    BY <1>t, <1>2, <1>3
  <2>3. \A r \in Reqs' : r.tid = Tid => r.blk = oBlkWrIdx /\ r.off + Len(r.dat) <= oBlkWrCnt + n
    BY <1>3, <1>6, <1>7, <2>1, <2>2
  <2> QED BY <1>1, <1>7, <2>3 DEF OwnWrites
<1>10. ASSUME NEW r \in Reqs PROVE ~Overlap(r, new) /\ ~Overlap(new, r)
  <2>1. CASE r.blk # oBlkWrIdx
    BY <1>3, <2>1 DEF Overlap
  <2>2. CASE r.blk = oBlkWrIdx
    <3>1. r.tid = Tid
      BY <1>5, <2>2 DEF IsReq, Tid
    <3>2. r.off \in Nat /\ Len(r.dat) \in Nat /\ r.off + Len(r.dat) <= oBlkWrCnt
      BY <1>5, <1>6, <3>1 DEF IsReq
    <3> QED BY <1>t, <1>2, <1>3, <3>2, SMTT(30) DEF Overlap
  <2> QED BY <2>1, <2>2
<1>11. Apart'
  <2>1. \A r, w \in Reqs' : r # w => ~Overlap(r, w)
    BY <1>7, <1>10 DEF WrInv, Apart
  <2>2. \A r, w \in wrReqs' : r.tid = w.tid => r.blk = w.blk
    BY <1>1, <1>3, <1>6 DEF WrInv, Apart, Reqs
  <2>3. \A r, w : Overlap(r, w)' = Overlap(r, w)
    BY DEF Overlap
  <2> QED BY <2>1, <2>2, <2>3 DEF Apart
<1>12. Flushing'
  <2>1. oBlkState' \in Filling /\ oBlkState \in Filling
    BY DEF Filling
  <2>2. \A c : NotIssued(c)' = NotIssued(c)
    BY <1>1 DEF NotIssued
  <2>3. \A r : Mc(r)' = Mc(r)
    BY DEF Mc
  <2> QED BY <1>t, <1>1, <1>3, <1>7, <2>1, <2>2, <2>3 DEF WrInv, Flushing
<1> QED BY <1>8, <1>9, <1>11, <1>12 DEF WrInv

\* Fewer requests, the same block: nothing is lost but a request.
LEMMA FewerReqs ==
  ASSUME WrInv, wrReqs' \subseteq wrReqs, Reqs' \subseteq Reqs
  PROVE  Apart'
<1>1. \A r, w : Overlap(r, w)' = Overlap(r, w)
  BY DEF Overlap
<1> QED BY <1>1 DEF WrInv, Apart

\* The machine goes on with the block it fills.
LEMMA FillingKeeps ==
  ASSUME WrInv, ObkClose \/ ObkPop
  PROVE  WrInv'
<1>1. /\ UNCHANGED <<wrReqs, posted, rdPend, oBlkWrCnt, oBlkWrIdx, oBlkRdCnt, busy>>
      /\ oBlkState = "POP" /\ oBlkState' \in {"FLSH", "WR8", "WR64", "POP"}
  BY DEF ObkClose, ObkPop, ObkRest, oWr, oMem
<1>2. oBlkRdCnt = McCnt
  BY <1>1 DEF WrInv, Flushing, Filling
<1>3. WrTypes' /\ OwnWrites' /\ Apart'
  BY <1>1 DEF WrInv, WrTypes, OwnWrites, Apart, Reqs, Tid
<1>4. Flushing'
  BY <1>1, <1>2 DEF WrInv, Flushing, Filling, NotIssued, Tid
<1> QED BY <1>3, <1>4 DEF WrInv

\* A read follows the writes: of a controller that was still to be read.
LEMMA FlushKeeps ==
  ASSUME PersAssumption, WrInv, ObkFlsh
  PROVE  WrInv'
<1> DEFINE c == oBlkRdCnt % McCnt
<1>1. /\ oBlkState = "FLSH" /\ FlshEn /\ WrPend(Tid) = {} /\ oBlkRdCnt # 0
      /\ rdPend' = [rdPend EXCEPT ![Tid] = @ \cup {c}]
      /\ oBlkRdCnt' = oBlkRdCnt - 1
      /\ UNCHANGED <<oBlkState, oBlkWrCnt, oBlkWrIdx, wrReqs, posted, busy>>
  BY DEF ObkFlsh, ObkRest
<1>2. /\ oBlkRdCnt \in 1..McCnt /\ McCnt \in Nat /\ McCnt > 0 /\ OBlkCnt \in Nat
      /\ oBlkWrIdx \in 0..OBlkCnt-1 /\ oBlkWrIdx \in Nat
  BY <1>1 DEF WrInv, WrTypes, PersAssumption
<1>3. c \in Int /\ Tid \in 0..1 /\ oBlkRdCnt' \in 0..McCnt
  BY <1>1, <1>2 DEF Tid
<1>4. wrReqs = {}
  BY <1>1 DEF WrPend, WrInv, Flushing
<1> HIDE DEF c
<1>5. /\ rdPend' \in [0..1 -> SUBSET Int] /\ rdPend'[Tid] = rdPend[Tid] \cup {c}
      /\ \A t \in 0..1 : rdPend[t] \subseteq rdPend'[t]
  BY <1>1, <1>3 DEF WrInv, WrTypes
<1>6. WrTypes'
  BY <1>1, <1>3, <1>5 DEF WrInv, WrTypes, Reqs
<1>7. OwnWrites' /\ Apart'
  BY <1>1 DEF WrInv, OwnWrites, Apart, Reqs, Tid
<1>8. ASSUME NEW d, NotIssued(d) PROVE d = c \/ NotIssued(d)'
  <2>1. PICK i \in 1..oBlkRdCnt : d = i % McCnt
    BY <1>8 DEF NotIssued
  <2>2. CASE i = oBlkRdCnt
    BY <2>1, <2>2 DEF c
  <2>3. CASE i # oBlkRdCnt
    <3>1. i \in 1..oBlkRdCnt-1
      BY <1>2, <2>1, <2>3
    <3> QED BY <1>1, <2>1, <3>1 DEF NotIssued
  <2> QED BY <2>2, <2>3
<1>9. ASSUME busy', NEW r \in posted'
      PROVE  Mc(r)' \in rdPend'[r.tid] \/ (oBlkState' \in Filling /\ r.tid = Tid' /\ NotIssued(Mc(r))')
  <2>1. r \in posted /\ busy /\ Mc(r)' = Mc(r) /\ Tid' = Tid /\ oBlkState' \in Filling
    BY <1>1, <1>9 DEF Mc, Tid, Filling
  <2>2. r.tid \in 0..1
    <3>1. r.tid = r.blk % 2 /\ r.blk \in 0..OBlkCnt-1
      BY <2>1 DEF WrInv, WrTypes, Reqs, IsReq
    <3> QED BY <1>2, <3>1
  <2>3. CASE Mc(r) \in rdPend[r.tid]
    BY <1>5, <2>1, <2>2, <2>3
  <2>4. CASE r.tid = Tid /\ NotIssued(Mc(r))
    <3>1. Mc(r) = c \/ NotIssued(Mc(r))'
      BY <1>8, <2>4
    <3> QED BY <1>5, <2>1, <2>4, <3>1
  <2>5. Mc(r) \in rdPend[r.tid] \/ (r.tid = Tid /\ NotIssued(Mc(r)))
    BY <2>1 DEF WrInv, Flushing
  <2> QED BY <2>3, <2>4, <2>5
<1>10. Flushing'
  <2>1. ~FlshEn' <=> ~FlshEn
    OBVIOUS
  <2>2. \A r \in posted' : busy' => Mc(r)' \in rdPend'[r.tid]
                             \/ (oBlkState' \in Filling /\ r.tid = Tid' /\ NotIssued(Mc(r))')
    BY <1>9
  <2> QED BY <1>1, <1>4, <2>2 DEF WrInv, Flushing, Filling
<1> QED BY <1>6, <1>7, <1>10 DEF WrInv

\* The block is closed, with nothing left to be written or read.
LEMMA FlushedKeeps ==
  ASSUME PersAssumption, WrInv, ObkFlshed
  PROVE  WrInv'
<1>1. /\ oBlkState = "FLSH" /\ oBlkState' = "SEND" /\ (FlshEn => WrPend(Tid) = {} /\ oBlkRdCnt = 0)
      /\ UNCHANGED <<wrReqs, posted, rdPend, oBlkWrCnt, oBlkWrIdx, oBlkRdCnt, busy>>
  BY DEF ObkFlshed, ObkRest, oWr, oMem
<1>2. FlshEn => wrReqs = {}
  BY <1>1 DEF WrPend, WrInv, Flushing
<1>3. FlshEn => \A c : ~NotIssued(c)
  BY <1>1 DEF NotIssued
<1>4. WrTypes' /\ OwnWrites' /\ Apart'
  BY <1>1 DEF WrInv, WrTypes, OwnWrites, Apart, Reqs, Tid
<1>5. Flushing'
  BY <1>1, <1>2, <1>3 DEF WrInv, Flushing, Filling
<1> QED BY <1>4, <1>5 DEF WrInv

\* The block is announced, or asked to be: the next one is begun later.
LEMMA SentKeeps ==
  ASSUME PersAssumption, WrInv, ObkSendData \/ ObkSendItem
  PROVE  WrInv'
<1>1. /\ oBlkState = "SEND" /\ oBlkState' = "IDLE" /\ oBlkWrIdx' = (oBlkWrIdx + 1) % OBlkCnt
      /\ UNCHANGED <<wrReqs, posted, rdPend, oBlkRdCnt, busy>>
  BY DEF ObkSendData, ObkSendItem, ObkSend, ObkRest, oMem
<1>2. oBlkWrIdx' \in 0..OBlkCnt-1
  <2>1. OBlkCnt \in Nat /\ OBlkCnt > 0 /\ oBlkWrIdx \in 0..OBlkCnt-1
    BY DEF PersAssumption, WrInv, WrTypes
  <2> QED BY <1>1, <2>1
<1>3. FlshEn => wrReqs = {}
  BY <1>1 DEF WrInv, Flushing, Filling
<1>4. WrTypes'
  BY <1>1, <1>2 DEF WrInv, WrTypes, Reqs
<1>5. OwnWrites' /\ Apart'
  BY <1>1 DEF WrInv, OwnWrites, Apart, Reqs
<1>6. Flushing'
  BY <1>1, <1>3 DEF WrInv, Flushing, Filling
<1> QED BY <1>4, <1>5, <1>6 DEF WrInv

\* The memory answers a write, and settles one that is posted.
LEMMA AnswerKeeps ==
  ASSUME PersAssumption, WrInv, ObkWrRsp \/ MemSettle
  PROVE  WrInv'
<1>1. UNCHANGED <<rdPend, oBlkState, oBlkWrCnt, oBlkWrIdx, oBlkRdCnt, busy>>
  BY DEF ObkWrRsp, MemSettle, MemRest, oWr
<1>2. /\ wrReqs' \subseteq wrReqs /\ Reqs' \subseteq Reqs
      /\ \A r \in posted' : r \in posted \/ (FlshEn /\ r \in wrReqs)
  BY DEF ObkWrRsp, MemSettle, Reqs
<1>3. WrTypes' /\ OwnWrites' /\ Apart'
  BY <1>1, <1>2, FewerReqs DEF WrInv, WrTypes, OwnWrites, Tid
<1>4. ASSUME NEW r \in wrReqs, FlshEn
      PROVE  oBlkState \in Filling /\ r.tid = Tid /\ NotIssued(Mc(r))
  <2>1. oBlkState \in Filling /\ oBlkRdCnt = McCnt /\ r.tid = Tid
    BY <1>4 DEF WrInv, Flushing
  <2>2. IsReq(r)
    BY DEF WrInv, WrTypes, Reqs
  <2> QED BY <2>1, <2>2, AnyMc
<1>5. ASSUME NEW r \in posted', busy
      PROVE  Mc(r) \in rdPend[r.tid] \/ (oBlkState \in Filling /\ r.tid = Tid /\ NotIssued(Mc(r)))
  BY <1>2, <1>4, <1>5 DEF WrInv, Flushing
<1>6. /\ \A c : NotIssued(c)' = NotIssued(c)
      /\ \A r : Mc(r)' = Mc(r)
      /\ Tid' = Tid
  BY <1>1 DEF NotIssued, Mc, Tid
<1>7. /\ ~FlshEn => posted' = {}
      /\ FlshEn /\ wrReqs' # {} => oBlkState' \in Filling /\ oBlkRdCnt' = McCnt
      /\ FlshEn => \A r \in wrReqs' : r.tid = Tid'
      /\ oBlkState' \in Filling \ {"FLSH"} => oBlkRdCnt' = McCnt
  BY <1>1, <1>2, <1>6 DEF WrInv, Flushing
<1>8. busy' => \A r \in posted' : Mc(r)' \in rdPend'[r.tid]
                             \/ (oBlkState' \in Filling /\ r.tid = Tid' /\ NotIssued(Mc(r))')
  BY <1>1, <1>5, <1>6 DEF NotIssued, Mc
<1>9. Flushing'
  BY <1>7, <1>8 DEF Flushing
<1> QED BY <1>3, <1>9 DEF WrInv

\* A read is answered when no write of its controller is left.
LEMMA ReadKeeps ==
  ASSUME WrInv, ObkRdRsp
  PROVE  WrInv'
<1>1. UNCHANGED <<wrReqs, posted, oBlkState, oBlkWrCnt, oBlkWrIdx, oBlkRdCnt, busy>>
  BY DEF ObkRdRsp, MemRest, oWr
<1>t. PICK t \in 0..1 : \E c \in rdPend[t] :
        (\A r \in posted : Mc(r) # c) /\ rdPend' = [rdPend EXCEPT ![t] = @ \ {c}]
  BY DEF ObkRdRsp
<1>2. PICK c \in rdPend[t] :
        (\A r \in posted : Mc(r) # c) /\ rdPend' = [rdPend EXCEPT ![t] = @ \ {c}]
  BY <1>t
<1>3. rdPend' \in [0..1 -> SUBSET Int] /\ \A u \in 0..1 : rdPend[u] \ {c} \subseteq rdPend'[u]
  BY <1>2 DEF WrInv, WrTypes
<1>4. WrTypes' /\ OwnWrites' /\ Apart'
  BY <1>1, <1>3 DEF WrInv, WrTypes, OwnWrites, Apart, Reqs, Tid
<1>5. ASSUME NEW r \in posted, Mc(r) \in rdPend[r.tid] PROVE Mc(r) \in rdPend'[r.tid]
  BY <1>2, <1>5 DEF WrInv, WrTypes
<1>6. Flushing'
  BY <1>1, <1>5 DEF WrInv, Flushing, NotIssued, Mc, Tid
<1> QED BY <1>4, <1>6 DEF WrInv

\* The reset forgets the requests, but not what the memory still has to settle.
LEMMA ResetKeeps ==
  ASSUME PersAssumption, WrInv, Idle
  PROVE  WrInv' /\ Rested'
<1>1. /\ wrReqs' = {} /\ posted' = posted /\ rdPend' = [t \in 0..1 |-> {}] /\ oBlkState' = "IDLE"
      /\ oBlkWrIdx' = 0 /\ oBlkRdCnt' = 0 /\ busy' = FALSE /\ iCtlState' = "READ" /\ oBlkAvlCnt' = 0
  BY DEF Idle
<1>2. OBlkCnt \in Nat /\ OBlkCnt > 0 /\ McCnt \in Nat
  BY DEF PersAssumption
<1>3. Reqs' \subseteq Reqs
  BY <1>1 DEF Reqs
<1>4. WrTypes'
  <2>1. rdPend' \in [0..1 -> SUBSET Int]
    BY <1>1
  <2>2. \A r \in Reqs' : IsReq(r)
    BY <1>3 DEF WrInv, WrTypes
  <2> QED BY <1>1, <1>2, <2>1, <2>2 DEF WrTypes, IsReq
<1>5. OwnWrites' /\ Apart'
  <2>1. wrReqs' \subseteq wrReqs
    BY <1>1
  <2> QED BY <1>1, <1>3, <2>1, FewerReqs DEF OwnWrites
<1>6. Flushing'
  BY <1>1 DEF WrInv, Flushing, Filling
<1> QED BY <1>1, <1>4, <1>5, <1>6 DEF WrInv, Rested

\* Every step of CPersHif keeps the requests apart.
LEMMA HifKeepsWrites ==
  ASSUME PersAssumption, WrInv, Rested, OutInv, oBlkAvlCnt \in Nat, busy \in BOOLEAN, HifNext
  PROVE  WrInv' /\ Rested'
<1>1. CASE IcmNext \/ OcmNext \/ IbkNext
  <2>1. UNCHANGED wrPart
    <3>1. CASE IcmNext
      BY <3>1 DEF IcmNext, IcmRead, IcmEmpty, IcmTake, IcmUser, IcmRdy, IcmAvl, IcmWrite, IcmWrRsp,
                  obk, oWr, oMem, wrPart
    <3>2. CASE OcmNext
      BY <3>2, SMTT(30) DEF OcmNext, OcmSelect, OcmRead, OcmRdWait, OcmWrite, OcmWrRsp, obk, oWr, oMem, wrPart
    <3>3. CASE IbkNext
      BY <3>3 DEF IbkNext, IbkSpecial, IbkData, IbkTake, IbkFetch64, IbkFetch8, Fetch, IbkRead,
                  IbkWait, IbkRdRsp, IbkPush, obk, oWr, oMem, wrPart
    <3> QED BY <1>1, <3>1, <3>2, <3>3
  <2>2. Rested'
    <3>1. CASE IcmNext
      BY <3>1 DEF IcmNext, IcmRead, IcmEmpty, IcmTake, IcmUser, IcmRdy, IcmAvl, IcmWrite, IcmWrRsp,
                  obk, Rested
    <3>2. CASE OcmNext
      BY <3>2, SMTT(30) DEF OcmNext, OcmSelect, OcmRead, OcmRdWait, OcmWrite, OcmWrRsp, icm, obk, Rested
    <3>3. CASE IbkNext
      BY <3>3 DEF IbkNext, IbkSpecial, IbkData, IbkTake, IbkFetch64, IbkFetch8, Fetch, IbkRead,
                  IbkWait, IbkRdRsp, IbkPush, icm, obk, Rested
    <3> QED BY <1>1, <3>1, <3>2, <3>3
  <2> QED BY <2>1, <2>2, WrUnaffected
<1>2. CASE ObkTimer \/ ObkIdleFlsh
  <2>1. UNCHANGED wrPart
    BY <1>2 DEF ObkTimer, ObkIdleFlsh, ObkRest, oWr, oMem, wrPart
  <2>2. Rested'
    BY <1>2 DEF ObkTimer, ObkIdleFlsh, ObkRest, icm, Rested
  <2> QED BY <2>1, <2>2, WrUnaffected
<1>3. CASE MemNext
  <2>1. Rested'
    BY <1>3 DEF MemNext, ObkWrRsp, MemSettle, ObkRdRsp, MemRest, icm, Rested
  <2> QED BY <1>3, <2>1, AnswerKeeps, ReadKeeps DEF MemNext
<1>4. CASE Idle
  BY <1>4, ResetKeeps
<1>5. CASE ObkNext /\ ~ObkIdleFlsh
  <2>1. Rested'
    <3>1. /\ oBlkState # "IDLE" \/ oBlkAvlCnt # 0
          /\ busy' = busy
      BY <1>5 DEF ObkNext, ObkIdle, ObkClose, ObkPop, ObkWr8, ObkWr64, ObkWrite, ObkFlsh, ObkFlshed,
                  ObkSendData, ObkSendItem, ObkSend, ObkRest
    <3> QED BY <3>1 DEF Rested
  <2>2. CASE ObkIdle
    BY <2>1, <2>2, BeginKeeps
  <2>3. CASE ObkWr8
    <3>1. 1 \in 1..Len(oBlkWrDat)
      BY <2>3, LenProperties DEF ObkWr8, OutInv, OutTypes, Gathered
    <3>2. /\ ObkWrite(1) /\ oBlkState \in {"WR8", "WR64"} /\ oBlkState' \in {"POP", "WR8", "FLSH"}
      BY <2>3 DEF ObkWr8
    <3> QED BY <2>1, <3>1, <3>2, WordsKeep
  <2>4. CASE ObkWr64
    <3>1. LineQw \in 1..Len(oBlkWrDat)
      BY <2>4 DEF ObkWr64, OutInv, Gathered, PersAssumption
    <3>2. /\ ObkWrite(LineQw) /\ oBlkState \in {"WR8", "WR64"} /\ oBlkState' \in {"POP", "WR8", "FLSH"}
      BY <2>4 DEF ObkWr64
    <3> QED BY <2>1, <3>1, <3>2, WordsKeep
  <2> QED BY <1>5, <2>1, <2>2, <2>3, <2>4, FillingKeeps, FlushKeeps, FlushedKeeps, SentKeeps
          DEF ObkNext
<1> QED BY <1>1, <1>2, <1>3, <1>4, <1>5 DEF HifNext

\* HTI and the host have no part in it.
LEMMA OthersLeaveWrites ==
  ASSUME WrInv, Rested, HtiStep \/ HostNext \/ UNCHANGED vars
  PROVE  WrInv' /\ Rested'
<1>1. UNCHANGED wrPart /\ UNCHANGED <<iCtlState, oBlkAvlCnt>>
  <2>1. CASE HtiStep /\ HtiNext
    BY <2>1 DEF HtiNext, HtiCallNext, HtiRtnNext, CallIdleData, CallIdleCall, CallIdleHalt, CallArgs,
                CallCmd, CallData, IhmPop, RtnIdle, RtnCmd, RtnArg, RtnDone, RtnData,
                CallRest, RtnRest, HifRest, icm, oWr, oMem, wrPart
  <2>2. CASE HtiStep /\ ModNext
    BY <2>2, SMTT(30) DEF ModNext, ModTakeCall, ModReturn, ModSend, ModSendMsg, ModRest, HifRest, hifVars,
                icm, obk, oWr, oMem, wrPart
  <2>3. CASE HostNext
    BY <2>3 DEF HostNext, HostData, HostSpecial, HostHalt, HostUser, HostRecv, HostGiveBack, HostBlk,
                HostMsg, icm, obk, oWr, oMem, wrPart
  <2>4. CASE UNCHANGED vars
    BY <2>4 DEF vars, hifVars, icm, obk, oWr, oMem, wrPart
  <2> QED BY <2>1, <2>2, <2>3, <2>4 DEF HtiStep
<1>2. UNCHANGED busy
  BY <1>1 DEF wrPart
<1>3. UNCHANGED oBlkState
  BY <1>1 DEF wrPart
<1> QED BY <1>1, <1>2, <1>3, WrUnaffected DEF Rested

\* The requests of the blocks are kept apart by every step.
THEOREM WrInvariance == Spec => [](WrInv /\ Rested)
<1>1. Init => WrInv /\ Rested
  BY InitWrites, PersAssumption
<1>2. WrInv /\ Rested /\ OutInv /\ BlkInv /\ [Next]_vars => WrInv' /\ Rested'
  <2> SUFFICES ASSUME WrInv, Rested, OutInv, BlkInv, [Next]_vars PROVE WrInv' /\ Rested'
    OBVIOUS
  <2>1. oBlkAvlCnt \in Nat /\ busy \in BOOLEAN
    BY DEF BlkInv, BlkTypes
  <2>2. CASE HifStep
    BY <2>1, <2>2, HifKeepsWrites, PersAssumption DEF HifStep, Alone
  <2>3. CASE HtiStep \/ HostNext \/ UNCHANGED vars
    BY <2>3, OthersLeaveWrites
  <2> QED BY <2>2, <2>3 DEF Next, Finished
<1> QED BY <1>1, <1>2, OutInvariance, BlkInvariance, PTL DEF Spec

\* No two requests the memory may reorder touch one address, whatever the
\* number of slots, blocks, lines and memory controllers.
THEOREM NoConflictCorrect == Spec => []NoConflict
<1>1. BlkInv /\ WrInv => NoConflict
  <2> SUFFICES ASSUME BlkInv, WrInv PROVE NoConflict
    OBVIOUS
  <2>1. Cardinality(iCtlWr) <= 1
    <3>1. CASE iCtlWr = {}
      BY <3>1, FS_EmptySet
    <3>2. ASSUME NEW s \in iCtlWr PROVE Cardinality(iCtlWr) <= 1
      <4>1. iCtlWr = {s}
        BY DEF BlkInv, InRing
      <4>2. Cardinality({s}) = 1
        BY FS_Singleton
      <4> QED BY <4>1, <4>2
    <3> QED BY <3>1, <3>2
  <2>2. Cardinality(oCtlWr) <= 1
    <3>1. CASE oCtlWr = {}
      BY <3>1, FS_EmptySet
    <3>2. ASSUME NEW w \in oCtlWr PROVE Cardinality(oCtlWr) <= 1
      <4>1. oCtlWr = {w}
        BY DEF BlkInv, OutRing
      <4>2. Cardinality({w}) = 1
        BY FS_Singleton
      <4> QED BY <4>1, <4>2
    <3> QED BY <3>1, <3>2
  <2>3. iCtlRdIdx \notin iCtlWr
    BY NextSlot, PersAssumption DEF BlkInv, InRing
  <2>4. \A w \in oCtlWr : w.slot # oCtlWrIdx /\ ctlOut[w.slot] = NoMsg
    BY NextSlot, PersAssumption DEF BlkInv, OutRing
  <2> QED BY <2>1, <2>2, <2>3, <2>4 DEF NoConflict, WrInv, Apart, Reqs
<1> QED BY <1>1, BlkInvariance, WrInvariance, PTL

----------------------------------------------------------------------------
\* The halt comes last.  The messages not taken lie in the ring from the
\* reader's place to the host's, k of them with the one being taken.
Ahead(s) == IF s < iCtlRdIdx THEN s - iCtlRdIdx + CtlQueSize ELSE s - iCtlRdIdx
Wrap(n)  == IF n >= CtlQueSize THEN n - CtlQueSize ELSE n
TakenNow == IF iCtlState = "WRITE" THEN 1 ELSE 0

InOrder ==
  \E k \in TakenNow..CtlQueSize :
    /\ hInSlot = Wrap(iCtlRdIdx + k)
    /\ \A s \in Slots : s \in Unread <=> TakenNow <= Ahead(s) /\ Ahead(s) < k

\* The place of a slot, in numbers.
LEMMA AheadIs ==
  ASSUME PersAssumption, InRing
  PROVE  /\ CtlQueSize \in Nat /\ CtlQueSize > 1 /\ iCtlRdIdx \in Nat /\ iCtlRdIdx < CtlQueSize
         /\ TakenNow \in 0..1
         /\ \A s \in Slots : /\ s \in Nat /\ s < CtlQueSize /\ Ahead(s) \in 0..CtlQueSize-1
                             /\ Ahead(s) = 0 <=> s = iCtlRdIdx
<1>1. CtlQueSize \in Nat /\ CtlQueSize > 1 /\ iCtlRdIdx \in 0..CtlQueSize-1
  BY DEF PersAssumption, InRing, Slots
<1> QED BY <1>1 DEF Slots, Ahead, TakenNow

\* A poll, and the answer of the memory, leave the order alone.
LEMMA OrderStays ==
  ASSUME InOrder, Unread' = Unread, UNCHANGED <<iCtlRdIdx, hInSlot>>, TakenNow' = TakenNow
  PROVE  InOrder' /\ \A s : Ahead(s)' = Ahead(s)
BY DEF InOrder, Ahead, Wrap

\* The message at the reader's place is taken,
LEMMA OrderTake ==
  ASSUME PersAssumption, InRing, InOrder, iCtlRdIdx \in Unread, Unread' = Unread \ {iCtlRdIdx},
         UNCHANGED <<iCtlRdIdx, hInSlot>>, iCtlState # "WRITE", iCtlState' = "WRITE"
  PROVE  InOrder' /\ \A s : Ahead(s)' = Ahead(s)
<1>1. \A s : Ahead(s)' = Ahead(s)
  BY DEF Ahead
<1>2. TakenNow = 0 /\ TakenNow' = 1
  BY DEF TakenNow
<1>3. PICK k \in 0..CtlQueSize :
        /\ hInSlot = Wrap(iCtlRdIdx + k)
        /\ \A s \in Slots : s \in Unread <=> 0 <= Ahead(s) /\ Ahead(s) < k
  BY <1>2 DEF InOrder
<1>4. iCtlRdIdx \in Slots /\ Ahead(iCtlRdIdx) = 0
  BY AheadIs DEF InRing
<1>5. k \in 1..CtlQueSize
  <2>1. 0 < k
    BY <1>3, <1>4
  <2>2. k \in 0..CtlQueSize /\ CtlQueSize \in Nat
    BY AheadIs
  <2> QED BY <2>1, <2>2
<1>6. ASSUME NEW s \in Slots PROVE s \in Unread' <=> 1 <= Ahead(s) /\ Ahead(s) < k
  <2>1. Ahead(s) \in Nat /\ (Ahead(s) = 0 <=> s = iCtlRdIdx)
    BY AheadIs
  <2>2. s \in Unread <=> 0 <= Ahead(s) /\ Ahead(s) < k
    BY <1>3
  <2>3. 1 <= Ahead(s) <=> s # iCtlRdIdx
    BY <2>1
  <2>4. 0 <= Ahead(s)
    BY <2>1
  <2>5. s \in Unread' <=> s \in Unread /\ s # iCtlRdIdx
    OBVIOUS
  <2> QED BY <2>2, <2>3, <2>4, <2>5
<1>7. hInSlot' = Wrap(iCtlRdIdx' + k)
  BY <1>3
<1>8. Slots' = Slots
  BY DEF Slots
<1> QED BY <1>1, <1>2, <1>5, <1>6, <1>7, <1>8 DEF InOrder, Wrap

\* the reader goes on,
LEMMA OrderNext ==
  ASSUME PersAssumption, InRing, InOrder, Unread' = Unread, hInSlot' = hInSlot,
         iCtlState = "WRITE", iCtlState' = "READ", iCtlRdIdx' = (iCtlRdIdx + 1) % CtlQueSize
  PROVE  InOrder' /\ \A s \in Unread : Ahead(s)' = Ahead(s) - 1
<1>1. TakenNow = 1 /\ TakenNow' = 0
  BY DEF TakenNow
<1>2. PICK k \in 1..CtlQueSize :
        /\ hInSlot = Wrap(iCtlRdIdx + k)
        /\ \A s \in Slots : s \in Unread <=> 1 <= Ahead(s) /\ Ahead(s) < k
  BY <1>1 DEF InOrder
<1>3. /\ CtlQueSize \in Nat /\ CtlQueSize > 1 /\ iCtlRdIdx \in Nat /\ iCtlRdIdx < CtlQueSize
      /\ iCtlRdIdx \in Slots
  BY AheadIs DEF InRing
<1>4. iCtlRdIdx' = IF iCtlRdIdx = CtlQueSize - 1 THEN 0 ELSE iCtlRdIdx + 1
  BY <1>3, NextSlot
<1>5. ASSUME NEW s \in Slots
      PROVE  /\ s # iCtlRdIdx => Ahead(s)' = Ahead(s) - 1
             /\ s = iCtlRdIdx => Ahead(s)' = CtlQueSize - 1
  <2>1. s \in Nat /\ s < CtlQueSize
    BY AheadIs
  <2>2. CASE iCtlRdIdx = CtlQueSize - 1
    BY <1>3, <1>4, <2>1, <2>2 DEF Ahead
  <2>3. CASE iCtlRdIdx # CtlQueSize - 1
    BY <1>3, <1>4, <2>1, <2>3 DEF Ahead
  <2> QED BY <2>2, <2>3
<1>6. k \in Nat /\ k >= 1 /\ k <= CtlQueSize /\ k - 1 \in 0..CtlQueSize
  BY <1>2, <1>3
<1>7. hInSlot' = Wrap(iCtlRdIdx' + (k - 1))
  <2>1. hInSlot' = Wrap(iCtlRdIdx + k)
    BY <1>2
  <2>2. CASE iCtlRdIdx = CtlQueSize - 1
    <3>1. Wrap(iCtlRdIdx + k) = k - 1
      BY <1>3, <1>6, <2>2 DEF Wrap
    <3>2. Wrap(iCtlRdIdx' + (k - 1)) = k - 1
      BY <1>3, <1>4, <1>6, <2>2 DEF Wrap
    <3> QED BY <2>1, <3>1, <3>2
  <2>3. CASE iCtlRdIdx # CtlQueSize - 1
    <3>1. iCtlRdIdx' + (k - 1) = iCtlRdIdx + k
      BY <1>3, <1>4, <1>6, <2>3
    <3> QED BY <2>1, <3>1
  <2> QED BY <2>2, <2>3
<1>8. ASSUME NEW s \in Slots PROVE s \in Unread' <=> 0 <= Ahead(s)' /\ Ahead(s)' < k - 1
  <2>1. Ahead(s) \in Nat /\ (Ahead(s) = 0 <=> s = iCtlRdIdx)
    BY AheadIs
  <2>2. s \in Unread' <=> 1 <= Ahead(s) /\ Ahead(s) < k
    BY <1>2
  <2>3. CASE s = iCtlRdIdx
    BY <1>3, <1>5, <1>6, <2>1, <2>2, <2>3
  <2>4. CASE s # iCtlRdIdx
    BY <1>5, <1>6, <2>1, <2>2, <2>4
  <2> QED BY <2>3, <2>4
<1>9. \A s \in Unread : Ahead(s)' = Ahead(s) - 1
  <2>1. ASSUME NEW s \in Unread PROVE Ahead(s)' = Ahead(s) - 1
    <3>1. s \in Slots
      BY DEF Unread, InRing
    <3>2. s # iCtlRdIdx
      BY DEF Unread
    <3> QED BY <1>5, <3>1, <3>2
  <2> QED BY <2>1
<1>10. Slots' = Slots /\ \A n : Wrap(n)' = Wrap(n)
  BY DEF Slots, Wrap
<1>11. \E j \in 0..CtlQueSize : /\ hInSlot' = Wrap(iCtlRdIdx' + j)
                               /\ \A s \in Slots : s \in Unread' <=> 0 <= Ahead(s)' /\ Ahead(s)' < j
  BY <1>6, <1>7, <1>8
<1> QED BY <1>1, <1>9, <1>10, <1>11 DEF InOrder, Wrap

\* and the host writes behind all that is there.
LEMMA OrderPut ==
  ASSUME PersAssumption, InRing, InOrder, ctlIn[hInSlot] = NoMsg, hInSlot \notin Unread,
         Unread' = Unread \cup {hInSlot},
         UNCHANGED <<iCtlRdIdx, iCtlState>>, hInSlot' = (hInSlot + 1) % CtlQueSize
  PROVE  /\ InOrder' /\ \A s : Ahead(s)' = Ahead(s)
         /\ \A s \in Unread : Ahead(s) < Ahead(hInSlot)
<1>1. TakenNow' = TakenNow /\ \A s : Ahead(s)' = Ahead(s)
  BY DEF TakenNow, Ahead
<1>2. PICK k \in TakenNow..CtlQueSize :
        /\ hInSlot = Wrap(iCtlRdIdx + k)
        /\ \A s \in Slots : s \in Unread <=> TakenNow <= Ahead(s) /\ Ahead(s) < k
  BY DEF InOrder
<1>3. /\ CtlQueSize \in Nat /\ CtlQueSize > 1 /\ iCtlRdIdx \in Nat /\ iCtlRdIdx < CtlQueSize
      /\ TakenNow \in 0..1 /\ iCtlRdIdx \in Slots /\ hInSlot \in Slots
      /\ hInSlot \in Nat /\ hInSlot < CtlQueSize
  BY AheadIs DEF InRing
<1>4. k \in Nat /\ k >= TakenNow /\ k <= CtlQueSize
  BY <1>2, <1>3
<1>5. k # CtlQueSize
  <2> SUFFICES ASSUME k = CtlQueSize PROVE FALSE
    OBVIOUS
  <2>1. hInSlot = iCtlRdIdx
    BY <1>2, <1>3 DEF Wrap
  <2>2. iCtlState # "WRITE"
    BY <2>1 DEF InRing
  <2>3. TakenNow = 0 /\ Ahead(iCtlRdIdx) = 0
    BY <1>3, <2>2, AheadIs DEF TakenNow
  <2>4. iCtlRdIdx \in Unread
    BY <1>2, <1>3, <2>3
  <2> QED BY <2>1, <2>4
<1>6. Ahead(hInSlot) = k
  BY <1>2, <1>3, <1>4, <1>5 DEF Ahead, Wrap
<1>7. hInSlot' = Wrap(iCtlRdIdx' + (k + 1))
  <2>1. hInSlot' = IF hInSlot = CtlQueSize - 1 THEN 0 ELSE hInSlot + 1
    BY <1>3, NextSlot
  <2>2. CASE iCtlRdIdx + k >= CtlQueSize
    <3>1. hInSlot = iCtlRdIdx + k - CtlQueSize
      BY <1>2, <1>3, <1>4, <2>2 DEF Wrap
    <3>2. hInSlot' = iCtlRdIdx + k + 1 - CtlQueSize
      BY <1>3, <1>4, <1>5, <2>1, <3>1
    <3> QED BY <1>3, <1>4, <2>2, <3>2 DEF Wrap
  <2>3. CASE iCtlRdIdx + k < CtlQueSize
    <3>1. hInSlot = iCtlRdIdx + k
      BY <1>2, <1>3, <1>4, <2>3 DEF Wrap
    <3> QED BY <1>3, <1>4, <2>1, <2>3, <3>1 DEF Wrap
  <2> QED BY <1>3, <1>4, <2>2, <2>3
<1>8. ASSUME NEW s \in Slots
      PROVE  s \in Unread' <=> TakenNow <= Ahead(s) /\ Ahead(s) < k + 1
  <2>1. Ahead(s) \in Nat /\ s \in Nat
    BY AheadIs
  <2>2. s \in Unread <=> TakenNow <= Ahead(s) /\ Ahead(s) < k
    BY <1>2
  <2>3. CASE s = hInSlot
    BY <1>3, <1>4, <1>6, <2>1, <2>3
  <2>4. CASE s # hInSlot
    <3>1. Ahead(s) # k
      <4> SUFFICES ASSUME Ahead(s) = Ahead(hInSlot) PROVE s = hInSlot
        BY <1>6, <2>4
      <4>1. s < CtlQueSize
        BY AheadIs
      <4> QED BY <1>3, <2>1, <4>1 DEF Ahead
    <3> QED BY <1>3, <1>4, <2>1, <2>2, <2>4, <3>1
  <2> QED BY <2>3, <2>4
<1>9. \A s \in Unread : Ahead(s) < Ahead(hInSlot)
  <2>1. Unread \subseteq Slots
    BY DEF Unread, InRing
  <2> QED BY <1>2, <1>6, <2>1
<1>10. k + 1 \in TakenNow..CtlQueSize
  BY <1>3, <1>4, <1>5
<1>11. Slots' = Slots /\ \A n : Wrap(n)' = Wrap(n)
  BY DEF Slots, Wrap
<1>12. \E j \in TakenNow..CtlQueSize :
         /\ hInSlot' = Wrap(iCtlRdIdx' + j)
         /\ \A s \in Slots : s \in Unread' <=> TakenNow <= Ahead(s) /\ Ahead(s) < j
  BY <1>7, <1>8, <1>10
<1> QED BY <1>1, <1>9, <1>11, <1>12 DEF InOrder, Wrap

----------------------------------------------------------------------------
\* A queue, whatever is in it.
IsQueue(q) == q \in Seq({q[i] : i \in DOMAIN q})

\* A sequence over any set is one.
LEMMA QueueIs ==
  ASSUME NEW S, NEW q \in Seq(S)
  PROVE  IsQueue(q)
<1>1. Len(q) \in Nat /\ DOMAIN q = 1..Len(q) /\ q = [i \in 1..Len(q) |-> q[i]]
  BY LenProperties
<1>2. q \in [1..Len(q) -> {q[i] : i \in DOMAIN q}]
  BY <1>1
<1> QED BY <1>1, <1>2, SeqDef, SMTT(30) DEF IsQueue

\* An entry more at its end,
LEMMA QueueAppend ==
  ASSUME NEW q, NEW e, IsQueue(q)
  PROVE  /\ IsQueue(Append(q, e)) /\ Len(Append(q, e)) = Len(q) + 1 /\ Len(q) \in Nat
         /\ \A i \in 1..Len(q) : Append(q, e)[i] = q[i]
         /\ Append(q, e)[Len(q) + 1] = e
<1> DEFINE S == {q[i] : i \in DOMAIN q} \cup {e}
<1>1. q \in Seq(S)
  <2>1. Len(q) \in Nat /\ q \in [1..Len(q) -> {q[i] : i \in DOMAIN q}]
    BY LenProperties DEF IsQueue
  <2>2. q \in [1..Len(q) -> S]
    BY <2>1
  <2> QED BY <2>1, <2>2, SeqDef
<1>2. e \in S
  OBVIOUS
<1> HIDE DEF S
<1>3. Append(q, e) \in Seq(S)
  BY <1>1, <1>2, AppendProperties
<1>4. IsQueue(Append(q, e))
  BY <1>3, QueueIs
<1>5. Len(q) \in Nat
  BY <1>1, LenProperties
<1>6. /\ Len(Append(q, e)) = Len(q) + 1
      /\ \A i \in 1..Len(q) : Append(q, e)[i] = q[i]
      /\ Append(q, e)[Len(q) + 1] = e
  BY <1>1, <1>2, AppendProperties
<1> QED BY <1>4, <1>5, <1>6

\* or less at its beginning.
LEMMA QueueTail ==
  ASSUME NEW q, IsQueue(q), q # <<>>
  PROVE  /\ IsQueue(Tail(q)) /\ Len(Tail(q)) = Len(q) - 1 /\ Len(q) \in Nat \ {0}
         /\ Head(q) = q[1]
         /\ \A i \in 1..Len(q) - 1 : Tail(q)[i] = q[i + 1]
<1> DEFINE S == {q[i] : i \in DOMAIN q}
<1>1. q \in Seq(S)
  BY DEF IsQueue
<1> HIDE DEF S
<1>2. Tail(q) \in Seq(S)
  BY <1>1, HeadTailProperties
<1>3. Len(q) \in Nat \ {0}
  BY <1>1, LenProperties, EmptySeq
<1>4. IsQueue(Tail(q))
  BY <1>2, QueueIs
<1>5. /\ Len(Tail(q)) = Len(q) - 1 /\ Head(q) = q[1]
      /\ \A i \in 1..Len(q) - 1 : Tail(q)[i] = q[i + 1]
  BY <1>1, <1>3, HeadTailProperties
<1> QED BY <1>3, <1>4, <1>5

----------------------------------------------------------------------------
\* The halt from the host: in the ring it is the last message but for blocks
\* given back, in the queue of announced blocks the last block, and when HTI
\* has been given it, there is nothing to come.
HaltAt(s) == ctlIn[s].cmd = "rdy" /\ ctlIn[s].ctl = "HALT"
OnlyAvl == \A s \in Unread : ctlIn[s].cmd = "avl"
InOver  == hifToHti_datHalt \/ ~busy

LastInRing ==
  \A s \in Unread : HaltAt(s) =>
    hHalt /\ \A t \in Unread : ctlIn[t].cmd # "avl" => Ahead(t) <= Ahead(s)
LastBlock ==
  \A i \in 1..Len(iBlkRdyQue) : iBlkRdyQue[i].ctl = "HALT" =>
    i = Len(iBlkRdyQue) /\ hHalt /\ OnlyAvl
NothingToCome ==
  InOver => hHalt /\ OnlyAvl /\ iBlkRdyQue = <<>> /\ iBlkState = "IDLE"
LastToHti ==
  /\ IsQueue(iDatQue)
  /\ \A i \in 1..Len(iDatQue) : iDatQue[i].ctl = "HALT" => i = Len(iDatQue) /\ InOver

\* No line is fetched or pushed between two blocks.
Lines ==
  /\ DOMAIN fetch = 0..FetchCnt-1 /\ iBlkPushIdx \in 0..FetchCnt-1
  /\ iBlkState = "IDLE" => \A i \in DOMAIN fetch : fetch[i].pend = {} /\ fetch[i].val = 0

HaltInv == /\ busy => InOrder
           /\ LastInRing /\ LastBlock /\ NothingToCome /\ LastToHti /\ Lines

ringPart == <<ctlIn, iCtlState, iCtlRdIdx, iCtlWr, hInSlot>>
haltPart == <<busy, hHalt, iBlkRdyQue, iBlkState, hifToHti_datHalt, fetch, iBlkPushIdx>>

\* A step that changes nothing of this but the ring, of which what has not
\* been taken stays in its order.
LEMMA HaltRing ==
  ASSUME HaltInv, InRing, busy => InOrder', UNCHANGED haltPart, UNCHANGED iDatQue,
         Unread' \subseteq Unread, \A s \in Unread' : ctlIn'[s] = ctlIn[s],
         \A s, t \in Unread' : Ahead(t) <= Ahead(s) => Ahead(t)' <= Ahead(s)'
  PROVE  HaltInv'
<1> USE DEF haltPart
<1>1. LastInRing'
  BY DEF HaltInv, LastInRing, HaltAt
<1>2. OnlyAvl => OnlyAvl'
  BY DEF OnlyAvl
<1>3. InOver' = InOver
  BY DEF InOver
<1>4. LastBlock' /\ NothingToCome'
  BY <1>2, <1>3 DEF HaltInv, LastBlock, NothingToCome
<1>5. LastToHti' /\ Lines'
  BY <1>3 DEF HaltInv, LastToHti, Lines, IsQueue
<1> QED BY <1>1, <1>4, <1>5 DEF HaltInv

\* A step that changes nothing of it.
LEMMA HaltStays ==
  ASSUME HaltInv, InRing, UNCHANGED ringPart, UNCHANGED haltPart, UNCHANGED iDatQue
  PROVE  HaltInv'
<1>1. Unread' = Unread /\ ctlIn' = ctlIn /\ (\A s : Ahead(s)' = Ahead(s))
  BY DEF Unread, Ahead, ringPart
<1>2. busy => InOrder'
  BY <1>1, OrderStays DEF HaltInv, ringPart, TakenNow
<1> QED BY <1>1, <1>2, HaltRing

\* The ICM state machine takes the messages in the order of the ring.
LEMMA IcmKeepsHalt ==
  ASSUME PersAssumption, HaltInv, InRing, Rested, iBlkRdyQue \in Seq(Msgs), IcmNext,
         UNCHANGED hostVars
  PROVE  HaltInv'
<1>1. CASE IcmRead \/ IcmEmpty \/ IcmWrRsp
  <2>1. Unread' = Unread /\ \A s \in Unread : ctlIn'[s] = ctlIn[s]
    BY <1>1, InPoll
  <2>2. /\ UNCHANGED haltPart /\ UNCHANGED <<iDatQue, hInSlot, iCtlRdIdx>>
        /\ TakenNow' = TakenNow
    BY <1>1 DEF IcmRead, IcmEmpty, IcmWrRsp, haltPart, ibk, iRd, iPush, iAvl, htiIn, hostVars, TakenNow
  <2>3. \A s : Ahead(s)' = Ahead(s)
    BY <2>2 DEF Ahead
  <2>4. busy => InOrder'
    BY <2>1, <2>2, OrderStays DEF HaltInv
  <2> QED BY <2>1, <2>2, <2>3, <2>4, HaltRing
<1>2. CASE IcmWrite
  <2>1. Unread' = Unread /\ \A s \in Unread : ctlIn'[s] = ctlIn[s]
    BY <1>2, InPoll
  <2>2. /\ UNCHANGED haltPart /\ UNCHANGED <<iDatQue, hInSlot>>
        /\ iCtlState = "WRITE" /\ iCtlState' = "READ" /\ iCtlRdIdx' = (iCtlRdIdx + 1) % CtlQueSize
    BY <1>2 DEF IcmWrite, haltPart, ibk, iRd, iPush, iAvl, htiIn, hostVars
  <2>3. busy
    BY <2>2 DEF Rested
  <2>4. InOrder' /\ \A s \in Unread : Ahead(s)' = Ahead(s) - 1
    BY <2>1, <2>2, <2>3, OrderNext DEF HaltInv
  <2>5. \A s \in Unread : Ahead(s) \in Nat
    BY AheadIs DEF Unread, InRing
  <2>6. \A s, t \in Unread' : Ahead(t) <= Ahead(s) => Ahead(t)' <= Ahead(s)'
    BY <2>1, <2>4, <2>5
  <2> QED BY <2>1, <2>2, <2>4, <2>6, HaltRing
<1>3. ASSUME NEW cmd \in Cmds, IcmTake(cmd)
      PROVE  /\ InOrder' /\ busy /\ iCtlRdIdx \in Unread /\ ctlIn[iCtlRdIdx].cmd = cmd
             /\ Unread' = Unread \ {iCtlRdIdx} /\ ctlIn' = ctlIn /\ \A s : Ahead(s)' = Ahead(s)
             /\ UNCHANGED <<busy, hHalt, iBlkState, hifToHti_datHalt, fetch, iBlkPushIdx, iDatQue>>
  <2>1. /\ ctlIn' = ctlIn /\ iCtlRdIdx \in Unread /\ ctlIn[iCtlRdIdx].cmd = cmd
        /\ Unread' = Unread \ {iCtlRdIdx}
    BY <1>3, InTake
  <2>2. /\ UNCHANGED <<busy, hHalt, iBlkState, hifToHti_datHalt, fetch, iBlkPushIdx, iDatQue>>
        /\ UNCHANGED <<hInSlot, iCtlRdIdx>> /\ iCtlState = "RD_WAIT" /\ iCtlState' = "WRITE"
    BY <1>3 DEF IcmTake, ibk, iRd, iPush, hostVars
  <2>3. busy
    BY <2>2 DEF Rested
  <2>4. InOrder' /\ \A s : Ahead(s)' = Ahead(s)
    BY <2>1, <2>2, <2>3, OrderTake DEF HaltInv
  <2> QED BY <2>1, <2>2, <2>3, <2>4
<1>4. CASE IcmUser \/ IcmAvl
  <2>1. PICK cmd \in Cmds : IcmTake(cmd)
    BY <1>4 DEF IcmUser, IcmAvl, Cmds
  <2>2. UNCHANGED iBlkRdyQue
    BY <1>4 DEF IcmUser, IcmAvl
  <2>3. UNCHANGED haltPart
    BY <1>3, <2>1, <2>2 DEF haltPart
  <2>4. Unread' \subseteq Unread /\ (\A s \in Unread' : ctlIn'[s] = ctlIn[s])
        /\ (\A s, t \in Unread' : Ahead(t) <= Ahead(s) => Ahead(t)' <= Ahead(s)')
    BY <1>3, <2>1
  <2> QED BY <1>3, <2>1, <2>3, <2>4, HaltRing
<1>5. CASE IcmRdy
  <2> DEFINE r == iCtlRdIdx
             m == ctlIn[r]
  <2>1. /\ InOrder' /\ busy /\ r \in Unread /\ m.cmd = "rdy"
        /\ Unread' = Unread \ {r} /\ ctlIn' = ctlIn /\ \A s : Ahead(s)' = Ahead(s)
        /\ UNCHANGED <<busy, hHalt, iBlkState, hifToHti_datHalt, fetch, iBlkPushIdx, iDatQue>>
    <3>1. IcmTake("rdy") /\ "rdy" \in Cmds
      BY <1>5 DEF IcmRdy, Cmds
    <3> QED BY <1>3, <3>1
  <2>2. iBlkRdyQue' = Append(iBlkRdyQue, m)
    BY <1>5 DEF IcmRdy
  <2>3. ~OnlyAvl
    BY <2>1 DEF OnlyAvl
  <2>4. ~InOver /\ \A i \in 1..Len(iBlkRdyQue) : iBlkRdyQue[i].ctl # "HALT"
    BY <2>3 DEF HaltInv, NothingToCome, LastBlock
  <2>5. ASSUME m.ctl = "HALT" PROVE hHalt /\ OnlyAvl'
    <3>1. HaltAt(r)
      BY <2>1, <2>5 DEF HaltAt
    <3>2. hHalt /\ \A t \in Unread : ctlIn[t].cmd # "avl" => Ahead(t) <= Ahead(r)
      BY <2>1, <3>1 DEF HaltInv, LastInRing
    <3>3. \A t \in Unread : Ahead(t) <= Ahead(r) => t = r
      <4>1. \A t \in Slots : Ahead(t) \in Nat /\ (Ahead(t) = 0 <=> t = r)
        BY AheadIs
      <4>2. Unread \subseteq Slots /\ r \in Slots
        BY DEF Unread, InRing
      <4> QED BY <4>1, <4>2
    <3> QED BY <2>1, <3>2, <3>3 DEF OnlyAvl
  <2>6. LastInRing'
    BY <2>1 DEF HaltInv, LastInRing, HaltAt
  <2>7. LastBlock'
    <3>1. IsQueue(iBlkRdyQue)
      BY QueueIs
    <3> HIDE DEF m
    <3>2. /\ Len(iBlkRdyQue') = Len(iBlkRdyQue) + 1 /\ Len(iBlkRdyQue) \in Nat
          /\ iBlkRdyQue'[Len(iBlkRdyQue) + 1] = m
          /\ \A i \in 1..Len(iBlkRdyQue) : iBlkRdyQue'[i] = iBlkRdyQue[i]
      BY <2>2, <3>1, QueueAppend
    <3>3. ASSUME NEW i \in 1..Len(iBlkRdyQue'), iBlkRdyQue'[i].ctl = "HALT"
          PROVE  i = Len(iBlkRdyQue') /\ hHalt' /\ OnlyAvl'
      <4>1. CASE i \in 1..Len(iBlkRdyQue)
        BY <2>4, <3>2, <3>3, <4>1
      <4>2. CASE i = Len(iBlkRdyQue) + 1
        BY <2>1, <2>5, <3>2, <3>3, <4>2
      <4> QED BY <3>2, <4>1, <4>2
    <3> QED BY <3>3 DEF LastBlock
  <2>8. NothingToCome' /\ LastToHti' /\ Lines'
    BY <2>1, <2>4 DEF HaltInv, NothingToCome, LastToHti, Lines, InOver, IsQueue
  <2> QED BY <2>1, <2>6, <2>7, <2>8 DEF HaltInv
<1> QED BY <1>1, <1>2, <1>4, <1>5 DEF IcmNext

\* An item more, or less, in HTI's queue.
LEMMA HaltHtiPush ==
  ASSUME LastToHti, NEW e, iDatQue' = Append(iDatQue, e), ~InOver, e.ctl = "HALT" => InOver'
  PROVE  LastToHti'
<1>1. /\ IsQueue(iDatQue') /\ Len(iDatQue') = Len(iDatQue) + 1 /\ Len(iDatQue) \in Nat
      /\ (\A i \in 1..Len(iDatQue) : iDatQue'[i] = iDatQue[i]) /\ iDatQue'[Len(iDatQue) + 1] = e
  BY QueueAppend DEF LastToHti
<1>2. \A i \in 1..Len(iDatQue) : iDatQue[i].ctl # "HALT"
  BY DEF LastToHti
<1>3. ASSUME NEW i \in 1..Len(iDatQue'), iDatQue'[i].ctl = "HALT"
      PROVE  i = Len(iDatQue') /\ InOver'
  <2>1. CASE i \in 1..Len(iDatQue)
    BY <1>1, <1>2, <1>3, <2>1
  <2>2. CASE i = Len(iDatQue) + 1
    BY <1>1, <1>3, <2>2
  <2> QED BY <1>1, <2>1, <2>2
<1>4. IsQueue(iDatQue)'
  BY <1>1 DEF IsQueue
<1> QED BY <1>3, <1>4 DEF LastToHti

\* HTI takes the first item: the halt is taken last.
LEMMA HaltHtiPop ==
  ASSUME LastToHti, iDatQue # <<>>, iDatQue' = Tail(iDatQue), InOver' = InOver
  PROVE  LastToHti' /\ (Head(iDatQue).ctl = "HALT" => iDatQue' = <<>> /\ InOver)
<1>1. /\ IsQueue(iDatQue') /\ Len(iDatQue') = Len(iDatQue) - 1 /\ Len(iDatQue) \in Nat \ {0}
      /\ Head(iDatQue) = iDatQue[1]
      /\ \A i \in 1..Len(iDatQue) - 1 : iDatQue'[i] = iDatQue[i + 1]
  BY QueueTail DEF LastToHti
<1>2. \A i \in 1..Len(iDatQue) : iDatQue[i].ctl = "HALT" => i = Len(iDatQue) /\ InOver
  BY DEF LastToHti
<1>3. ASSUME NEW i \in 1..Len(iDatQue'), iDatQue'[i].ctl = "HALT"
      PROVE  i = Len(iDatQue') /\ InOver'
  <2>1. i \in 1..Len(iDatQue) - 1 /\ i + 1 \in 1..Len(iDatQue)
    BY <1>1
  <2>2. iDatQue[i + 1].ctl = "HALT"
    BY <1>1, <1>3, <2>1
  <2>3. i + 1 = Len(iDatQue) /\ InOver
    BY <1>2, <2>1, <2>2
  <2>4. i = Len(iDatQue')
    <3>1. Len(iDatQue') = Len(iDatQue) - 1 /\ Len(iDatQue) \in Nat
      BY <1>1
    <3> QED BY <2>1, <2>3, <3>1
  <2> QED BY <2>3, <2>4
<1>4. IsQueue(iDatQue)'
  BY <1>1 DEF IsQueue
<1>5. ASSUME Head(iDatQue).ctl = "HALT" PROVE iDatQue' = <<>> /\ InOver
  <2>1. 1 \in 1..Len(iDatQue) /\ iDatQue[1].ctl = "HALT"
    BY <1>1, <1>5
  <2>2. Len(iDatQue) = 1 /\ InOver
    BY <1>2, <2>1
  <2>3. Len(iDatQue') = 0
    BY <1>1, <2>2
  <2>4. iDatQue' = <<>>
    <3>1. iDatQue' \in Seq({iDatQue'[i] : i \in DOMAIN iDatQue'})
      BY <1>1 DEF IsQueue
    <3> HIDE DEF LastToHti
    <3> QED BY <2>3, <3>1, EmptySeq
  <2> QED BY <2>2, <2>4
<1> QED BY <1>3, <1>4, <1>5 DEF LastToHti

\* The IBK state machine gives HTI the halt when nothing is left to be
\* fetched.
LEMMA IbkKeepsHalt ==
  ASSUME PersAssumption, HaltInv, InRing, iBlkRdyQue \in Seq(Msgs), IbkNext, UNCHANGED hostVars
  PROVE  HaltInv'
<1>1. /\ Unread' = Unread /\ ctlIn' = ctlIn /\ (\A s : Ahead(s)' = Ahead(s))
      /\ UNCHANGED <<busy, hHalt>> /\ (busy => InOrder')
  <2>1. UNCHANGED ringPart /\ UNCHANGED <<busy, hHalt>>
    BY DEF IbkNext, IbkSpecial, IbkData, IbkTake, IbkFetch64, IbkFetch8, Fetch, IbkRead, IbkWait,
           IbkRdRsp, IbkPush, mem, icm, hostVars, ringPart
  <2>2. Unread' = Unread /\ ctlIn' = ctlIn /\ (\A s : Ahead(s)' = Ahead(s))
    BY <2>1 DEF Unread, Ahead, ringPart
  <2> QED BY <2>1, <2>2, OrderStays, SMTT(30) DEF HaltInv, ringPart, TakenNow
<1>2. LastInRing' /\ OnlyAvl' = OnlyAvl
  BY <1>1 DEF HaltInv, LastInRing, HaltAt, OnlyAvl
<1>3. CASE IbkSpecial \/ IbkData
  <2> DEFINE m == Head(iBlkRdyQue)
  <2>1. /\ iBlkRdyQue # <<>> /\ iBlkRdyQue' = Tail(iBlkRdyQue) /\ iBlkState = "IDLE"
        /\ UNCHANGED <<fetch, iBlkPushIdx>>
    BY <1>3 DEF IbkSpecial, IbkData, IbkTake, iPush
  <2>2. IsQueue(iBlkRdyQue)
    BY QueueIs
  <2>3. /\ Len(iBlkRdyQue') = Len(iBlkRdyQue) - 1 /\ Len(iBlkRdyQue) \in Nat \ {0}
        /\ m = iBlkRdyQue[1]
        /\ \A i \in 1..Len(iBlkRdyQue) - 1 : iBlkRdyQue'[i] = iBlkRdyQue[i + 1]
    BY <2>1, <2>2, QueueTail
  <2>4. ~InOver
    BY <2>1 DEF HaltInv, NothingToCome
  <2> HIDE DEF m
  <2>5. LastBlock'
    <3>1. ASSUME NEW i \in 1..Len(iBlkRdyQue'), iBlkRdyQue'[i].ctl = "HALT"
          PROVE  i = Len(iBlkRdyQue') /\ hHalt' /\ OnlyAvl'
      <4>1. i \in 1..Len(iBlkRdyQue) - 1 /\ i + 1 \in 1..Len(iBlkRdyQue)
        BY <2>3
      <4>2. iBlkRdyQue[i + 1].ctl = "HALT"
        BY <2>3, <3>1, <4>1
      <4>3. i + 1 = Len(iBlkRdyQue) /\ hHalt /\ OnlyAvl
        BY <4>1, <4>2 DEF HaltInv, LastBlock
      <4> QED BY <1>1, <1>2, <2>3, <4>1, <4>3, SMTT(30)
    <3> QED BY <3>1 DEF LastBlock
  <2>6. m.ctl = "HALT" => hHalt /\ OnlyAvl /\ iBlkRdyQue' = <<>>
    <3> SUFFICES ASSUME m.ctl = "HALT" PROVE hHalt /\ OnlyAvl /\ iBlkRdyQue' = <<>>
      OBVIOUS
    <3>1. 1 \in 1..Len(iBlkRdyQue) /\ iBlkRdyQue[1].ctl = "HALT"
      BY <2>3
    <3>2. Len(iBlkRdyQue) = 1 /\ hHalt /\ OnlyAvl
      BY <3>1 DEF HaltInv, LastBlock
    <3>3. Len(iBlkRdyQue') = 0 /\ iBlkRdyQue' \in Seq(Msgs)
      BY <2>1, <2>3, <3>2, Popped
    <3>4. iBlkRdyQue' = <<>>
      BY <3>3, EmptySeq
    <3> QED BY <3>2, <3>4
  <2>7. CASE IbkSpecial
    <3>1. /\ iDatQue' = Append(iDatQue, Item(m.ctl, m.arg)) /\ iBlkState' = iBlkState
          /\ hifToHti_datHalt' = (hifToHti_datHalt \/ m.ctl = "HALT")
      BY <2>7 DEF IbkSpecial, IDatPush, m
    <3>2. InOver' <=> m.ctl = "HALT"
      BY <1>1, <2>4, <3>1 DEF InOver
    <3>3. LastToHti'
      <4>1. Item(m.ctl, m.arg).ctl = m.ctl
        BY DEF Item
      <4> QED BY <2>4, <3>1, <3>2, <4>1, HaltHtiPush DEF HaltInv
    <3>4. NothingToCome'
      BY <1>1, <1>2, <2>1, <2>6, <3>1, <3>2 DEF NothingToCome
    <3>5. Lines'
      BY <2>1, <3>1 DEF HaltInv, Lines
    <3> QED BY <1>1, <1>2, <2>5, <3>3, <3>4, <3>5 DEF HaltInv
  <2>8. CASE IbkData
    <3>1. iDatQue' = iDatQue /\ hifToHti_datHalt' = hifToHti_datHalt /\ iBlkState' = "READ"
      BY <2>8 DEF IbkData, htiIn
    <3>2. InOver' = InOver
      BY <1>1, <3>1 DEF InOver
    <3>3. LastToHti' /\ NothingToCome' /\ Lines'
      BY <2>1, <2>4, <3>1, <3>2 DEF HaltInv, LastToHti, IsQueue, NothingToCome, Lines
    <3> QED BY <1>1, <1>2, <2>5, <3>3 DEF HaltInv
  <2> QED BY <1>3, <2>7, <2>8
<1>4. CASE IbkFetch64 \/ IbkFetch8 \/ IbkRead \/ IbkWait
  <2>1. /\ UNCHANGED <<iBlkRdyQue, hifToHti_datHalt, iDatQue, iBlkPushIdx>> /\ iBlkState # "IDLE"
        /\ DOMAIN fetch' = DOMAIN fetch
        /\ iBlkState' = "IDLE" => \A i \in DOMAIN fetch : fetch'[i].pend = {} /\ fetch'[i].val = 0
    BY <1>4 DEF IbkFetch64, IbkFetch8, Fetch, CanFetch, IbkRead, IbkWait, htiIn, iAvl, iPush
  <2>2. ~InOver /\ InOver' = InOver
    BY <1>1, <2>1 DEF HaltInv, NothingToCome, InOver
  <2>3. LastBlock' /\ NothingToCome' /\ LastToHti' /\ Lines'
    BY <1>1, <1>2, <2>1, <2>2
       DEF HaltInv, LastBlock, NothingToCome, LastToHti, IsQueue, Lines
  <2> QED BY <1>1, <1>2, <2>3 DEF HaltInv
<1>5. CASE IbkRdRsp
  <2>1. PICK i \in DOMAIN fetch : fetch[i].pend # {}
    BY <1>5 DEF IbkRdRsp
  <2>2. iBlkState # "IDLE"
    BY <2>1 DEF HaltInv, Lines
  <2>3. UNCHANGED <<iBlkRdyQue, hifToHti_datHalt, iDatQue, iBlkPushIdx, iBlkState>>
        /\ DOMAIN fetch' = DOMAIN fetch
    BY <1>5 DEF IbkRdRsp, htiIn, iAvl, iPush, iRd
  <2>4. ~InOver /\ InOver' = InOver
    BY <1>1, <2>2, <2>3 DEF HaltInv, NothingToCome, InOver
  <2>5. LastBlock' /\ NothingToCome' /\ LastToHti' /\ Lines'
    BY <1>1, <1>2, <2>2, <2>3, <2>4
       DEF HaltInv, LastBlock, NothingToCome, LastToHti, IsQueue, Lines
  <2> QED BY <1>1, <1>2, <2>5 DEF HaltInv
<1>6. CASE IbkPush
  <2>1. fetch[iBlkPushIdx].val # 0 /\ iBlkPushIdx \in DOMAIN fetch
    BY <1>6 DEF IbkPush, PushReady, HaltInv, Lines
  <2>2. iBlkState # "IDLE"
    BY <2>1 DEF HaltInv, Lines
  <2>3. /\ UNCHANGED <<iBlkRdyQue, hifToHti_datHalt, iBlkState>> /\ DOMAIN fetch' = DOMAIN fetch
        /\ iBlkPushIdx' \in {iBlkPushIdx, (iBlkPushIdx + 1) % FetchCnt}
    BY <1>6 DEF IbkPush, iAvl, iRd
  <2>4. iBlkPushIdx' \in 0..FetchCnt-1
    <3>1. FetchCnt \in Nat /\ FetchCnt > 0 /\ iBlkPushIdx \in 0..FetchCnt-1
      BY DEF PersAssumption, HaltInv, Lines
    <3> QED BY <2>3, <3>1
  <2>5. ~InOver /\ InOver' = InOver
    BY <1>1, <2>2, <2>3 DEF HaltInv, NothingToCome, InOver
  <2>6. PICK d : iDatQue' = Append(iDatQue, Item("DATA", d))
    BY <1>6 DEF IbkPush, IDatPush
  <2>7. LastToHti'
    BY <2>5, <2>6, HaltHtiPush DEF HaltInv, Item
  <2>8. LastBlock' /\ NothingToCome' /\ Lines'
    BY <1>1, <1>2, <2>2, <2>3, <2>4, <2>5 DEF HaltInv, LastBlock, NothingToCome, Lines
  <2> QED BY <1>1, <1>2, <2>7, <2>8 DEF HaltInv
<1> QED BY <1>3, <1>4, <1>5, <1>6 DEF IbkNext

\* The other machines have no part in it; the reset finds the halt with HTI.
LEMMA HifKeepsHalt ==
  ASSUME PersAssumption, HaltInv, InRing, Rested, iBlkRdyQue \in Seq(Msgs), HifNext,
         UNCHANGED hostVars
  PROVE  HaltInv'
<1>1. CASE IcmNext
  BY <1>1, IcmKeepsHalt
<1>2. CASE IbkNext
  BY <1>2, IbkKeepsHalt
<1>3. CASE Idle
  <2>1. InOver /\ InOver'
    BY <1>3 DEF Idle, IdleNow, InOver
  <2>2. hHalt /\ OnlyAvl /\ hHalt' = hHalt
    BY <2>1 DEF HaltInv, NothingToCome, hostVars
  <2>3. Unread' = Unread /\ ctlIn' = ctlIn
    BY <1>3, InReset
  <2>4. /\ busy' = FALSE /\ iBlkRdyQue' = <<>> /\ iBlkState' = "IDLE" /\ iDatQue' = iDatQue
        /\ fetch' = [i \in 0..FetchCnt-1 |-> NoFetch] /\ iBlkPushIdx' = 0
    BY <1>3 DEF Idle
  <2>5. OnlyAvl' /\ LastInRing'
    BY <2>2, <2>3 DEF OnlyAvl, LastInRing, HaltAt
  <2>6. LastBlock' /\ NothingToCome'
    BY <2>2, <2>4, <2>5 DEF LastBlock, NothingToCome
  <2>7. LastToHti'
    BY <2>1, <2>4 DEF HaltInv, LastToHti, IsQueue
  <2>8. Lines'
    <3>1. 0 \in 0..FetchCnt-1
      BY DEF PersAssumption
    <3> QED BY <2>4, <3>1 DEF Lines, NoFetch
  <2> QED BY <2>4, <2>5, <2>6, <2>7, <2>8 DEF HaltInv
<1>4. CASE OcmNext \/ ObkNext \/ ObkTimer \/ MemNext
  <2>1. UNCHANGED ringPart /\ UNCHANGED haltPart /\ UNCHANGED iDatQue
    <3>1. CASE OcmNext
      BY <3>1 DEF OcmNext, OcmSelect, OcmRead, OcmRdWait, OcmWrite, OcmWrRsp, Select, SelectBlk,
                  SelectAvl, SelectCtl, mem, icm, htiIn, iAvl, ibk, iRd, iPush, hostVars, ringPart, haltPart
    <3>2. CASE ObkNext \/ ObkTimer
      BY <3>2 DEF ObkNext, ObkTimer, ObkIdleFlsh, ObkIdle, ObkClose, ObkPop, ObkWr8, ObkWr64, ObkWrite,
                  ObkFlsh, ObkFlshed, ObkSendData, ObkSendItem, ObkSend, ObkRest, mem, icm, iAvl, ibk,
                  iRd, iPush, hostVars, ringPart, haltPart
    <3>3. CASE MemNext
      BY <3>3 DEF MemNext, ObkWrRsp, MemSettle, ObkRdRsp, MemRest, icm, htiIn, iAvl, ibk, iRd, iPush,
                  hostVars, ringPart, haltPart
    <3> QED BY <1>4, <3>1, <3>2, <3>3
  <2> QED BY <2>1, HaltStays
<1> QED BY <1>1, <1>2, <1>3, <1>4 DEF HifNext

\* HTI takes items; the halt is the last.
LEMMA HtiKeepsHalt ==
  ASSUME HaltInv, InRing, HtiStep
  PROVE  HaltInv'
<1>1. UNCHANGED ringPart /\ UNCHANGED haltPart
  <2>1. CASE HtiNext
    BY <2>1 DEF HtiStep, HtiNext, HtiCallNext, HtiRtnNext, CallIdleData, CallIdleCall, CallIdleHalt,
                CallArgs, CallCmd, CallData, IhmPop, RtnIdle, RtnCmd, RtnArg, RtnDone, RtnData,
                CallRest, RtnRest, HifRest, mem, icm, iAvl, ibk, iRd, iPush, hostVars, ringPart, haltPart
  <2>2. CASE ModNext
    BY <2>2 DEF HtiStep, ModNext, ModTakeCall, ModReturn, ModSend, ModSendMsg, ModRest, HifRest,
                hifVars, mem, icm, iAvl, ibk, iRd, iPush, hostVars, ringPart, haltPart
  <2> QED BY <2>1, <2>2, SMTT(30) DEF HtiStep
<1>2. iDatQue' = iDatQue \/ (iDatQue # <<>> /\ iDatQue' = Tail(iDatQue))
  <2>1. CASE HtiNext
    BY <2>1 DEF HtiNext, HtiCallNext, HtiRtnNext, CallIdleData, CallIdleCall, CallIdleHalt,
                CallArgs, CallCmd, CallData, IhmPop, RtnIdle, RtnCmd, RtnArg, RtnDone, RtnData,
                CallRest, RtnRest, htiIn, IDatPop, Front
  <2>2. CASE ModNext
    BY <2>2 DEF ModNext, ModTakeCall, ModReturn, ModSend, ModSendMsg, ModRest, hifVars, htiIn
  <2> QED BY <2>1, <2>2 DEF HtiStep
<1>3. CASE iDatQue' = iDatQue
  BY <1>1, <1>3, HaltStays
<1>4. CASE iDatQue # <<>> /\ iDatQue' = Tail(iDatQue)
  <2>1. Unread' = Unread /\ ctlIn' = ctlIn /\ (\A s : Ahead(s)' = Ahead(s))
    BY <1>1 DEF Unread, Ahead, ringPart
  <2>2. busy' => InOrder'
    BY <1>1, <2>1, OrderStays DEF HaltInv, ringPart, TakenNow, haltPart
  <2>3. InOver' = InOver
    BY <1>1 DEF InOver, haltPart
  <2>4. LastToHti'
    BY <1>4, <2>3, HaltHtiPop DEF HaltInv
  <2>5. LastInRing' /\ LastBlock' /\ NothingToCome' /\ Lines'
    BY <1>1, <2>1, <2>3 DEF HaltInv, LastInRing, HaltAt, LastBlock, NothingToCome, OnlyAvl, Lines, haltPart
  <2> QED BY <2>2, <2>4, <2>5 DEF HaltInv
<1> QED BY <1>2, <1>3, <1>4

\* The host writes nothing behind its halt but blocks it gives back.
LEMMA PutKeepsHalt ==
  ASSUME PersAssumption, HaltInv, InRing, NEW m \in Msgs, m.cmd \in Cmds, HostMsg(m),
         \/ m.cmd = "avl" /\ hHalt' = hHalt
         \/ ~hHalt /\ m.cmd # "avl" /\ (m.cmd = "rdy" /\ m.ctl = "HALT" => hHalt')
  PROVE  HaltInv'
<1> DEFINE p == hInSlot
<1>1. /\ p \notin Unread /\ Unread' = Unread \cup {p} /\ ctlIn'[p] = m
      /\ \A s \in Unread : ctlIn'[s] = ctlIn[s]
  BY InPut
<1>2. /\ ctlIn[p] = NoMsg /\ p' = (p + 1) % CtlQueSize
      /\ UNCHANGED <<iCtlState, iCtlRdIdx, busy, iBlkRdyQue, iBlkState, hifToHti_datHalt, fetch,
                     iBlkPushIdx, iDatQue>>
  BY DEF HostMsg, icm, iAvl, ibk, iRd, iPush, htiIn
<1> HIDE DEF p
<1>3. busy => InOrder' /\ \A s \in Unread : Ahead(s) < Ahead(p)
  BY <1>1, <1>2, OrderPut DEF HaltInv, p
<1>4. \A s : Ahead(s)' = Ahead(s)
  BY <1>2 DEF Ahead
<1>5. InOver' = InOver
  BY <1>2 DEF InOver
<1>6. LastToHti' /\ Lines'
  BY <1>2, <1>5 DEF HaltInv, LastToHti, IsQueue, Lines
<1>7. CASE m.cmd = "avl" /\ hHalt' = hHalt
  <2>1. OnlyAvl' <=> OnlyAvl
    BY <1>1, <1>7 DEF OnlyAvl
  <2>2. LastBlock' /\ NothingToCome'
    BY <1>2, <1>5, <1>7, <2>1 DEF HaltInv, LastBlock, NothingToCome
  <2>3. LastInRing'
    <3>1. ASSUME NEW s \in Unread', HaltAt(s)'
          PROVE  hHalt' /\ \A t \in Unread' : ctlIn'[t].cmd # "avl" => Ahead(t)' <= Ahead(s)'
      <4>1. s \in Unread /\ HaltAt(s)
        BY <1>1, <1>7, <3>1 DEF HaltAt
      <4> QED BY <1>1, <1>4, <1>7, <4>1 DEF HaltInv, LastInRing
    <3> QED BY <3>1 DEF LastInRing
  <2> QED BY <1>2, <1>3, <1>6, <2>2, <2>3 DEF HaltInv
<1>8. CASE ~hHalt /\ m.cmd # "avl" /\ (m.cmd = "rdy" /\ m.ctl = "HALT" => hHalt')
  <2>1. /\ ~InOver /\ busy
        /\ \A i \in 1..Len(iBlkRdyQue) : iBlkRdyQue[i].ctl # "HALT"
        /\ \A s \in Unread : ~HaltAt(s)
    BY <1>8 DEF HaltInv, NothingToCome, LastBlock, LastInRing, InOver
  <2>2. LastBlock' /\ NothingToCome'
    BY <1>2, <1>5, <2>1 DEF LastBlock, NothingToCome
  <2>3. LastInRing'
    <3>1. ASSUME NEW s \in Unread', HaltAt(s)'
          PROVE  hHalt' /\ \A t \in Unread' : ctlIn'[t].cmd # "avl" => Ahead(t)' <= Ahead(s)'
      <4>1. s = p /\ m.cmd = "rdy" /\ m.ctl = "HALT"
        BY <1>1, <2>1, <3>1 DEF HaltAt
      <4>2. \A t \in Unread : Ahead(t) \in Int /\ Ahead(p) \in Int /\ Ahead(t) < Ahead(p)
        <5>1. p \in Slots /\ Unread \subseteq Slots
          BY DEF Unread, InRing, p
        <5> QED BY <1>3, <2>1, <5>1, AheadIs
      <4>3. Ahead(p) \in Int
        <5>1. p \in Slots
          BY DEF InRing, p
        <5> QED BY <5>1, AheadIs
      <4>4. ASSUME NEW t \in Unread' PROVE Ahead(t)' <= Ahead(s)'
        <5>1. CASE t \in Unread
          BY <1>4, <4>1, <4>2, <4>3, <5>1
        <5>2. CASE t = p
          BY <1>4, <4>1, <4>3, <5>2
        <5> QED BY <1>1, <5>1, <5>2
      <4> QED BY <1>8, <4>1, <4>4
    <3> QED BY <3>1 DEF LastInRing
  <2> QED BY <1>2, <1>3, <1>6, <2>2, <2>3 DEF HaltInv
<1> QED BY <1>7, <1>8

\* Each message of the host is such a one: after the halt it only gives blocks
\* back.
LEMMA HostKeepsHalt ==
  ASSUME PersAssumption, UnitAssumption, HaltInv, InRing, HostNext
  PROVE  HaltInv'
<1>1. CASE HostData
  <2>1. PICK n \in 1..Lower(BlkQw, MaxIn - Len(inSent) - usrIn) :
            HostBlk(Words(iBlk'[hInIdx], n), RdyMsg("DATA", n))
    BY <1>1 DEF HostData
  <2>2. RdyMsg("DATA", n) \in Msgs /\ RdyMsg("DATA", n).cmd = "rdy" /\ RdyMsg("DATA", n).ctl = "DATA"
    <3>1. n \in Nat /\ "DATA" \in Ctl
      BY DEF Ctl
    <3> QED BY <3>1, MsgCmds
  <2>3. HostMsg(RdyMsg("DATA", n)) /\ ~hHalt
    BY <2>1 DEF HostBlk
  <2>4. "rdy" \in Cmds /\ "rdy" # "avl" /\ "DATA" # "HALT"
    BY DEF Cmds
  <2> QED BY <2>2, <2>3, <2>4, PutKeepsHalt
<1>2. CASE HostSpecial
  <2>1. PICK k \in InCtls \cap {"NULL", "CALL"} :
          LET n == IF k = "CALL" THEN Argc ELSE 0 IN HostBlk(<<Item(k, n)>>, RdyMsg(k, n))
    BY <1>2 DEF HostSpecial
  <2> DEFINE n == IF k = "CALL" THEN Argc ELSE 0
  <2>2. RdyMsg(k, n) \in Msgs /\ RdyMsg(k, n).cmd = "rdy" /\ RdyMsg(k, n).ctl = k /\ k # "HALT"
    <3>1. n \in Nat /\ k \in Ctl /\ k # "HALT"
      BY DEF Ctl, UnitAssumption
    <3> QED BY <3>1, MsgCmds
  <2>3. HostMsg(RdyMsg(k, n)) /\ ~hHalt
    BY <2>1 DEF HostBlk
  <2>4. "rdy" \in Cmds /\ "rdy" # "avl"
    BY DEF Cmds
  <2> HIDE DEF n
  <2> QED BY <2>2, <2>3, <2>4, PutKeepsHalt
<1>3. CASE HostHalt
  <2>1. HostMsg(RdyMsg("HALT", 0)) /\ ~hHalt /\ hHalt'
    BY <1>3 DEF HostHalt, HostBlk
  <2>2. RdyMsg("HALT", 0) \in Msgs /\ RdyMsg("HALT", 0).cmd = "rdy"
    <3>1. 0 \in Nat /\ "HALT" \in Ctl
      BY DEF Ctl
    <3> QED BY <3>1, MsgCmds
  <2>3. "rdy" \in Cmds /\ "rdy" # "avl"
    BY DEF Cmds
  <2> QED BY <2>1, <2>2, <2>3, PutKeepsHalt
<1>4. CASE HostUser
  <2>1. HostMsg(UserMsg) /\ ~hHalt
    BY <1>4 DEF HostUser
  <2>2. UserMsg \in Msgs /\ UserMsg.cmd = "user" /\ "user" \in Cmds /\ "user" # "avl" /\ "user" # "rdy"
    BY MsgCmds DEF Cmds
  <2> QED BY <2>1, <2>2, PutKeepsHalt
<1>5. CASE HostGiveBack
  <2>1. HostMsg(AvlMsg) /\ hHalt' = hHalt
    BY <1>5 DEF HostGiveBack
  <2>2. AvlMsg \in Msgs /\ AvlMsg.cmd = "avl" /\ "avl" \in Cmds
    BY MsgCmds DEF Cmds
  <2> QED BY <2>1, <2>2, PutKeepsHalt
<1>6. CASE HostRecv
  <2>1. UNCHANGED ringPart /\ UNCHANGED haltPart /\ UNCHANGED iDatQue
    BY <1>6 DEF HostRecv, icm, htiIn, iAvl, ibk, iRd, iPush, ringPart, haltPart
  <2> QED BY <2>1, HaltStays
<1> QED BY <1>1, <1>2, <1>3, <1>4, <1>5, <1>6 DEF HostNext

\* At first the ring has the blocks of the unit.
LEMMA InitHalt ==
  ASSUME PersAssumption, Init
  PROVE  HaltInv
<1>1. /\ ctlIn = [s \in Slots |-> IF s < OBlkCnt THEN AvlMsg ELSE NoMsg]
      /\ iCtlState = "READ" /\ iCtlRdIdx = 0 /\ iCtlWr = {} /\ hInSlot = OBlkCnt % CtlQueSize
      /\ iBlkRdyQue = <<>> /\ iBlkState = "IDLE" /\ busy = TRUE /\ hifToHti_datHalt = FALSE
      /\ fetch = [i \in 0..FetchCnt-1 |-> NoFetch] /\ iBlkPushIdx = 0 /\ iDatQue = <<>>
  BY DEF Init, HifInit, HifReset, Slots
<1>2. /\ CtlQueSize \in Nat /\ OBlkCnt \in Nat /\ CtlQueSize > OBlkCnt /\ OBlkCnt > 0
      /\ FetchCnt \in Nat /\ FetchCnt > 0
  BY DEF PersAssumption
<1>3. \A s \in Slots : /\ s \in Nat /\ s < CtlQueSize /\ Ahead(s) = s
                       /\ s \in Unread <=> s < OBlkCnt
                       /\ ctlIn[s] \in {AvlMsg, NoMsg}
  BY <1>1, <1>2, MsgCmds DEF Slots, Unread, Ahead
<1>4. Unread \subseteq Slots /\ TakenNow = 0 /\ ~InOver
  BY <1>1 DEF Unread, TakenNow, InOver
<1>5. InOrder
  <2>1. OBlkCnt % CtlQueSize = OBlkCnt /\ Wrap(0 + OBlkCnt) = OBlkCnt
    BY <1>2 DEF Wrap
  <2>2. OBlkCnt \in 0..CtlQueSize
    BY <1>2
  <2>3. \A s \in Slots : s \in Unread <=> 0 <= Ahead(s) /\ Ahead(s) < OBlkCnt
    BY <1>2, <1>3
  <2> QED BY <1>1, <1>4, <2>1, <2>2, <2>3 DEF InOrder
<1>6. LastInRing
  <2>1. \A s \in Unread : ctlIn[s].cmd # "rdy"
    BY <1>3, <1>4, MsgCmds
  <2> QED BY <2>1 DEF LastInRing, HaltAt
<1>7. LastBlock /\ NothingToCome
  BY <1>1, <1>4 DEF LastBlock, NothingToCome
<1>8. LastToHti
  <2>1. <<>> \in Seq({})
    BY EmptySeq
  <2>2. IsQueue(<<>>)
    BY <2>1, QueueIs
  <2> QED BY <1>1, <2>2 DEF LastToHti
<1>9. Lines
  BY <1>1, <1>2 DEF Lines, NoFetch
<1> QED BY <1>5, <1>6, <1>7, <1>8, <1>9 DEF HaltInv

\* Whatever the sizes, the halt is the last the unit is given.
THEOREM HaltInvariance == Spec => []HaltInv
<1>1. Init => HaltInv
  BY InitHalt, PersAssumption
<1>2. BlkInv /\ Rested /\ HaltInv /\ [Next]_vars => HaltInv'
  <2> SUFFICES ASSUME BlkInv, Rested, HaltInv, [Next]_vars PROVE HaltInv'
    OBVIOUS
  <2>1. InRing /\ iBlkRdyQue \in Seq(Msgs)
    BY DEF BlkInv, BlkTypes
  <2>2. CASE HifStep
    BY <2>1, <2>2, HifKeepsHalt, PersAssumption DEF HifStep, Alone
  <2>3. CASE HtiStep
    BY <2>1, <2>3, HtiKeepsHalt
  <2>4. CASE HostNext
    BY <2>1, <2>4, HostKeepsHalt, PersAssumption, UnitAssumption
  <2>5. CASE UNCHANGED vars
    <3>1. UNCHANGED ringPart /\ UNCHANGED haltPart /\ UNCHANGED iDatQue
      BY <2>5 DEF vars, hifVars, mem, icm, htiIn, iAvl, ibk, iRd, iPush, hostVars, ringPart, haltPart
    <3> QED BY <2>1, <3>1, HaltStays
  <2> QED BY <2>2, <2>3, <2>4, <2>5 DEF Next, Finished
<1> QED BY <1>1, <1>2, BlkInvariance, WrInvariance, PTL DEF Spec

----------------------------------------------------------------------------
\* The end of a unit.  A call the modules have been given is with them, has
\* returned, or is still to be taken; what they have sent waits for a return.
Returning == IF rtnState \in {"CMD", "ARGS"} THEN 1 ELSE 0
Calls ==
  /\ threads \in Nat /\ oCmdCnt \in Nat /\ callAvlCnt \in 0..1
  /\ callActiveCnt = (1 - callAvlCnt) + threads + oCmdCnt
  /\ Returning <= oCmdCnt
  /\ outQue # <<>> => Returning < threads + oCmdCnt

HasHalt(q)  == \E i \in 1..Len(q) : q[i].ctl = "HALT"
HaltLast(q) == \A i \in 1..Len(q) : q[i].ctl = "HALT" => i = Len(q)

\* When HTI has sent the halt nothing comes in, nobody works on a call, and
\* nothing goes out.
Ended ==
  /\ InOver /\ iDatQue = <<>> /\ iCtlQue = <<>>
  /\ callState = "IDLE" /\ rtnState = "IDLE" /\ callActiveCnt = 0 /\ outQue = <<>>

OutEnds ==
  /\ HaltLast(outSent) /\ HaltLast(oBlkQue)
  /\ HasHalt(outSent) => Ended
  /\ HasHalt(oBlkQue) => HasHalt(outSent)
  /\ oBlkState \in {"FLSH", "SEND"} /\ oBlkWrCnt = 0 => oBlkWrDat = <<>>
  /\ htiToHif_datHalt =>
       HasHalt(outSent) /\ oBlkQue = <<>> /\ oBlkWrDat = <<>> /\ oBlkState = "IDLE"

callPart == <<threads, oCmdCnt, callAvlCnt, callActiveCnt, rtnState, outQue>>
endPart  == <<callState, rtnState, callActiveCnt, outQue, outSent>>

\* A halt that is last in a queue is still last when the queue is popped, and
\* is alone when it is taken.
LEMMA HaltTail ==
  ASSUME NEW q, IsQueue(q), q # <<>>, HaltLast(q)
  PROVE  /\ HaltLast(Tail(q)) /\ (HasHalt(Tail(q)) => HasHalt(q))
         /\ Head(q).ctl = "HALT" => Tail(q) = <<>> /\ HasHalt(q)
<1>1. /\ IsQueue(Tail(q)) /\ Len(Tail(q)) = Len(q) - 1 /\ Len(q) \in Nat \ {0} /\ Head(q) = q[1]
      /\ \A i \in 1..Len(q) - 1 : Tail(q)[i] = q[i + 1]
  BY QueueTail
<1>2. ASSUME NEW i \in 1..Len(Tail(q)), Tail(q)[i].ctl = "HALT"
      PROVE  i = Len(Tail(q)) /\ HasHalt(q)
  <2>1. i \in 1..Len(q) - 1 /\ i + 1 \in 1..Len(q) /\ i \in Nat
    BY <1>1
  <2>2. q[i + 1].ctl = "HALT"
    BY <1>1, <1>2, <2>1
  <2>3. HasHalt(q) /\ i + 1 = Len(q)
    BY <2>1, <2>2 DEF HasHalt, HaltLast
  <2>4. i = Len(Tail(q))
    <3>1. Len(Tail(q)) = Len(q) - 1 /\ Len(q) \in Nat
      BY <1>1
    <3> QED BY <2>1, <2>3, <3>1
  <2> QED BY <2>3, <2>4
<1>3. ASSUME Head(q).ctl = "HALT" PROVE Tail(q) = <<>> /\ HasHalt(q)
  <2>1. 1 \in 1..Len(q) /\ q[1].ctl = "HALT"
    BY <1>1, <1>3
  <2>2. HasHalt(q) /\ Len(q) = 1
    BY <2>1 DEF HasHalt, HaltLast
  <2>3. Len(Tail(q)) = 0
    BY <1>1, <2>2
  <2>4. Tail(q) = <<>>
    <3>1. Tail(q) \in Seq({Tail(q)[i] : i \in DOMAIN Tail(q)})
      BY <1>1 DEF IsQueue
    <3> QED BY <2>3, <3>1, EmptySeq
  <2> QED BY <2>2, <2>4
<1> QED BY <1>2, <1>3 DEF HaltLast, HasHalt

\* A queue without the halt gets an entry more.
LEMMA HaltAppend ==
  ASSUME NEW q, IsQueue(q), ~HasHalt(q), NEW e
  PROVE  HaltLast(Append(q, e)) /\ (HasHalt(Append(q, e)) <=> e.ctl = "HALT")
<1>1. /\ Len(Append(q, e)) = Len(q) + 1 /\ Len(q) \in Nat
      /\ \A i \in 1..Len(q) : Append(q, e)[i] = q[i]
      /\ Append(q, e)[Len(q) + 1] = e
  BY QueueAppend
<1>2. ASSUME NEW i \in 1..Len(q) + 1, Append(q, e)[i].ctl = "HALT"
      PROVE  i = Len(q) + 1 /\ e.ctl = "HALT"
  <2>1. CASE i \in 1..Len(q)
    BY <1>1, <1>2, <2>1 DEF HasHalt
  <2>2. CASE i = Len(q) + 1
    BY <1>1, <1>2, <2>2
  <2> QED BY <1>1, <2>1, <2>2
<1>3. e.ctl = "HALT" => HasHalt(Append(q, e))
  BY <1>1 DEF HasHalt
<1> QED BY <1>1, <1>2, <1>3 DEF HaltLast, HasHalt

\* HTI counts the calls; it begins a return when the modules' data is sent.
LEMMA HtiKeepsCalls ==
  ASSUME Calls, HtiNext \/ ModNext
  PROVE  Calls'
<1>t. /\ threads \in Nat /\ oCmdCnt \in Nat /\ callAvlCnt \in {0, 1}
      /\ callActiveCnt = (1 - callAvlCnt) + threads + oCmdCnt
      /\ Returning <= oCmdCnt /\ (outQue # <<>> => Returning < threads + oCmdCnt)
      /\ Returning \in {0, 1}
  BY DEF Calls, Returning
<1>1. CASE \/ CallIdleData \/ CallIdleCall \/ CallIdleHalt \/ CallArgs \/ CallData
           \/ IhmPop \/ RtnArg \/ ModSendMsg
  <2>1. UNCHANGED callPart
    BY <1>1 DEF CallIdleData, CallIdleCall, CallIdleHalt, CallArgs, CallData, IhmPop, RtnArg,
                ModSendMsg, CallRest, RtnRest, rtn, callPart
  <2> QED BY <2>1 DEF Calls, Returning, callPart
<1>2. CASE CallCmd
  <2>1. /\ callAvlCnt # 0 /\ callAvlCnt' = 0 /\ callActiveCnt' = callActiveCnt + 1
        /\ UNCHANGED <<threads, oCmdCnt, rtnState, outQue>>
    BY <1>2 DEF CallCmd, CallRest, rtn
  <2>2. Returning' = Returning
    BY <2>1 DEF Returning
  <2> QED BY <1>t, <2>1, <2>2 DEF Calls
<1>3. CASE RtnIdle
  <2>1. /\ rtnState = "IDLE" /\ UNCHANGED <<threads, oCmdCnt, callAvlCnt, callActiveCnt, outQue>>
        /\ rtnState' = (IF outQue # <<>> THEN "DATA" ELSE "CMD")
        /\ outQue # <<>> \/ oCmdCnt > 0
    BY <1>3 DEF RtnIdle, RtnRest
  <2>2. CASE outQue # <<>>
    <3>1. Returning = 0 /\ Returning' = 0
      BY <2>1, <2>2 DEF Returning
    <3> QED BY <1>t, <2>1, <3>1 DEF Calls
  <2>3. CASE outQue = <<>>
    <3>1. Returning' = 1 /\ oCmdCnt > 0
      BY <2>1, <2>3 DEF Returning
    <3> QED BY <1>t, <2>1, <2>3, <3>1 DEF Calls
  <2> QED BY <2>2, <2>3
<1>4. CASE RtnCmd
  <2>1. /\ rtnState = "CMD" /\ rtnState' = "ARGS"
        /\ UNCHANGED <<threads, oCmdCnt, callAvlCnt, callActiveCnt, outQue>>
    BY <1>4 DEF RtnCmd, RtnRest
  <2>2. Returning' = Returning
    BY <2>1 DEF Returning
  <2> QED BY <1>t, <2>1, <2>2 DEF Calls
<1>5. CASE RtnDone
  <2>1. /\ rtnState = "ARGS" /\ rtnState' = "IDLE" /\ callActiveCnt' = callActiveCnt - 1
        /\ oCmdCnt' = oCmdCnt - 1 /\ UNCHANGED <<threads, callAvlCnt, outQue>>
    BY <1>5 DEF RtnDone, RtnRest
  <2>2. Returning = 1 /\ Returning' = 0
    BY <2>1 DEF Returning
  <2>3. oCmdCnt' \in Nat
    BY <1>t, <2>1, <2>2
  <2>4. outQue' # <<>> => Returning' < threads' + oCmdCnt'
    BY <1>t, <2>1, <2>2
  <2> QED BY <1>t, <2>1, <2>2, <2>3, <2>4 DEF Calls
<1>6. CASE RtnData
  <2>1. /\ rtnState = "DATA" /\ rtnState' \in {"IDLE", "DATA"}
        /\ UNCHANGED <<threads, oCmdCnt, callAvlCnt, callActiveCnt>>
        /\ outQue = <<>> => outQue' = outQue
    BY <1>6 DEF RtnData, RtnRest
  <2>2. Returning = 0 /\ Returning' = 0
    BY <2>1 DEF Returning
  <2> QED BY <1>t, <2>1, <2>2 DEF Calls
<1>7. CASE ModTakeCall \/ ModReturn \/ ModSend
  <2>1. /\ UNCHANGED <<rtnState, callActiveCnt>> /\ Returning' = Returning
    BY <1>7 DEF ModTakeCall, ModReturn, ModSend, ModRest, Returning
  <2>2. CASE ModTakeCall
    <3>1. callAvlCnt = 0 /\ callAvlCnt' = 1 /\ threads' = threads + 1 /\ UNCHANGED <<oCmdCnt, outQue>>
      BY <2>2 DEF ModTakeCall
    <3> QED BY <1>t, <2>1, <3>1 DEF Calls
  <2>3. CASE ModReturn
    <3>1. /\ threads > 0 /\ threads' = threads - 1 /\ oCmdCnt' = oCmdCnt + 1
          /\ UNCHANGED <<callAvlCnt, outQue>>
      BY <2>3 DEF ModReturn
    <3> QED BY <1>t, <2>1, <3>1 DEF Calls
  <2>4. CASE ModSend
    <3>1. threads > 0 /\ UNCHANGED <<threads, callAvlCnt, oCmdCnt>>
      BY <2>4 DEF ModSend
    <3>2. Returning' < threads' + oCmdCnt'
      BY <1>t, <2>1, <3>1
    <3> QED BY <1>t, <2>1, <3>1, <3>2 DEF Calls
  <2> QED BY <1>7, <2>2, <2>3, <2>4
<1> QED BY <1>1, <1>2, <1>3, <1>4, <1>5, <1>6, <1>7
        DEF HtiNext, HtiCallNext, HtiRtnNext, ModNext

\* With the halt sent HTI and the modules are at rest.
LEMMA NoHtiStep ==
  ASSUME Calls, OutEnds, HtiNext \/ ModNext
  PROVE  ~HasHalt(outSent) /\ ~HasHalt(oBlkQue) /\ ~htiToHif_datHalt
<1>1. SUFFICES ASSUME HasHalt(outSent) PROVE FALSE
  BY DEF OutEnds
<1>2. Ended
  BY <1>1 DEF OutEnds
<1>3. threads = 0 /\ oCmdCnt = 0 /\ callAvlCnt = 1
  <2>1. /\ threads \in Nat /\ oCmdCnt \in Nat /\ callAvlCnt \in {0, 1}
        /\ (1 - callAvlCnt) + threads + oCmdCnt = 0
    BY <1>2 DEF Calls, Ended
  <2> QED BY <2>1
<1> QED BY <1>2, <1>3
        DEF Ended, HtiNext, HtiCallNext, HtiRtnNext, ModNext, CallIdleData, CallIdleCall, CallIdleHalt,
            CallArgs, CallCmd, CallData, IhmPop, RtnIdle, RtnCmd, RtnArg, RtnDone, RtnData,
            ModTakeCall, ModReturn, ModSend, ModSendMsg, Front

\* Before, HTI sends items that are no halt, or the halt when all is done.
LEMMA HtiKeepsEnds ==
  ASSUME OutInv, LastToHti, Calls, OutEnds, HtiNext \/ ModNext
  PROVE  OutEnds'
<1>1. ~HasHalt(outSent) /\ ~HasHalt(oBlkQue) /\ ~htiToHif_datHalt
  BY NoHtiStep
<1>2. UNCHANGED <<busy, hifToHti_datHalt, htiToHif_datHalt, oBlkState, oBlkWrCnt, oBlkWrDat>>
  <2>1. CASE HtiNext
    BY <2>1 DEF HtiNext, HtiCallNext, HtiRtnNext, CallIdleData, CallIdleCall, CallIdleHalt, CallArgs,
                CallCmd, CallData, IhmPop, RtnIdle, RtnCmd, RtnArg, RtnDone, RtnData,
                CallRest, RtnRest, HifRest, ibk, oWr
  <2>2. CASE ModNext
    BY <2>2 DEF ModNext, ModTakeCall, ModReturn, ModSend, ModSendMsg, ModRest, HifRest, hifVars,
                ibk, obk, oQue, oWr
  <2> QED BY <2>1, <2>2, SMTT(30)
<1>q. IsQueue(outSent) /\ IsQueue(oBlkQue)
  BY QueueIs DEF OutInv, OutTypes
<1>3. ASSUME UNCHANGED <<outSent, oBlkQue>> PROVE OutEnds'
  BY <1>1, <1>2, <1>3 DEF OutEnds, HasHalt, HaltLast
<1>4. ASSUME NEW item, item.ctl # "HALT", OPush(item) PROVE OutEnds'
  <2>1. oBlkQue' = Append(oBlkQue, item) /\ outSent' \in {outSent, Append(outSent, item)}
    BY <1>4 DEF OPush
  <2>2. ~HasHalt(oBlkQue') /\ HaltLast(oBlkQue')
    BY <1>1, <1>4, <1>q, <2>1, HaltAppend
  <2>3. ~HasHalt(outSent') /\ HaltLast(outSent')
    <3>1. ~HasHalt(Append(outSent, item)) /\ HaltLast(Append(outSent, item))
      BY <1>1, <1>4, <1>q, HaltAppend
    <3>2. HaltLast(outSent)
      BY DEF OutEnds
    <3> QED BY <1>1, <2>1, <3>1, <3>2
  <2> QED BY <1>1, <1>2, <2>2, <2>3 DEF OutEnds, HasHalt, HaltLast
<1>5. CASE CallIdleHalt
  <2>1. /\ OPush(Item("HALT", 0)) /\ iDatQue # <<>> /\ Head(iDatQue).ctl = "HALT"
        /\ iDatQue' = Tail(iDatQue) /\ iCtlQue = <<>> /\ Quiet /\ callState = "IDLE"
        /\ UNCHANGED <<iCtlQue, callState, rtnState, callActiveCnt, outQue>>
    BY <1>5 DEF CallIdleHalt, Front, IDatPop, CallRest, call, rtn
  <2>2. InOver' = InOver
    BY <1>2 DEF InOver
  <2>3. iDatQue' = <<>> /\ InOver
    BY <2>1, <2>2, HaltHtiPop
  <2>4. outQue = <<>>
    <3>1. threads \in Nat /\ oCmdCnt \in Nat /\ callAvlCnt \in {0, 1}
          /\ (1 - callAvlCnt) + threads + oCmdCnt = 0
      BY <2>1 DEF Calls, Quiet
    <3>2. threads + oCmdCnt = 0
      BY <3>1
    <3>3. ~(Returning < 0)
      BY DEF Returning
    <3> QED BY <3>2, <3>3 DEF Calls
  <2>5. Ended'
    BY <2>1, <2>2, <2>3, <2>4 DEF Ended, Quiet
  <2>6. /\ Item("HALT", 0).ctl = "HALT" /\ oBlkQue' = Append(oBlkQue, Item("HALT", 0))
        /\ outSent' = Append(outSent, Item("HALT", 0))
    BY <2>1 DEF OPush, Item
  <2>7. HaltLast(oBlkQue') /\ HaltLast(outSent') /\ HasHalt(outSent')
    BY <1>1, <1>q, <2>6, HaltAppend
  <2> QED BY <1>1, <1>2, <2>5, <2>7 DEF OutEnds, HasHalt, HaltLast
<1>6. CASE RtnCmd \/ RtnArg \/ RtnDone \/ RtnData
  <2>1. \/ UNCHANGED <<outSent, oBlkQue>>
        \/ \E k \in {"CALL", "DATA", "FLSH", "NULL"} : \E n : OPush(Item(k, n))
    BY <1>6 DEF RtnCmd, RtnArg, RtnDone, RtnData, NextWord
  <2>2. \A k, n : Item(k, n).ctl = k
    BY DEF Item
  <2> QED BY <1>3, <1>4, <2>1, <2>2
<1>7. CASE HtiNext /\ ~CallIdleHalt /\ ~(RtnCmd \/ RtnArg \/ RtnDone \/ RtnData)
  <2>1. UNCHANGED <<outSent, oBlkQue>>
    BY <1>7 DEF HtiNext, HtiCallNext, HtiRtnNext, CallIdleData, CallIdleCall, CallArgs,
                CallCmd, CallData, IhmPop, RtnIdle, CallRest, RtnRest
  <2> QED BY <1>3, <2>1
<1>8. CASE ModNext
  <2>1. UNCHANGED <<outSent, oBlkQue>>
    BY <1>8 DEF ModNext, ModTakeCall, ModReturn, ModSend, ModSendMsg, ModRest, hifVars, obk, oQue
  <2> QED BY <1>3, <2>1
<1> QED BY <1>5, <1>6, <1>7, <1>8

\* With the halt given to HTI nothing more is given to it, and no block of the
\* host is left to go back.
LEMMA OverStays ==
  ASSUME PersAssumption, HaltInv, InRing, HifNext, UNCHANGED hostVars, InOver
  PROVE  /\ InOver' /\ UNCHANGED <<iDatQue, iCtlQue>>
         /\ iBlkSendAvl' => iBlkSendAvl
<1>0. OnlyAvl /\ iBlkRdyQue = <<>> /\ iBlkState = "IDLE"
  BY DEF HaltInv, NothingToCome
<1>1. CASE IcmNext
  <2>1. UNCHANGED <<busy, hifToHti_datHalt, iDatQue, iBlkSendAvl>>
    BY <1>1 DEF IcmNext, IcmRead, IcmEmpty, IcmTake, IcmUser, IcmRdy, IcmAvl, IcmWrite, IcmWrRsp,
                htiIn, iAvl, ibk
  <2>2. ~IcmUser
    <3> SUFFICES ASSUME IcmUser PROVE FALSE
      OBVIOUS
    <3>1. IcmTake("user") /\ "user" \in Cmds /\ "user" # "avl"
      BY DEF IcmUser, Cmds
    <3>2. iCtlRdIdx \in Unread /\ ctlIn[iCtlRdIdx].cmd = "user"
      BY <3>1, InTake
    <3> QED BY <1>0, <3>1, <3>2 DEF OnlyAvl
  <2>3. UNCHANGED iCtlQue
    BY <1>1, <2>2, SMTT(30) DEF IcmNext, IcmRead, IcmEmpty, IcmTake, IcmRdy, IcmAvl, IcmWrite, IcmWrRsp, htiIn
  <2> QED BY <2>1, <2>3 DEF InOver
<1>2. CASE IbkNext
  <2>1. \A i \in DOMAIN fetch : fetch[i].pend = {} /\ fetch[i].val = 0
    BY <1>0 DEF HaltInv, Lines
  <2>2. iBlkPushIdx \in DOMAIN fetch
    BY DEF HaltInv, Lines
  <2> QED BY <1>0, <1>2, <2>1, <2>2
          DEF IbkNext, IbkSpecial, IbkData, IbkTake, IbkFetch64, IbkFetch8, CanFetch, IbkRead, IbkWait,
              IbkRdRsp, IbkPush, PushReady
<1>3. CASE OcmNext
  <2>1. UNCHANGED <<busy, hifToHti_datHalt, iDatQue, iCtlQue>>
    BY <1>3 DEF OcmNext, OcmSelect, OcmRead, OcmRdWait, OcmWrite, OcmWrRsp, htiIn, ibk
  <2>2. iBlkSendAvl' => iBlkSendAvl
    BY <1>3 DEF OcmNext, OcmSelect, OcmRead, OcmRdWait, OcmWrite, OcmWrRsp, Select, SelectBlk,
                SelectAvl, SelectCtl, iAvl
  <2>3. InOver'
    BY <2>1 DEF InOver
  <2> QED BY <2>1, <2>2, <2>3
<1>4. CASE ObkNext \/ ObkTimer \/ MemNext
  <2>1. UNCHANGED <<busy, hifToHti_datHalt, iDatQue, iCtlQue, iBlkSendAvl>>
    <3>1. CASE ObkNext \/ ObkTimer
      BY <3>1 DEF ObkNext, ObkTimer, ObkIdleFlsh, ObkIdle, ObkClose, ObkPop, ObkWr8, ObkWr64, ObkWrite,
                  ObkFlsh, ObkFlshed, ObkSendData, ObkSendItem, ObkSend, ObkRest, iAvl, ibk
    <3>2. CASE MemNext
      BY <3>2 DEF MemNext, ObkWrRsp, MemSettle, ObkRdRsp, MemRest, htiIn, iAvl, ibk
    <3> QED BY <1>4, <3>1, <3>2
  <2> QED BY <2>1 DEF InOver
<1>5. CASE Idle
  BY <1>5 DEF Idle, InOver
<1> QED BY <1>1, <1>2, <1>3, <1>4, <1>5 DEF HifNext

\* The unit's machines take from oBlkQue; the halt is announced alone.
LEMMA HifKeepsEnds ==
  ASSUME PersAssumption, OutInv, HaltInv, InRing, OutEnds, HifNext, UNCHANGED <<htiVars, hostVars>>
  PROVE  OutEnds'
<1>0. /\ UNCHANGED <<outSent, callState, rtnState, callActiveCnt, outQue>>
      /\ HasHalt(outSent') = HasHalt(outSent) /\ HaltLast(outSent')
  BY DEF htiVars, call, rtn, htiLog, OutEnds
<1>1. HasHalt(outSent) => Ended /\ Ended'
  <2>1. HasHalt(outSent) => Ended
    BY DEF OutEnds
  <2>2. Ended => InOver' /\ UNCHANGED <<iDatQue, iCtlQue>>
    BY OverStays DEF Ended
  <2> QED BY <1>0, <2>1, <2>2 DEF Ended
<1>t. /\ IsQueue(oBlkQue) /\ oBlkWrCnt \in Nat /\ (oBlkWrCnt = 0 /\ oBlkState = "SEND" => oBlkQue # <<>>)
  BY QueueIs DEF OutInv, OutTypes, ClosedFor
<1>h. HaltLast(oBlkQue) /\ (HasHalt(oBlkQue) => HasHalt(outSent))
  BY DEF OutEnds
<1>d. htiToHif_datHalt => HasHalt(outSent) /\ oBlkQue = <<>> /\ oBlkWrDat = <<>> /\ oBlkState = "IDLE"
  BY DEF OutEnds
<1>e. oBlkState \in {"FLSH", "SEND"} /\ oBlkWrCnt = 0 => oBlkWrDat = <<>>
  BY DEF OutEnds
<1>2. CASE Idle
  <2>1. oBlkQue' = <<>> /\ oBlkState' = "IDLE" /\ htiToHif_datHalt' = FALSE
    BY <1>2 DEF Idle
  <2>2. HaltLast(<<>>) /\ ~HasHalt(<<>>)
    BY DEF HaltLast, HasHalt
  <2> QED BY <1>0, <1>1, <2>1, <2>2 DEF OutEnds
<1>3. CASE IcmNext \/ OcmNext \/ IbkNext \/ ObkTimer \/ MemNext
  <2>1. UNCHANGED <<oBlkQue, oBlkState, oBlkWrCnt, oBlkWrDat, htiToHif_datHalt>>
    <3>1. CASE IcmNext \/ OcmNext
      BY <3>1, SMTT(30) DEF IcmNext, IcmRead, IcmEmpty, IcmTake, IcmUser, IcmRdy, IcmAvl, IcmWrite, IcmWrRsp,
                  OcmNext, OcmSelect, OcmRead, OcmRdWait, OcmWrite, OcmWrRsp, obk, oWr, oQue
    <3>2. CASE IbkNext
      BY <3>2 DEF IbkNext, IbkSpecial, IbkData, IbkTake, IbkFetch64, IbkFetch8, Fetch, IbkRead, IbkWait,
                  IbkRdRsp, IbkPush, obk, oWr, oQue
    <3>3. CASE ObkTimer \/ MemNext
      BY <3>3 DEF ObkTimer, MemNext, ObkWrRsp, MemSettle, ObkRdRsp, MemRest, oWr, oQue
    <3> QED BY <1>3, <3>1, <3>2, <3>3
  <2> QED BY <1>0, <1>1, <1>h, <1>d, <1>e, <2>1 DEF OutEnds
<1>4. CASE ObkNext
  <2>1. HaltLast(oBlkQue') /\ (HasHalt(oBlkQue') => HasHalt(outSent))
    <3>1. oBlkQue' = oBlkQue \/ (oBlkQue # <<>> /\ oBlkQue' = Tail(oBlkQue))
      BY <1>4, <1>t DEF ObkNext, ObkIdleFlsh, ObkIdle, ObkClose, ObkPop, ObkWr8, ObkWr64, ObkWrite,
                  ObkFlsh, ObkFlshed, ObkSendData, ObkSendItem, oQue
    <3>2. CASE oBlkQue' = oBlkQue
      BY <1>h, <3>2
    <3>3. CASE oBlkQue # <<>> /\ oBlkQue' = Tail(oBlkQue)
      <4>1. HaltLast(Tail(oBlkQue)) /\ (HasHalt(Tail(oBlkQue)) => HasHalt(oBlkQue))
        BY <1>t, <1>h, <3>3, HaltTail
      <4> QED BY <1>h, <3>3, <4>1
    <3> QED BY <3>1, <3>2, <3>3
  <2>2. oBlkState' \in {"FLSH", "SEND"} /\ oBlkWrCnt' = 0 => oBlkWrDat' = <<>>
    <3>1. CASE ObkWr8 \/ ObkWr64
      <4>1. PICK n \in {1, LineQw} : oBlkWrCnt' = oBlkWrCnt + n
        BY <3>1 DEF ObkWr8, ObkWr64, ObkWrite
      <4>2. n \in Nat \ {0}
        BY DEF PersAssumption
      <4>3. oBlkWrCnt' # 0
        BY <1>t, <4>1, <4>2
      <4> QED BY <4>3
    <3>2. CASE ObkIdleFlsh \/ ObkIdle \/ ObkClose \/ ObkPop \/ ObkFlsh \/ ObkFlshed \/ ObkSendData \/ ObkSendItem
      BY <1>e, <3>2 DEF ObkIdleFlsh, ObkIdle, ObkClose, ObkPop, ObkFlsh, ObkFlshed, ObkSendData,
                  ObkSendItem, ObkSend, oQue, oWr
    <3> QED BY <1>4, <3>1, <3>2 DEF ObkNext
  <2>3. htiToHif_datHalt' =>
          HasHalt(outSent) /\ oBlkQue' = <<>> /\ oBlkWrDat' = <<>> /\ oBlkState' = "IDLE"
    <3>1. CASE ObkSendItem
      <4>1. /\ oBlkState = "SEND" /\ oBlkWrCnt = 0 /\ oBlkQue' = Tail(oBlkQue) /\ oBlkState' = "IDLE"
            /\ htiToHif_datHalt' = (Head(oBlkQue).ctl = "HALT") /\ UNCHANGED oBlkWrDat
        BY <3>1 DEF ObkSendItem, ObkSend
      <4> QED BY <1>t, <1>h, <1>e, <4>1, HaltTail
    <3>2. CASE ~ObkSendItem
      <4>1. htiToHif_datHalt' = htiToHif_datHalt
        BY <1>4, <3>2 DEF ObkNext, ObkIdleFlsh, ObkIdle, ObkClose, ObkPop, ObkWr8, ObkWr64, ObkWrite,
                    ObkFlsh, ObkFlshed, ObkSendData
      <4>2. ASSUME htiToHif_datHalt PROVE FALSE
        <5>1. oBlkQue = <<>> /\ oBlkWrDat = <<>> /\ oBlkState = "IDLE"
          BY <1>d, <4>2
        <5> QED BY <1>4, <3>2, <5>1 DEF ObkNext, ObkIdleFlsh, ObkIdle, ObkClose, ObkPop, ObkWr8, ObkWr64,
                    ObkFlsh, ObkFlshed, ObkSendData, ObkSend
      <4> QED BY <4>1, <4>2
    <3> QED BY <3>1, <3>2
  <2> QED BY <1>0, <1>1, <2>1, <2>2, <2>3 DEF OutEnds
<1> QED BY <1>2, <1>3, <1>4 DEF HifNext

\* A step of the host has no part in it.
LEMMA EndsStay ==
  ASSUME Calls, OutEnds, UNCHANGED <<htiVars, busy, htiIn, ibk, obk>>
  PROVE  Calls' /\ OutEnds'
<1>1. UNCHANGED callPart /\ UNCHANGED endPart
      /\ UNCHANGED <<busy, hifToHti_datHalt, iDatQue, iCtlQue, oBlkQue, oBlkState, oBlkWrCnt, oBlkWrDat,
                     htiToHif_datHalt>>
  BY DEF htiVars, call, rtn, htiLog, htiIn, ibk, obk, oWr, oQue, callPart, endPart
<1>2. Calls'
  BY <1>1 DEF Calls, Returning, callPart
<1>3. OutEnds'
  BY <1>1 DEF OutEnds, Ended, InOver, HasHalt, HaltLast, endPart
<1> QED BY <1>2, <1>3

\* At first there is no call and no item.
LEMMA InitEnds ==
  ASSUME Init
  PROVE  Calls /\ OutEnds
<1>1. /\ threads = 0 /\ oCmdCnt = 0 /\ callAvlCnt = 1 /\ callActiveCnt = 0 /\ rtnState = "IDLE"
      /\ outQue = <<>> /\ outSent = <<>> /\ oBlkQue = <<>> /\ oBlkState = "IDLE"
      /\ htiToHif_datHalt = FALSE
  BY DEF Init, HtiInit, HifInit, HifReset
<1>2. HaltLast(<<>>) /\ ~HasHalt(<<>>)
  BY DEF HaltLast, HasHalt
<1>3. Returning = 0
  BY <1>1 DEF Returning
<1> QED BY <1>1, <1>2, <1>3 DEF Calls, OutEnds

\* Whatever the sizes, HTI's halt is its last word.
THEOREM EndInvariance == Spec => [](Calls /\ OutEnds)
<1>1. Init => Calls /\ OutEnds
  BY InitEnds
<1>2. OutInv /\ BlkInv /\ HaltInv /\ Calls /\ OutEnds /\ [Next]_vars => Calls' /\ OutEnds'
  <2> SUFFICES ASSUME OutInv, BlkInv, HaltInv, Calls, OutEnds, [Next]_vars PROVE Calls' /\ OutEnds'
    OBVIOUS
  <2>1. CASE HifStep
    <3>1. HifNext /\ UNCHANGED <<htiVars, hostVars>>
      BY <2>1 DEF HifStep, Alone
    <3>2. OutEnds'
      BY <3>1, HifKeepsEnds, PersAssumption DEF BlkInv
    <3>3. Calls'
      <4>1. UNCHANGED callPart
        BY <3>1 DEF htiVars, call, rtn, htiLog, callPart
      <4> QED BY <4>1 DEF Calls, Returning, callPart
    <3> QED BY <3>2, <3>3
  <2>2. CASE HtiStep
    <3>1. HtiNext \/ ModNext
      BY <2>2 DEF HtiStep
    <3> QED BY <3>1, HtiKeepsCalls, HtiKeepsEnds DEF HaltInv
  <2>3. CASE HostNext \/ UNCHANGED vars
    <3>1. UNCHANGED <<htiVars, busy, htiIn, ibk, obk>>
      <4>1. CASE HostNext
        BY <4>1 DEF HostNext, HostData, HostSpecial, HostHalt, HostUser, HostRecv, HostGiveBack, HostBlk,
                    HostMsg
      <4>2. CASE UNCHANGED vars
        BY <4>2 DEF vars, hifVars
      <4> QED BY <2>3, <4>1, <4>2
    <3> QED BY <3>1, EndsStay
  <2> QED BY <2>1, <2>2, <2>3 DEF Next, Finished
<1> QED BY <1>1, <1>2, OutInvariance, BlkInvariance, HaltInvariance, PTL DEF Spec

\* The halt is the last item of the unit: no call is at work and no data of
\* the modules is left when HTI answers it (CPersHti, the HALT case of IDLE).
THEOREM NothingAfterHaltCorrect == Spec => []NothingAfterHalt
<1>1. OutInv /\ Calls /\ OutEnds => NothingAfterHalt
  <2> SUFFICES ASSUME OutInv, Calls, OutEnds, NEW i \in DOMAIN outSent, outSent[i].ctl = "HALT"
               PROVE  i = Len(outSent) /\ callActiveCnt = 0 /\ outQue = <<>> /\ oCmdCnt = 0
    BY DEF NothingAfterHalt
  <2>1. DOMAIN outSent = 1..Len(outSent)
    BY LenProperties, SMTT(30) DEF OutInv, OutTypes
  <2>2. HasHalt(outSent) /\ i = Len(outSent)
    BY <2>1 DEF HasHalt, OutEnds, HaltLast
  <2>3. callActiveCnt = 0 /\ outQue = <<>>
    BY <2>2 DEF OutEnds, Ended
  <2>4. /\ threads \in Nat /\ oCmdCnt \in Nat /\ callAvlCnt \in {0, 1}
        /\ (1 - callAvlCnt) + threads + oCmdCnt = 0
    BY <2>3 DEF Calls
  <2>5. oCmdCnt = 0
    BY <2>4
  <2> QED BY <2>2, <2>3, <2>5
<1> QED BY <1>1, OutInvariance, EndInvariance, PTL

----------------------------------------------------------------------------
\* A request is of the block being filled or of the one that is to be
\* announced.  When the halt has been announced, and no message is being sent,
\* no other is left.
Announced(t) == (oBlkState # "IDLE" /\ t = Tid) \/ (oBlkSendRdy /\ t = oBlkSendIdx)
OwnReqs ==
  /\ \A r \in wrReqs : Announced(r.tid)
  /\ \A t \in 0..1 : rdPend[t] # {} => FlshEn /\ Announced(t)
LastSent ==
  htiToHif_datHalt /\ ~oBlkSendRdy /\ oCtlWrMsg = NoMsg => ~iBlkSendAvl /\ htiToHif_ctl = NoMsg

ownPart == <<wrReqs, rdPend, oBlkState, oBlkWrIdx, oBlkSendRdy, oBlkSendIdx>>

\* Requests that are answered leave fewer.
LEMMA OwnStays ==
  ASSUME OwnReqs, wrReqs' \subseteq wrReqs, \A t \in 0..1 : rdPend'[t] \subseteq rdPend[t],
         UNCHANGED <<oBlkWrIdx, oBlkSendRdy, oBlkSendIdx>>,
         oBlkState # "IDLE" => oBlkState' # "IDLE"
  PROVE  OwnReqs'
<1>1. \A t : Announced(t) => Announced(t)'
  BY DEF Announced, Tid
<1> QED BY <1>1 DEF OwnReqs

\* A block is announced when none of its requests is left,
LEMMA SelectKeepsOwn ==
  ASSUME OwnReqs, Select, UNCHANGED <<wrReqs, rdPend, oBlkState, oBlkWrIdx, oBlkSendIdx>>
  PROVE  OwnReqs'
<1>1. CASE SelectBlk
  <2>1. BlkWritten(oBlkSendIdx)
    BY <1>1 DEF SelectBlk, CanSendBlk
  <2>2. \A r \in wrReqs : r.tid # oBlkSendIdx
    BY <2>1 DEF BlkWritten, WrPend
  <2>3. FlshEn => rdPend[oBlkSendIdx] = {}
    BY <2>1 DEF BlkWritten
  <2>4. \A t : Announced(t) /\ t # oBlkSendIdx => Announced(t)'
    BY DEF Announced, Tid
  <2> QED BY <2>2, <2>3, <2>4 DEF OwnReqs
<1>2. CASE SelectAvl \/ SelectCtl
  <2>1. UNCHANGED oBlkSendRdy
    BY <1>2 DEF SelectAvl, SelectCtl
  <2> QED BY <2>1, OwnStays
<1> QED BY <1>1, <1>2 DEF Select

\* and the next is closed when it has been announced.
LEMMA ObkKeepsOwn ==
  ASSUME WrInv, OwnReqs, ObkNext \/ ObkTimer \/ MemNext
  PROVE  OwnReqs'
<1>1. CASE ObkIdleFlsh \/ ObkIdle \/ ObkClose \/ ObkPop \/ ObkFlshed \/ ObkTimer
  <2>1. /\ UNCHANGED <<wrReqs, rdPend, oBlkWrIdx, oBlkSendRdy, oBlkSendIdx>>
        /\ oBlkState # "IDLE" => oBlkState' # "IDLE"
    BY <1>1 DEF ObkIdleFlsh, ObkIdle, ObkClose, ObkPop, ObkFlshed, ObkTimer, oMem, oWr, oSend
  <2> QED BY <2>1, OwnStays
<1>2. CASE ObkWr8 \/ ObkWr64
  <2>1. PICK n : ObkWrite(n)
    BY <1>2 DEF ObkWr8, ObkWr64
  <2>2. /\ UNCHANGED <<rdPend, oBlkWrIdx, oBlkSendRdy, oBlkSendIdx>>
        /\ oBlkState # "IDLE" /\ oBlkState' # "IDLE"
    BY <1>2, <2>1 DEF ObkWr8, ObkWr64, ObkWrite, oSend
  <2>3. \A t : Announced(t) \/ t = Tid => Announced(t)'
    BY <2>2 DEF Announced, Tid
  <2>4. \A r \in wrReqs' : r \in wrReqs \/ r.tid = Tid
    BY <2>1 DEF ObkWrite
  <2> QED BY <2>2, <2>3, <2>4 DEF OwnReqs
<1>3. CASE ObkFlsh
  <2>1. /\ UNCHANGED <<wrReqs, oBlkState, oBlkWrIdx, oBlkSendRdy, oBlkSendIdx>>
        /\ oBlkState # "IDLE" /\ FlshEn
        /\ \A t \in 0..1 : t # Tid => rdPend'[t] = rdPend[t]
    BY <1>3 DEF ObkFlsh, oSend, WrInv, WrTypes
  <2>2. \A t : Announced(t) \/ t = Tid => Announced(t)'
    BY <2>1 DEF Announced, Tid
  <2> QED BY <2>1, <2>2 DEF OwnReqs
<1>4. CASE ObkSendData \/ ObkSendItem
  <2>1. /\ UNCHANGED <<wrReqs, rdPend>> /\ ~oBlkSendRdy /\ oBlkSendRdy' /\ oBlkSendIdx' = Tid
    BY <1>4 DEF ObkSendData, ObkSendItem, ObkSend, oMem
  <2>2. \A t : Announced(t) => Announced(t)'
    BY <2>1 DEF Announced
  <2> QED BY <2>1, <2>2 DEF OwnReqs
<1>5. CASE MemNext
  <2>1. /\ UNCHANGED <<oBlkState, oBlkWrIdx, oBlkSendRdy, oBlkSendIdx>> /\ wrReqs' \subseteq wrReqs
    BY <1>5 DEF MemNext, ObkWrRsp, MemSettle, ObkRdRsp, MemRest, oWr, oSend
  <2>2. \A t \in 0..1 : rdPend'[t] \subseteq rdPend[t]
    <3>1. CASE ObkRdRsp
      <4>1. PICK u \in 0..1 : \E c \in rdPend[u] : rdPend' = [rdPend EXCEPT ![u] = @ \ {c}]
        BY <3>1 DEF ObkRdRsp
      <4>2. DOMAIN rdPend = 0..1
        BY DEF WrInv, WrTypes
      <4> QED BY <4>1, <4>2
    <3>2. CASE ObkWrRsp \/ MemSettle
      BY <3>2 DEF ObkWrRsp, MemSettle
    <3> QED BY <1>5, <3>1, <3>2 DEF MemNext
  <2> QED BY <2>1, <2>2, OwnStays
<1> QED BY <1>1, <1>2, <1>3, <1>4, <1>5 DEF ObkNext

\* The other machines have no part in it; the reset forgets all requests.
LEMMA HifKeepsOwn ==
  ASSUME WrInv, OwnReqs, HifNext
  PROVE  OwnReqs'
<1>1. CASE IcmNext \/ IbkNext \/ OcmRead \/ OcmRdWait \/ OcmWrRsp
  <2>1. UNCHANGED ownPart
    <3>1. CASE IcmNext \/ OcmRead \/ OcmRdWait \/ OcmWrRsp
      BY <3>1, SMTT(30) DEF IcmNext, IcmRead, IcmEmpty, IcmTake, IcmUser, IcmRdy, IcmAvl, IcmWrite, IcmWrRsp,
                  OcmRead, OcmRdWait, OcmWrRsp, obk, oWr, oMem, oSend, ownPart
    <3>2. CASE IbkNext
      BY <3>2 DEF IbkNext, IbkSpecial, IbkData, IbkTake, IbkFetch64, IbkFetch8, Fetch, IbkRead, IbkWait,
                  IbkRdRsp, IbkPush, obk, oWr, oMem, oSend, ownPart
    <3> QED BY <1>1, <3>1, <3>2
  <2> QED BY <2>1, OwnStays DEF ownPart
<1>2. CASE OcmSelect \/ OcmWrite
  <2>1. /\ UNCHANGED <<wrReqs, rdPend, oBlkState, oBlkWrIdx, oBlkSendIdx>>
        /\ Select \/ UNCHANGED oBlkSendRdy
    BY <1>2 DEF OcmSelect, OcmWrite, obk, oWr, oMem
  <2> QED BY <2>1, SelectKeepsOwn, OwnStays
<1>3. CASE ObkNext \/ ObkTimer \/ MemNext
  BY <1>3, ObkKeepsOwn
<1>4. CASE Idle
  <2>1. wrReqs' = {} /\ rdPend' = [t \in 0..1 |-> {}]
    BY <1>4 DEF Idle
  <2> QED BY <2>1 DEF OwnReqs
<1> QED BY <1>1, <1>2, <1>3, <1>4 DEF HifNext, OcmNext

\* The messages are chosen with the blocks first, those given back next.
LEMMA HifKeepsLast ==
  ASSUME PersAssumption, OutRing, HaltInv, InRing, OutEnds, LastSent, HifNext,
         UNCHANGED <<htiVars, hostVars>>
  PROVE  LastSent'
<1>1. CASE OcmSelect \/ OcmWrite
  <2>1. UNCHANGED <<htiToHif_datHalt, oBlkSize>>
    BY <1>1 DEF OcmSelect, OcmWrite, obk
  <2>2. CASE Select
    <3>1. oCtlWrMsg'.cmd \in Cmds
      BY <2>1, <2>2, OutChosen
    <3>2. oCtlWrMsg' # NoMsg
      BY <3>1, MsgCmds
    <3> QED BY <3>2 DEF LastSent
  <2>3. CASE NothingToSelect /\ UNCHANGED <<iBlkSendAvl, htiToHif_ctl>>
    BY <2>3 DEF LastSent, NothingToSelect
  <2> QED BY <1>1, <2>2, <2>3 DEF OcmSelect, OcmWrite
<1>2. CASE IcmNext \/ OcmRead \/ OcmRdWait \/ OcmWrRsp
  <2>1. UNCHANGED <<htiToHif_datHalt, oBlkSendRdy, oCtlWrMsg, iBlkSendAvl, htiToHif_ctl>>
    BY <1>2 DEF IcmNext, IcmRead, IcmEmpty, IcmTake, IcmUser, IcmRdy, IcmAvl, IcmWrite, IcmWrRsp,
                OcmRead, OcmRdWait, OcmWrRsp, obk, oSend, ctlTo, iAvl
  <2> QED BY <2>1 DEF LastSent
<1>3. CASE IbkNext
  <2>1. UNCHANGED <<htiToHif_datHalt, oBlkSendRdy, oCtlWrMsg, htiToHif_ctl>>
    BY <1>3 DEF IbkNext, IbkSpecial, IbkData, IbkTake, IbkFetch64, IbkFetch8, Fetch, IbkRead, IbkWait,
                IbkRdRsp, IbkPush, obk, oSend, ctlTo
  <2>2. htiToHif_datHalt => (iBlkSendAvl' => iBlkSendAvl)
    BY OverStays DEF OutEnds, Ended
  <2> QED BY <2>1, <2>2, SMTT(30) DEF LastSent
<1>4. CASE ObkSendData \/ ObkSendItem
  <2>1. oBlkSendRdy'
    BY <1>4 DEF ObkSendData, ObkSendItem, ObkSend
  <2> QED BY <2>1 DEF LastSent
<1>5. CASE (ObkNext /\ ~ObkSendData /\ ~ObkSendItem) \/ ObkTimer \/ MemNext
  <2>1. UNCHANGED <<htiToHif_datHalt, oBlkSendRdy, oCtlWrMsg, iBlkSendAvl, htiToHif_ctl>>
    <3>1. CASE (ObkNext /\ ~ObkSendData /\ ~ObkSendItem) \/ ObkTimer
      BY <3>1 DEF ObkNext, ObkTimer, ObkIdleFlsh, ObkIdle, ObkClose, ObkPop, ObkWr8, ObkWr64, ObkWrite,
                  ObkFlsh, ObkFlshed, ObkRest, oSend, ctlTo, iAvl
    <3>2. CASE MemNext
      BY <3>2 DEF MemNext, ObkWrRsp, MemSettle, ObkRdRsp, MemRest, oSend, ctlTo, iAvl
    <3> QED BY <1>5, <3>1, <3>2
  <2> QED BY <2>1 DEF LastSent
<1>6. CASE Idle
  <2>1. htiToHif_datHalt' = FALSE
    BY <1>6 DEF Idle
  <2> QED BY <2>1 DEF LastSent
<1> QED BY <1>1, <1>2, <1>3, <1>4, <1>5, <1>6 DEF HifNext, OcmNext

\* Whatever the sizes, a request has a block that waits for it.
THEOREM QuietInvariance == Spec => [](OwnReqs /\ LastSent)
<1>1. Init => OwnReqs /\ LastSent
  BY DEF Init, HifInit, HifReset, OwnReqs, LastSent
<1>2. WrInv /\ BlkInv /\ HaltInv /\ Calls /\ OutEnds /\ OwnReqs /\ LastSent /\ [Next]_vars
        => OwnReqs' /\ LastSent'
  <2> SUFFICES ASSUME WrInv, BlkInv, HaltInv, Calls, OutEnds, OwnReqs, LastSent, [Next]_vars
               PROVE OwnReqs' /\ LastSent'
    OBVIOUS
  <2>1. CASE HifStep
    <3>1. HifNext /\ UNCHANGED <<htiVars, hostVars>>
      BY <2>1 DEF HifStep, Alone
    <3> QED BY <3>1, HifKeepsOwn, HifKeepsLast, PersAssumption DEF BlkInv
  <2>2. CASE HtiStep
    <3>1. HtiNext \/ ModNext
      BY <2>2 DEF HtiStep
    <3>2. UNCHANGED ownPart /\ UNCHANGED htiToHif_datHalt
      <4>1. CASE HtiNext
        BY <4>1 DEF HtiNext, HtiCallNext, HtiRtnNext, CallIdleData, CallIdleCall, CallIdleHalt, CallArgs,
                    CallCmd, CallData, IhmPop, RtnIdle, RtnCmd, RtnArg, RtnDone, RtnData,
                    CallRest, RtnRest, HifRest, oWr, oMem, oSend, ownPart
      <4>2. CASE ModNext
        BY <4>2 DEF ModNext, ModTakeCall, ModReturn, ModSend, ModSendMsg, ModRest, HifRest, hifVars,
                    obk, oWr, oMem, oSend, ownPart
      <4> QED BY <3>1, <4>1, <4>2
    <3>3. LastSent'
      BY <3>1, <3>2, NoHtiStep DEF LastSent
    <3> QED BY <3>2, <3>3, OwnStays DEF ownPart
  <2>3. CASE HostNext \/ UNCHANGED vars
    <3>1. /\ UNCHANGED ownPart
          /\ UNCHANGED <<htiToHif_datHalt, oBlkSendRdy, oCtlWrMsg, iBlkSendAvl, htiToHif_ctl>>
      <4>1. CASE HostNext
        BY <4>1 DEF HostNext, HostData, HostSpecial, HostHalt, HostUser, HostRecv, HostGiveBack, HostBlk,
                    HostMsg, obk, oWr, oMem, oSend, ctlTo, iAvl, ownPart
      <4>2. CASE UNCHANGED vars
        BY <4>2 DEF vars, hifVars, obk, oWr, oMem, oSend, ctlTo, iAvl, ownPart
      <4> QED BY <2>3, <4>1, <4>2
    <3>2. OwnReqs'
      BY <3>1, OwnStays DEF ownPart
    <3> QED BY <3>1, <3>2 DEF LastSent
  <2> QED BY <2>1, <2>2, <2>3 DEF Next, Finished
<1> QED BY <1>1, <1>2, WrInvariance, BlkInvariance, HaltInvariance, EndInvariance, PTL DEF Spec

\* What the condition of the reset leaves out is empty: the two halts and the
\* blocks that are back are enough (CPersHif, the test for idle).
THEOREM IdleIsQuietCorrect == Spec => []IdleIsQuiet
<1>1. WrInv /\ BlkInv /\ HaltInv /\ OutEnds /\ OwnReqs /\ LastSent => IdleIsQuiet
  <2> SUFFICES ASSUME WrInv, BlkInv, HaltInv, OutEnds, OwnReqs, LastSent, busy, IdleNow
               PROVE  /\ Unread = {} /\ htiToHif_ctl = NoMsg /\ ~iBlkSendAvl /\ ~oBlkSendRdy
                      /\ iBlkRdyQue = <<>> /\ iBlkState = "IDLE" /\ oBlkState = "IDLE"
                      /\ \A i \in DOMAIN fetch : fetch[i].pend = {} /\ fetch[i].val = 0
                      /\ wrReqs = {} /\ posted = {} /\ rdPend = [t \in 0..1 |-> {}]
                      /\ oBlkQue = <<>> /\ oBlkWrDat = <<>> /\ iDatQue = <<>>
                      /\ callActiveCnt = 0 /\ outQue = <<>>
    BY DEF IdleIsQuiet
  <2>1. InOver /\ htiToHif_datHalt /\ oCtlWrMsg = NoMsg /\ oBlkAvlCnt = OBlkCnt
    BY DEF IdleNow, InOver
  <2>2. /\ OnlyAvl /\ iBlkRdyQue = <<>> /\ iBlkState = "IDLE"
        /\ \A i \in DOMAIN fetch : fetch[i].pend = {} /\ fetch[i].val = 0
    BY <2>1 DEF HaltInv, NothingToCome, Lines
  <2>3. OutHeld = 0 /\ OutDone = 0 /\ NotTaken("avl") = 0
    <3>1. /\ OutHeld \in Nat /\ OutDone \in Nat /\ NotTaken("avl") \in Nat /\ hOwe \in Nat
          /\ OnTheWay("rdy") \in Nat /\ OBlkCnt \in Nat
      BY SumTypes, PersAssumption DEF BlkInv
    <3>2. oBlkAvlCnt + OutHeld + OutDone + OnTheWay("rdy") + hOwe + NotTaken("avl") = OBlkCnt
      BY DEF BlkInv, Sums, OutSum
    <3> QED BY <2>1, <3>1, <3>2
  <2>4. oBlkState = "IDLE" /\ ~oBlkSendRdy
    BY <2>3 DEF OutHeld, OutDone
  <2>5. Unread = {}
    <3>1. Unread \in SUBSET Slots /\ IsFiniteSet(SlotSet(ctlIn, Unread, "avl"))
      <4>1. Unread \in SUBSET Slots
        BY UnreadType, PersAssumption DEF BlkInv
      <4> QED BY <4>1, SlotsFinite, PersAssumption
    <3>2. SlotSet(ctlIn, Unread, "avl") = Unread
      BY <2>2 DEF SlotSet, OnlyAvl
    <3>3. Cardinality(Unread) = 0
      BY <2>3, <3>2 DEF NotTaken, SlotsWith, SlotSet
    <3> QED BY <3>1, <3>2, <3>3, FS_EmptySet
  <2>6. htiToHif_ctl = NoMsg /\ ~iBlkSendAvl
    BY <2>1, <2>4 DEF LastSent
  <2>7. wrReqs = {} /\ \A t \in 0..1 : rdPend[t] = {}
    BY <2>4 DEF OwnReqs, Announced
  <2>8. rdPend = [t \in 0..1 |-> {}]
    BY <2>7 DEF WrInv, WrTypes
  <2>9. posted = {}
    <3>1. \A r \in posted : Mc(r) \in rdPend[r.tid]
      BY <2>4 DEF WrInv, Flushing, Filling
    <3>2. \A r \in posted : r.tid \in 0..1
      BY DEF WrInv, WrTypes, Reqs, IsReq
    <3> QED BY <2>7, <3>1, <3>2
  <2>10. /\ oBlkQue = <<>> /\ oBlkWrDat = <<>> /\ iDatQue = <<>>
         /\ callActiveCnt = 0 /\ outQue = <<>>
    BY <2>1 DEF OutEnds, Ended
  <2> QED BY <2>2, <2>4, <2>5, <2>6, <2>7, <2>8, <2>9, <2>10
<1> QED BY <1>1, WrInvariance, BlkInvariance, HaltInvariance, EndInvariance, QuietInvariance, PTL

=============================================================================
