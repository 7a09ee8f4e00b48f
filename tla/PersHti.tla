------------------------------ MODULE PersHti ------------------------------
(***************************************************************************)
(* CPersHti, the hardware between CPersHif and the modules of a unit       *)
(* (GenHtiFiles.cpp): it turns the words of the inbound queue into calls   *)
(* and data for the modules, and returns and data of the modules into      *)
(* items of the outbound queue.  The modules themselves are the user's;    *)
(* here they take calls and data when they like, send while they work on a *)
(* call, and return.                                                       *)
(***************************************************************************)
EXTENDS PersHif

CONSTANTS
  RtnQw,      \* quadwords of a return's arguments
  OutCtls,    \* what the modules send: "DATA", "NULL", "user"
  MaxOut      \* bound: items and messages the modules send in a run

ASSUME HtiAssumption == RtnQw \in Nat

VARIABLES
  callState, callArgCnt, callActiveCnt,
  callAvlCnt,       \* 1: the called module takes a call
  rtnState, rtnCnt,
  outQue,           \* m_..ToHif_..Que: what the modules have sent
  oCmdCnt,          \* returns of the modules (m_oCmdQue)
  threads,          \* calls the modules work on
  usrSent,          \* messages the modules have sent
  inRcvd, outSent   \* log: items HTI has taken in and given out

call == <<callState, callArgCnt>>
rtn  == <<rtnState, rtnCnt, oCmdCnt>>
htiLog  == <<inRcvd, outSent, usrSent>>
htiVars == <<call, callActiveCnt, callAvlCnt, rtn, outQue, threads, htiLog>>

HtiInit ==
  /\ callState = "IDLE" /\ callArgCnt = 0 /\ callActiveCnt = 0 /\ callAvlCnt = 1
  /\ rtnState = "IDLE" /\ rtnCnt = 0 /\ outQue = <<>> /\ oCmdCnt = 0 /\ threads = 0
  /\ inRcvd = <<>> /\ outSent = <<>> /\ usrSent = 0

\* CPersHif's part of the state that HTI leaves alone.
HifRest == <<mem, busy, icm, ocm, iAvl, ibk, oBlkState, oWr, oBlkWrDat, oMem, oBlkAvlCnt,
             htiToHif_datHalt, oSend>>

\* The first item of iDatQue is taken, its credit goes back.
IDatPop ==
  /\ iDatQue' = Tail(iDatQue) /\ datAvlCnt' = (datAvlCnt + 1) % 64
  /\ inRcvd' = Append(inRcvd, Head(iDatQue))
Front(ctls) == iDatQue # <<>> /\ Head(iDatQue).ctl \in ctls

\* An item for the host.
OPush(item) ==
  /\ htiAvlCnt # 0
  /\ oBlkQue' = Append(oBlkQue, item) /\ htiAvlCnt' = htiAvlCnt - 1
  /\ outSent' = IF item.ctl = "FLSH" THEN outSent ELSE Append(outSent, item)

\* Every word is the number of its place among the items: no two are equal.
NextWord == Item("DATA", Len(outSent) + 1)

----------------------------------------------------------------------------
\* Calls.  What a step leaves alone:
CallRest == <<HifRest, ctlTo, ctlAvlCnt, iCtlQue, rtn, outQue, threads, usrSent>>

CallIdleData ==
  /\ callState = "IDLE" /\ Front({"DATA"})
  /\ callState' = "DATA"
  /\ UNCHANGED <<CallRest, callArgCnt, callActiveCnt, callAvlCnt, iDatQue, datAvlCnt, inRcvd,
                 oBlkQue, htiAvlCnt, outSent>>
CallIdleCall ==
  /\ callState = "IDLE" /\ Front({"CALL"})
  /\ callState' = "ARGS" /\ callArgCnt' = Head(iDatQue).dat
  /\ IDatPop
  /\ UNCHANGED <<CallRest, callActiveCnt, callAvlCnt, oBlkQue, htiAvlCnt, outSent>>

Quiet == rtnState = "IDLE" /\ callActiveCnt = 0

\* The halt is answered when every call has returned.  (A user message is
\* taken in every clock of IDLE: none is left when the halt's block has been
\* to the host and back.)
CallIdleHalt ==
  /\ callState = "IDLE" /\ Front({"HALT"}) /\ Quiet /\ iCtlQue = <<>>
  /\ OPush(Item("HALT", 0))
  /\ IDatPop
  /\ UNCHANGED <<CallRest, call, callActiveCnt, callAvlCnt>>

CallArgs ==
  /\ callState = "ARGS"
  /\ \/ /\ callArgCnt = 0 /\ callState' = "CMD"
        /\ UNCHANGED <<callArgCnt, iDatQue, datAvlCnt, inRcvd>>
     \/ /\ callArgCnt # 0 /\ iDatQue # <<>>
        /\ IDatPop /\ callArgCnt' = callArgCnt - 1
        /\ UNCHANGED callState
  /\ UNCHANGED <<CallRest, callActiveCnt, callAvlCnt, oBlkQue, htiAvlCnt, outSent>>

CallCmd ==
  /\ callState = "CMD" /\ callAvlCnt # 0
  /\ callAvlCnt' = 0 /\ callActiveCnt' = callActiveCnt + 1
  /\ callState' = "DATA"
  /\ UNCHANGED <<CallRest, callArgCnt, iDatQue, datAvlCnt, inRcvd, oBlkQue, htiAvlCnt, outSent>>

\* Words and markers go to the module that has the inbound queue; a call or
\* the halt is for IDLE.
CallData ==
  /\ callState = "DATA" /\ iDatQue # <<>>
  /\ IF Front({"CALL", "HALT"})
     THEN callState' = "IDLE" /\ UNCHANGED <<iDatQue, datAvlCnt, inRcvd>>
     ELSE IDatPop /\ UNCHANGED callState
  /\ UNCHANGED <<CallRest, callArgCnt, callActiveCnt, callAvlCnt, oBlkQue, htiAvlCnt, outSent>>

\* User messages of the host, but not between a call and its command.
IhmPop ==
  /\ iCtlQue # <<>> /\ callState \notin {"CMD", "ARGS"}
  /\ iCtlQue' = Tail(iCtlQue) /\ ctlAvlCnt' = ctlAvlCnt + 1
  /\ UNCHANGED <<HifRest, ctlTo, datAvlCnt, iDatQue, call, callActiveCnt, callAvlCnt, rtn, outQue,
                 threads, inRcvd, outSent, usrSent, oBlkQue, htiAvlCnt>>

----------------------------------------------------------------------------
\* Returns.
RtnRest == <<HifRest, ctlTo, htiIn, call, callAvlCnt, threads, inRcvd, usrSent>>

\* Mutant of RtnIdle: returns come before data.
RtnIdle_CmdFirst ==
  /\ rtnState = "IDLE" /\ (outQue # <<>> \/ oCmdCnt > 0)
  /\ rtnState' = IF oCmdCnt > 0 THEN "CMD" ELSE "DATA"
  /\ UNCHANGED <<RtnRest, rtnCnt, oCmdCnt, outQue, callActiveCnt, oBlkQue, htiAvlCnt, outSent>>
RtnIdle ==
  /\ rtnState = "IDLE" /\ (outQue # <<>> \/ oCmdCnt > 0)
  /\ rtnState' = IF outQue # <<>> THEN "DATA" ELSE "CMD"
  /\ UNCHANGED <<RtnRest, rtnCnt, oCmdCnt, outQue, callActiveCnt, oBlkQue, htiAvlCnt, outSent>>

RtnCmd ==
  /\ rtnState = "CMD"
  /\ OPush(Item("CALL", RtnQw))
  /\ rtnCnt' = RtnQw /\ rtnState' = "ARGS"
  /\ UNCHANGED <<RtnRest, oCmdCnt, outQue, callActiveCnt>>
RtnArg ==
  /\ rtnState = "ARGS" /\ rtnCnt # 0
  /\ OPush(NextWord)
  /\ rtnCnt' = rtnCnt - 1
  /\ UNCHANGED <<RtnRest, rtnState, oCmdCnt, outQue, callActiveCnt>>
RtnDone ==
  /\ rtnState = "ARGS" /\ rtnCnt = 0
  /\ OPush(Item("FLSH", 0))
  /\ callActiveCnt' = callActiveCnt - 1 /\ oCmdCnt' = oCmdCnt - 1
  /\ rtnState' = "IDLE"
  /\ UNCHANGED <<RtnRest, rtnCnt, outQue>>

RtnData ==
  /\ rtnState = "DATA"
  /\ IF outQue = <<>>
     THEN rtnState' = "IDLE" /\ UNCHANGED <<outQue, oBlkQue, htiAvlCnt, outSent>>
     ELSE /\ OPush(IF Head(outQue) = "NULL" THEN Item("NULL", 0) ELSE NextWord)
          /\ outQue' = Tail(outQue)
          /\ rtnState' = IF Head(outQue) = "NULL" THEN "IDLE" ELSE "DATA"
  /\ UNCHANGED <<RtnRest, rtnCnt, oCmdCnt, callActiveCnt>>

----------------------------------------------------------------------------
\* The unit's modules, as HTI sees them.
ModRest == <<hifVars, call, callActiveCnt, rtnState, rtnCnt, inRcvd, outSent>>

ModTakeCall ==
  /\ callAvlCnt = 0
  /\ callAvlCnt' = 1 /\ threads' = threads + 1
  /\ UNCHANGED <<ModRest, oCmdCnt, outQue, usrSent>>
ModReturn ==
  /\ threads > 0
  /\ threads' = threads - 1 /\ oCmdCnt' = oCmdCnt + 1
  /\ UNCHANGED <<ModRest, callAvlCnt, outQue, usrSent>>

\* What the modules have sent but for returns.
ModSent ==
  usrSent + Len(outQue) + Cardinality({i \in DOMAIN outSent : outSent[i].ctl \in {"DATA", "NULL"}})
ModSend ==
  /\ threads > 0 /\ ModSent < MaxOut
  /\ \E c \in OutCtls \ {"user"} : outQue' = Append(outQue, c)
  /\ UNCHANGED <<ModRest, callAvlCnt, oCmdCnt, threads, usrSent>>

\* A module's message is taken when CPersHif has room for one and no return
\* is about to begin.
ModSendMsg ==
  /\ "user" \in OutCtls /\ threads > 0 /\ ModSent < MaxOut
  /\ rtnState # "CMD" /\ htiToHif_ctl = NoMsg
  /\ htiToHif_ctl' = UserMsg /\ usrSent' = usrSent + 1
  /\ UNCHANGED <<HifRest, oCtlWrMsg, htiIn, oBlkQue, htiAvlCnt, call, callActiveCnt, callAvlCnt,
                 rtn, outQue, threads, inRcvd, outSent>>

HtiCallNext == CallIdleData \/ CallIdleCall \/ CallIdleHalt \/ CallArgs \/ CallCmd \/ CallData
HtiRtnNext == RtnIdle \/ RtnCmd \/ RtnArg \/ RtnDone \/ RtnData
HtiNext == HtiCallNext \/ IhmPop \/ HtiRtnNext
ModNext == ModTakeCall \/ ModReturn \/ ModSend \/ ModSendMsg
=============================================================================
