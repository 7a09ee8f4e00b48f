--------------------------- MODULE HtModelHifLib ---------------------------
(***************************************************************************)
(* The library object of the coprocessor, CHtModelHifLib, in the thread    *)
(* that runs HtCoprocModel: it makes the units, lets worker threads serve  *)
(* them, one for each unit (CHtModelHif::StartUnitThreads) or one for all, *)
(* and ends when every unit has seen its halt.  The first unit that reads  *)
(* its parameters starts the timer thread.                                 *)
(***************************************************************************)
EXTENDS HtHifLib

CONSTANTS
  UnitThreads,  \* a worker for each unit (not HT_MODEL_NO_UNIT_THREADS)
  OBlkTimer     \* m_oBlkTimerUSec > 0

ASSUME ModelPoolAssumption == UnitThreads \in BOOLEAN /\ OBlkTimer \in BOOLEAN

\* Threads that poll units: the workers, and in the end the destructor.
Dtor    == UnitCnt
Workers == IF UnitThreads THEN Units ELSE {0}
Pollers == Workers \cup {Dtor}
Serves(w) == IF UnitThreads /\ w # Dtor THEN {w} ELSE Units

VARIABLES
  coPc, coIdx,   \* the thread in HtCoprocModel
  haltSeen,      \* units whose own m_bHaltSeen is set
  pHaltSeen,     \* units set in m_pHaltSeen
  configured,    \* units that have read their parameters
  bTimerStarted, bTimerFinished, mDeleted,
  wPc, wUnit,    \* a poller: where it is, and in which unit
  kPc, kIdx, kDone \* the timer thread a poller has started

modelVars == <<coPc, coIdx, haltSeen, pHaltSeen, configured, bTimerStarted, bTimerFinished,
               mDeleted, wPc, wUnit, kPc, kIdx, kDone>>

ModelPoolInit ==
  /\ coPc = "none" /\ coIdx = 0
  /\ haltSeen = {} /\ pHaltSeen = {} /\ configured = {}
  /\ bTimerStarted = FALSE /\ bTimerFinished = FALSE /\ mDeleted = FALSE
  /\ wPc = [w \in Pollers |-> "none"] /\ wUnit = [w \in Pollers |-> 0]
  /\ kPc = [w \in Pollers |-> "none"] /\ kIdx = [w \in Pollers |-> 0]
  /\ kDone = [w \in Pollers |-> TRUE]

----------------------------------------------------------------------------
\* HtCoprocModel: StartUnitThreads, WaitForUnitThreads, ~CHtModelHifLib.

CoStart ==
  /\ bCoprocDispatched /\ coPc = "none" /\ coPc' = "start"
  /\ UNCHANGED <<hostVars, coIdx, haltSeen, pHaltSeen, configured, bTimerStarted,
                 bTimerFinished, mDeleted, wPc, wUnit, kPc, kIdx, kDone>>

\* AllocUnit of the next unit, and its worker; a single worker starts when all
\* units are there.
CoStartUnit ==
  /\ coPc = "start" /\ coIdx' = coIdx + 1
  /\ coPc' = IF coIdx' = UnitCnt THEN "join" ELSE "start"
  /\ wPc' = CASE UnitThreads      -> [wPc EXCEPT ![coIdx] = "poll"]
              [] coIdx' = UnitCnt -> [wPc EXCEPT ![0] = "poll"]
              [] OTHER            -> wPc
  /\ UNCHANGED <<hostVars, haltSeen, pHaltSeen, configured, bTimerStarted,
                 bTimerFinished, mDeleted, wUnit, kPc, kIdx, kDone>>

CoJoin ==
  /\ coPc = "join" /\ \A w \in Workers : wPc[w] = "ended"
  /\ coPc' = "destroy" /\ wPc' = [wPc EXCEPT ![Dtor] = "poll"]
  /\ UNCHANGED <<hostVars, coIdx, haltSeen, pHaltSeen, configured, bTimerStarted,
                 bTimerFinished, mDeleted, wUnit, kPc, kIdx, kDone>>

\* The destructor's RecvPoll of a unit says that it was halted.
CoHaltSeen ==
  /\ coPc = "destroy" /\ wPc[Dtor] = "poll"
  /\ \E u \in haltSeen \ pHaltSeen : pHaltSeen' = pHaltSeen \cup {u}
  /\ UNCHANGED <<hostVars, coPc, coIdx, haltSeen, configured, bTimerStarted,
                 bTimerFinished, mDeleted, wPc, wUnit, kPc, kIdx, kDone>>

\* Mutant of CoDelete: it does not wait for the timer.
CoDelete_NoWait ==
  /\ coPc = "destroy" /\ wPc[Dtor] = "poll" /\ pHaltSeen = Units
  /\ coPc' = "return" /\ mDeleted' = TRUE
  /\ UNCHANGED <<hostVars, coIdx, haltSeen, pHaltSeen, configured, bTimerStarted,
                 bTimerFinished, wPc, wUnit, kPc, kIdx, kDone>>

\* With every unit halted and the timer finished, units and flags are deleted.
CoDelete ==
  /\ coPc = "destroy" /\ wPc[Dtor] = "poll" /\ pHaltSeen = Units /\ bTimerFinished
  /\ coPc' = "return" /\ mDeleted' = TRUE
  /\ UNCHANGED <<hostVars, coIdx, haltSeen, pHaltSeen, configured, bTimerStarted,
                 bTimerFinished, wPc, wUnit, kPc, kIdx, kDone>>

\* CoprocThread: HtCoprocModel has returned.
CoReturn ==
  /\ coPc = "return" /\ coPc' = "ended"
  /\ bCoprocBusy' = FALSE
  /\ UNCHANGED <<pool, allocLock, memory, bCoprocDispatched, bHaltSent, bTimerHaltSeen,
                 deleted, halts, timer, threads, log,
                 coIdx, haltSeen, pHaltSeen, configured, bTimerStarted, bTimerFinished,
                 mDeleted, wPc, wUnit, kPc, kIdx, kDone>>

----------------------------------------------------------------------------
\* RecvPoll by poller w (MsgLoop of HtModelUnit): parameters, then the halt.

\* OBLK_PARAM calls StartTimer, which reads m_bTimerStarted ...
ReadParams(w) ==
  /\ wPc[w] = "poll"
  /\ \E u \in (Serves(w) \cap params) \ configured :
       IF bTimerStarted
       THEN configured' = configured \cup {u} /\ UNCHANGED <<wPc, wUnit>>
       ELSE /\ wPc' = [wPc EXCEPT ![w] = "timer"]
            /\ wUnit' = [wUnit EXCEPT ![w] = u]
            /\ UNCHANGED configured
  /\ UNCHANGED <<hostVars, coPc, coIdx, haltSeen, pHaltSeen, bTimerStarted,
                 bTimerFinished, mDeleted, kPc, kIdx, kDone>>

\* ... and sets it, if there is to be a timer, and makes the timer thread.
StartTimer(w) ==
  /\ wPc[w] = "timer" /\ wPc' = [wPc EXCEPT ![w] = "poll"]
  /\ configured' = configured \cup {wUnit[w]}
  /\ IF OBlkTimer
     THEN /\ bTimerStarted' = TRUE
          /\ kPc' = [kPc EXCEPT ![w] = "sleep"]
          /\ UNCHANGED bTimerFinished
     ELSE bTimerFinished' = TRUE /\ UNCHANGED <<bTimerStarted, kPc>>
  /\ UNCHANGED <<hostVars, coPc, coIdx, haltSeen, pHaltSeen, mDeleted, wUnit, kIdx, kDone>>

ReadHalt(w) ==
  /\ wPc[w] = "poll"
  /\ \E u \in (Serves(w) \cap configured \cap halts) \ haltSeen :
       haltSeen' = haltSeen \cup {u}
  /\ UNCHANGED <<hostVars, coPc, coIdx, pHaltSeen, configured, bTimerStarted,
                 bTimerFinished, mDeleted, wPc, wUnit, kPc, kIdx, kDone>>

\* A worker's UnitThread may return before its units are halted.
WorkerEnd(w) ==
  /\ w \in Workers /\ wPc[w] = "poll" /\ wPc' = [wPc EXCEPT ![w] = "ended"]
  /\ UNCHANGED <<hostVars, coPc, coIdx, haltSeen, pHaltSeen, configured, bTimerStarted,
                 bTimerFinished, mDeleted, wUnit, kPc, kIdx, kDone>>

----------------------------------------------------------------------------
\* CoprocTimerThread.  What it does to a unit is MTimerFlush of HtModelUnit.

CoTimerWake(k) ==
  /\ kPc[k] = "sleep" /\ kPc' = [kPc EXCEPT ![k] = "scan"]
  /\ kIdx' = [kIdx EXCEPT ![k] = 0] /\ kDone' = [kDone EXCEPT ![k] = TRUE]
  /\ UNCHANGED <<hostVars, coPc, coIdx, haltSeen, pHaltSeen, configured, bTimerStarted,
                 bTimerFinished, mDeleted, wPc, wUnit>>

CoTimerUnit(k) ==
  /\ kPc[k] = "scan" /\ kIdx[k] < UnitCnt
  /\ kDone' = [kDone EXCEPT ![k] = @ /\ kIdx[k] \in pHaltSeen]
  /\ kIdx' = [kIdx EXCEPT ![k] = @ + 1]
  /\ UNCHANGED <<hostVars, coPc, coIdx, haltSeen, pHaltSeen, configured, bTimerStarted,
                 bTimerFinished, mDeleted, wPc, wUnit, kPc>>

\* Mutant of CoTimerEnd: it finishes with the first unit that is halted.
CoTimerEnd_AnyHalt(k) ==
  /\ kPc[k] = "scan" /\ kIdx[k] = UnitCnt
  /\ kPc' = [kPc EXCEPT ![k] = IF pHaltSeen # {} THEN "ended" ELSE "sleep"]
  /\ UNCHANGED bTimerFinished
  /\ UNCHANGED <<hostVars, coPc, coIdx, haltSeen, pHaltSeen, configured, bTimerStarted,
                 mDeleted, wPc, wUnit, kIdx, kDone>>

CoTimerEnd(k) ==
  /\ kPc[k] = "scan" /\ kIdx[k] = UnitCnt
  /\ kPc' = [kPc EXCEPT ![k] = IF kDone[k] THEN "ended" ELSE "sleep"]
  /\ bTimerFinished' = (bTimerFinished \/ kDone[k])
  /\ UNCHANGED <<hostVars, coPc, coIdx, haltSeen, pHaltSeen, configured, bTimerStarted,
                 mDeleted, wPc, wUnit, kIdx, kDone>>

----------------------------------------------------------------------------
CoprocThread == CoStart \/ CoStartUnit \/ CoJoin \/ CoHaltSeen \/ CoDelete \/ CoReturn

Poll(w) == ReadParams(w) \/ StartTimer(w) \/ ReadHalt(w)

CoprocTimerThread(k) == CoTimerWake(k) \/ CoTimerUnit(k) \/ CoTimerEnd(k)
=============================================================================
