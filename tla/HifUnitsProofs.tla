--------------------------- MODULE HifUnitsProofs ---------------------------
(***************************************************************************)
(* The two library objects, for any number of units, engines, NUMA sets    *)
(* and threads.                                                            *)
(***************************************************************************)
EXTENDS HifUnits, TLAPS

\* A thread is at a place of the call it is in, and its index is that of a
\* unit where it is about to use it.  Only the library's owner starts the
\* coprocessor and deletes the library, the latter with nobody else inside.
UsesUnit(t) ==
  \/ aPc[t] \in {"reuse", "take", "init", "build", "publish", "send", "halt"}
  \/ aPc[t] = "clear" /\ aOp[t] # "start"

Control ==
  \A t \in Threads :
    /\ aOp[t] = "none"  => aPc[t] = "idle"
    /\ aOp[t] = "alloc" => aPc[t] \in {"lock", "scan", "reuse", "take",
                                       "init", "clear", "build", "publish"}
    /\ aOp[t] = "send"  => aPc[t] \in {"next", "send", "init", "clear", "build", "publish"}
    /\ aOp[t] = "start" => t = Main /\ aPc[t] \in {"lock", "memory", "clear", "dispatch"}
    /\ aOp[t] = "delete" => t = Main /\ aPc[t] \in {"next", "halt", "init", "clear", "build",
                                                    "publish", "wait", "timer", "deleted"}
    /\ UsesUnit(t) => aIdx[t] < UnitCnt
    /\ InDelete /\ t # Main => aOp[t] = "none"

\* TypeOK, of the host's library and of the coprocessor's.
HostTypes ==
  /\ ppHtUnits \subseteq Units /\ free \subseteq Units /\ usingCallback \subseteq Units
  /\ allocLock \subseteq Threads /\ cleared \subseteq Aes
  /\ params \subseteq Units /\ halts \subseteq Units
  /\ {bCoprocBusy, bCoprocDispatched, bHaltSent, bTimerHaltSeen, deleted} \subseteq BOOLEAN
  /\ tPc \in {"none", "sleep", "scan", "ended"} /\ tIdx \in 0..UnitCnt
  /\ aPc \in [Threads -> {"idle", "lock", "scan", "reuse", "take", "next", "send",
                          "init", "clear", "build", "publish", "memory", "dispatch",
                          "halt", "wait", "timer", "deleted"}]
  /\ aOp \in [Threads -> {"none", "alloc", "send", "start", "delete"}]
  /\ aIdx \in [Threads -> 0..UnitCnt] /\ aNuma \in [Threads -> Sets]
  /\ aDirty \in [Threads -> SUBSET Aes] /\ held \in [Threads -> SUBSET Units]
  /\ built \in [Units -> Nat] /\ asked \subseteq Units /\ full \subseteq Threads

ModelTypes ==
  /\ coPc \in {"none", "start", "join", "destroy", "return", "ended"}
  /\ coIdx \in 0..UnitCnt
  /\ coPc \in {"none", "start"} => coIdx < UnitCnt
  /\ haltSeen \subseteq Units /\ pHaltSeen \subseteq Units /\ configured \subseteq Units
  /\ {bTimerStarted, bTimerFinished, mDeleted} \subseteq BOOLEAN
  /\ wPc \in [Pollers -> {"none", "poll", "timer", "ended"}]
  /\ wUnit \in [Pollers -> Units]
  /\ kPc \in [Pollers -> {"none", "sleep", "scan", "ended"}]
  /\ kIdx \in [Pollers -> 0..UnitCnt] /\ kDone \in [Pollers -> BOOLEAN]

\* Who is between taking and releasing m_allocLock.
InLock(t) ==
  \/ aPc[t] \in {"scan", "reuse", "take", "memory"}
  \/ aPc[t] \in {"init", "clear", "build", "publish"} /\ aOp[t] = "alloc"
  \/ aPc[t] = "clear" /\ aOp[t] = "start"

LockInv == \A t \in Threads : InLock(t) => allocLock = {t}

\* AllocUnit has chosen a unit for the thread.  It is nobody's, and stays so:
\* another AllocUnit would need the lock, and FreeUnit, which does not take
\* it, is for units that are somebody's.
Chosen(t) ==
  aOp[t] = "alloc" /\ aPc[t] \in {"reuse", "take", "init", "clear", "build", "publish"}

PoolInv ==
  /\ free \subseteq ppHtUnits
  /\ OneUser
  /\ \A t \in Threads : Chosen(t) =>
       /\ aIdx[t] \notin Held
       /\ aPc[t] # "reuse" => aIdx[t] \notin free
       /\ aPc[t] \in {"reuse", "take"} => aIdx[t] \in ppHtUnits

\* The memory is cleared before the coprocessor is dispatched, once.
StartInv ==
  /\ bCoprocDispatched => cleared = Aes
  /\ aOp[Main] = "start" =>
       /\ ~bCoprocDispatched
       /\ aPc[Main] = "clear" => aDirty[Main] \cup cleared = Aes
       /\ aPc[Main] = "dispatch" => cleared = Aes

\* What the flags the destructor waits for say of the threads.  Without a
\* dispatch the flags are arbitrary, but there is no thread.
EndInv ==
  /\ ~bCoprocDispatched => coPc = "none" /\ tPc = "none"
  /\ bCoprocDispatched /\ ~bCoprocBusy => coPc = "ended"
  /\ bCoprocDispatched /\ bTimerHaltSeen => tPc = "ended"
  /\ ~IBlkTimer => tPc = "none"
  /\ aPc[Main] \in {"timer", "deleted"} => ~bCoprocBusy
  /\ aPc[Main] = "deleted" /\ IBlkTimer => bTimerHaltSeen
  /\ deleted => aPc[Main] = "deleted"

\* A unit is constructed by one thread at a time, before it is published;
\* nobody has looked at the memory of its engine and will clear it later.
Constructs(t) == aPc[t] \in {"init", "clear", "build", "publish"}

OneConstructs == \A t1, t2 \in Threads : Constructs(t1) /\ Constructs(t2) => t1 = t2

SetUpInv ==
  /\ \A u \in Units :
       /\ built[u] <= 1
       /\ u \in ppHtUnits => u \in params /\ Ae(u) \in cleared
       /\ u \notin ppHtUnits /\ built[u] # 0 =>
            \E t \in Threads : aPc[t] = "publish" /\ aIdx[t] = u
  /\ \A t \in Threads :
       /\ aPc[t] = "clear" => aDirty[t] \cap cleared = {}
       /\ aPc[t] \in {"clear", "build", "publish"} /\ aOp[t] # "start" =>
            aIdx[t] \notin ppHtUnits
       /\ aPc[t] = "clear" /\ aOp[t] # "start" => Ae(aIdx[t]) \in aDirty[t] \cup cleared
       /\ aPc[t] \in {"build", "publish"} => Ae(aIdx[t]) \in cleared
       /\ aPc[t] = "publish" => aIdx[t] \in params

\* A constructed unit is somebody's, free, or about to be taken; a scan by a
\* thread that did not find every unit in use has a unit to find ahead.
ScanInv ==
  /\ ~InDelete => \A u \in ppHtUnits :
       \/ u \in Held \cup free
       \/ \E t \in Threads : aOp[t] = "alloc" /\ aPc[t] = "take" /\ aIdx[t] = u
  /\ \A t \in Threads : aPc[t] = "scan" =>
       \/ t \in full
       \/ \E u \in Units : u >= aIdx[t] /\ ~ScanSkips(t, u)

\* A timer thread is started once by a poller, and it has ended when
\* m_bTimerFinished says that one has.
TimerInv ==
  /\ \A k \in Pollers : kPc[k] # "none" => bTimerStarted /\ OBlkTimer
  /\ \A w \in Pollers : wPc[w] = "timer" => kPc[w] = "none"
  /\ OBlkTimer /\ bTimerFinished => \E k \in Pollers : kPc[k] = "ended"
  /\ mDeleted => bTimerFinished

----------------------------------------------------------------------------
\* The engine of a unit is one.
LEMMA AeType ==
  ASSUME PoolAssumption, NEW u \in Units
  PROVE  Ae(u) \in Aes
BY DEF PoolAssumption, Units, Ae, Aes

\* The registers and places of the host's threads when they start.
LEMMA HostTypesInit ==
  ASSUME PoolAssumption, HostInit
  PROVE  HostTypes /\ Control
<1>1. 0 \in Sets /\ 0 \in 0..UnitCnt
  BY DEF PoolAssumption, Sets
<1>2. /\ tPc \in {"none", "sleep"} /\ cleared \subseteq Aes
      /\ bCoprocBusy \in BOOLEAN /\ bHaltSent \in BOOLEAN /\ bTimerHaltSeen \in BOOLEAN
  BY DEF HostInit
<1>3. bCoprocDispatched \in BOOLEAN /\ deleted \in BOOLEAN
  BY DEF HostInit
<1>4. built \in [Units -> Nat]
  BY DEF HostInit
<1>5. HostTypes
  BY <1>1, <1>2, <1>3, <1>4 DEF HostInit, HostTypes
<1>6. Control
  BY SMTT(30) DEF HostInit, Control, UsesUnit, PoolAssumption, InDelete
<1> QED BY <1>5, <1>6


\* What the host's library does, and its application.
HostStep == HostCallStep \/ HostAppStep \/ HostTimerThread

\* Every step of the host keeps them in their types.
LEMMA HostKeepsTypes ==
  ASSUME PoolAssumption, HostTypes, Control, HostStep
  PROVE  HostTypes' /\ Control'
<1> USE DEF Goto, Return, Call, UnlockAlloc, AfterInit, run, pool, memory, timer, threads, log,
            HostTypes, Control, UsesUnit, InDelete, PoolAssumption
<1>1. ASSUME NEW t \in Threads, LockAlloc(t) PROVE HostTypes' /\ Control'
  BY <1>1 DEF LockAlloc
<1>2. ASSUME NEW t \in Threads, ScanUnit(t) PROVE HostTypes' /\ Control'
  BY <1>2 DEF ScanUnit
<1>3. ASSUME NEW t \in Threads, ScanEnd(t) PROVE HostTypes' /\ Control'
  BY <1>3 DEF ScanEnd
<1>4. ASSUME NEW t \in Threads, TakeUnit(t) PROVE HostTypes' /\ Control'
  <2>1. aIdx[t] \in Units
    BY <1>4 DEF TakeUnit, Units
  <2> QED BY <1>4, <2>1 DEF TakeUnit
<1>5. ASSUME NEW t \in Threads, NextUnit(t) PROVE HostTypes' /\ Control'
  BY <1>5 DEF NextUnit
<1>6. ASSUME NEW t \in Threads, SendMsg(t) PROVE HostTypes' /\ Control'
  BY <1>6 DEF SendMsg
<1>7. ASSUME NEW t \in Threads, InitUnit(t) PROVE HostTypes' /\ Control'
  <2>1. aIdx[t] \in Units
    BY <1>7 DEF InitUnit, Units
  <2>2. Ae(aIdx[t]) \in Aes
    BY <2>1, AeType
  <2> QED BY <1>7, <2>1, <2>2 DEF InitUnit
<1>8. ASSUME NEW t \in Threads, ClearMemRegions(t) PROVE HostTypes' /\ Control'
  BY <1>8 DEF ClearMemRegions
<1>9. ASSUME NEW t \in Threads, ConstructUnit(t) PROVE HostTypes' /\ Control'
  <2>1. aIdx[t] \in Units
    BY <1>9 DEF ConstructUnit, Units
  <2>2. built' \in [Units -> Nat]
    BY <1>9, <2>1 DEF ConstructUnit
  <2> QED BY <1>9, <2>1, <2>2 DEF ConstructUnit
<1>10. ASSUME NEW t \in Threads, PublishUnit(t) PROVE HostTypes' /\ Control'
  <2>1. aIdx[t] \in Units
    BY <1>10 DEF PublishUnit, Units
  <2> QED BY <1>10, <2>1 DEF PublishUnit
<1>11. ASSUME NEW t \in Threads, AllocUnit(t) PROVE HostTypes' /\ Control'
  BY <1>11 DEF AllocUnit
<1>12. ASSUME NEW t \in Threads, FreeUnit(t) PROVE HostTypes' /\ Control'
  BY <1>12 DEF FreeUnit
<1>13. ASSUME NEW t \in Threads, SetUsingCallback(t) PROVE HostTypes' /\ Control'
  BY <1>13 DEF SetUsingCallback
<1>14. ASSUME NEW t \in Threads, SendAllHostMsg(t) PROVE HostTypes' /\ Control'
  BY <1>14 DEF SendAllHostMsg
<1>15. CASE InitHifMemory
  BY <1>15 DEF InitHifMemory
<1>16. CASE Dispatch
  BY <1>16 DEF Dispatch
<1>17. CASE SendHalt
  <2>1. aIdx[Main] \in Units
    BY <1>17 DEF SendHalt, Units
  <2> QED BY <1>17, <2>1 DEF SendHalt
<1>18. CASE WaitCoproc
  BY <1>18 DEF WaitCoproc
<1>19. CASE WaitTimer
  BY <1>19 DEF WaitTimer
<1>20. CASE StartCoproc
  BY <1>20 DEF StartCoproc
<1>21. CASE DeleteHif
  BY <1>21 DEF DeleteHif
<1>22. CASE HostTimerWake
  BY <1>22 DEF HostTimerWake
<1>23. CASE HostTimerUnit
  BY <1>23 DEF HostTimerUnit
<1>24. CASE HostTimerEnd
  BY <1>24 DEF HostTimerEnd
<1> QED BY <1>1, <1>2, <1>3, <1>4, <1>5, <1>6, <1>7, <1>8, <1>9, <1>10, <1>11, <1>12, <1>13,
           <1>14, <1>15, <1>16, <1>17, <1>18, <1>19, <1>20, <1>21, <1>22, <1>23, <1>24
        DEF HostStep, HostCallStep, HostAppStep, HostTimerThread

\* The state of the coprocessor's threads when they start.
LEMMA ModelTypesInit ==
  ASSUME PoolAssumption, ModelPoolInit
  PROVE  ModelTypes
<1>1. 0 \in Units /\ 0 \in 0..UnitCnt
  BY DEF PoolAssumption, Units
<1>2. kDone \in [Pollers -> BOOLEAN]
  BY DEF ModelPoolInit
<1>3. {bTimerStarted, bTimerFinished, mDeleted} \subseteq BOOLEAN
  BY DEF ModelPoolInit
<1> QED BY <1>1, <1>2, <1>3 DEF ModelPoolInit, ModelTypes

\* What the coprocessor's library does; of the host's state it only sets a flag.
ModelStep ==
  CoprocThread \/ \E w \in Pollers : Poll(w) \/ WorkerEnd(w) \/ CoprocTimerThread(w)

\* Every step of the coprocessor keeps it in its types.
LEMMA ModelKeepsTypes ==
  ASSUME PoolAssumption, HostTypes, ModelTypes, ModelStep
  PROVE  ModelTypes'
<1> USE DEF ModelTypes, PoolAssumption, hostVars
<1>0. /\ Workers \subseteq Pollers /\ 0 \in Pollers /\ Dtor \in Pollers
      /\ UnitThreads => Units \subseteq Pollers
  BY DEF Pollers, Workers, Units, Dtor
<1>1. CASE CoStart
  <2>1. UNCHANGED <<haltSeen, pHaltSeen, configured, bTimerStarted, bTimerFinished, mDeleted,
                    wPc, wUnit, kPc, kIdx, kDone, coIdx>>
    BY <1>1 DEF CoStart
  <2>2. coPc' = "start" /\ coIdx' < UnitCnt
    BY <1>1 DEF CoStart
  <2> QED BY <2>1, <2>2
<1>2. CASE CoStartUnit
  <2>1. UNCHANGED <<haltSeen, pHaltSeen, configured, bTimerStarted, bTimerFinished, mDeleted,
                    wUnit, kPc, kIdx, kDone>>
    BY <1>2 DEF CoStartUnit
  <2>2. /\ coIdx \in Units /\ coIdx' = coIdx + 1
        /\ \/ coPc' = "join"
           \/ coPc' = "start" /\ coIdx' # UnitCnt
    BY <1>2 DEF CoStartUnit, Units
  <2>3. wPc' \in [Pollers -> {"none", "poll", "timer", "ended"}]
    BY <1>0, <1>2, <2>2 DEF CoStartUnit
  <2> QED BY <2>1, <2>2, <2>3 DEF Units
<1>3. CASE CoJoin
  BY <1>0, <1>3 DEF CoJoin
<1>4. CASE CoHaltSeen
  BY <1>4 DEF CoHaltSeen
<1>5. CASE CoDelete
  BY <1>5 DEF CoDelete
<1>6. CASE CoReturn
  BY <1>6 DEF CoReturn
<1>7. ASSUME NEW w \in Pollers, ReadParams(w) PROVE ModelTypes'
  <2>1. PICK u \in Units : /\ u \in params
                           /\ \/ /\ wPc' = [wPc EXCEPT ![w] = "timer"]
                                 /\ wUnit' = [wUnit EXCEPT ![w] = u] /\ configured' = configured
                              \/ UNCHANGED <<wPc, wUnit>> /\ configured' = configured \cup {u}
    BY <1>7 DEF ReadParams, HostTypes
  <2>2. UNCHANGED <<coPc, coIdx, haltSeen, pHaltSeen, bTimerStarted, bTimerFinished, mDeleted,
                    kPc, kIdx, kDone>>
    BY <1>7 DEF ReadParams
  <2> QED BY <2>1, <2>2
<1>8. ASSUME NEW w \in Pollers, StartTimer(w) PROVE ModelTypes'
  BY <1>8 DEF StartTimer
<1>9. ASSUME NEW w \in Pollers, ReadHalt(w) PROVE ModelTypes'
  BY <1>9 DEF ReadHalt
<1>10. ASSUME NEW w \in Pollers, WorkerEnd(w) PROVE ModelTypes'
  BY <1>10 DEF WorkerEnd
<1>11. ASSUME NEW k \in Pollers, CoTimerWake(k) PROVE ModelTypes'
  <2>1. kDone' \in [Pollers -> BOOLEAN]
    BY <1>11 DEF CoTimerWake
  <2>2. kIdx' \in [Pollers -> 0..UnitCnt]
    BY <1>11 DEF CoTimerWake
  <2>3. UNCHANGED <<coPc, coIdx, haltSeen, pHaltSeen, configured, bTimerStarted, bTimerFinished,
                    mDeleted, wPc, wUnit>> /\ kPc' = [kPc EXCEPT ![k] = "scan"]
    BY <1>11 DEF CoTimerWake
  <2> QED BY <2>1, <2>2, <2>3
<1>12. ASSUME NEW k \in Pollers, CoTimerUnit(k) PROVE ModelTypes'
  <2>1. kDone' \in [Pollers -> BOOLEAN]
    BY <1>12 DEF CoTimerUnit
  <2>2. kIdx' \in [Pollers -> 0..UnitCnt]
    BY <1>12 DEF CoTimerUnit
  <2>3. UNCHANGED <<coPc, coIdx, haltSeen, pHaltSeen, configured, bTimerStarted, bTimerFinished,
                    mDeleted, wPc, wUnit, kPc>>
    BY <1>12 DEF CoTimerUnit
  <2> QED BY <2>1, <2>2, <2>3
<1>13. ASSUME NEW k \in Pollers, CoTimerEnd(k) PROVE ModelTypes'
  BY <1>13 DEF CoTimerEnd
<1> QED BY <1>1, <1>2, <1>3, <1>4, <1>5, <1>6, <1>7, <1>8, <1>9, <1>10, <1>11, <1>12, <1>13
        DEF ModelStep, CoprocThread, Poll, CoprocTimerThread

\* A step of the coprocessor's library leaves the host's library alone, but
\* for the flag that says it is busy.
HostIdle ==
  UNCHANGED <<pool, allocLock, memory, bCoprocDispatched, bHaltSent, bTimerHaltSeen, deleted,
              halts, timer, threads, log>>

\* The coprocessor's threads touch nothing of the host's but m_bCoprocBusy.
LEMMA ModelLeavesHost ==
  ASSUME HostTypes, ModelStep
  PROVE  HostIdle /\ bCoprocBusy' \in BOOLEAN
<1>1. CASE CoReturn
  BY <1>1 DEF CoReturn, HostIdle
<1>2. CASE UNCHANGED hostVars
  BY <1>2 DEF hostVars, run, HostIdle, HostTypes
<1> QED
  BY <1>1, <1>2
     DEF ModelStep, CoprocThread, Poll, CoprocTimerThread, CoStart, CoStartUnit, CoJoin, CoHaltSeen,
         CoDelete, ReadParams, StartTimer, ReadHalt, WorkerEnd, CoTimerWake, CoTimerUnit, CoTimerEnd

\* Nor does a step that changes nothing.
LEMMA StutterLeavesHost ==
  ASSUME UNCHANGED vars
  PROVE  HostIdle
BY DEF vars, hostVars, run, HostIdle

\* What a step is.
LEMMA Steps ==
  ASSUME [Next]_vars
  PROVE  \/ HostStep /\ UNCHANGED modelVars
         \/ ModelStep
         \/ UNCHANGED vars
BY DEF Next, HostCalls, HostApps, HostTicks, Spin, HostStep, ModelStep

TypeInv == HostTypes /\ Control /\ ModelTypes

\* The types hold in every state.
LEMMA TypeInvariance == Spec => []TypeInv
<1>1. Init => TypeInv
  BY HostTypesInit, ModelTypesInit, PoolAssumption DEF Init, TypeInv
<1>2. TypeInv /\ [Next]_vars => TypeInv'
  <2>1. SUFFICES ASSUME TypeInv, [Next]_vars PROVE TypeInv'
    OBVIOUS
  <2>2. CASE HostStep /\ UNCHANGED modelVars
    <3>1. ModelTypes'
      BY <2>1, <2>2 DEF TypeInv, ModelTypes, modelVars
    <3> QED BY <2>1, <2>2, <3>1, HostKeepsTypes, PoolAssumption DEF TypeInv
  <2>3. CASE ModelStep
    <3>1. HostIdle /\ bCoprocBusy' \in BOOLEAN
      BY <2>1, <2>3, ModelLeavesHost DEF TypeInv
    <3>2. HostTypes' /\ Control'
      BY <2>1, <3>1 DEF HostIdle, pool, memory, timer, threads, log, TypeInv, HostTypes, Control,
                        UsesUnit, InDelete
    <3> QED BY <2>1, <2>3, <3>2, ModelKeepsTypes, PoolAssumption DEF TypeInv
  <2>4. CASE UNCHANGED vars
    BY <2>1, <2>4 DEF vars, hostVars, modelVars, run, pool, memory, timer, threads, log, TypeInv,
                      HostTypes, Control, UsesUnit, InDelete, ModelTypes
  <2> QED BY <2>1, <2>2, <2>3, <2>4, Steps
<1> QED BY <1>1, <1>2, PTL DEF Spec

\* Every variable of the two libraries holds a value of its type.
THEOREM TypeCorrect == Spec => []TypeOK
<1>1. TypeInv => TypeOK
  BY DEF TypeInv, HostTypes, ModelTypes, TypeOK
<1> QED BY <1>1, TypeInvariance, PTL

----------------------------------------------------------------------------
\* The lock and the pool.
LEMMA HostKeepsLock ==
  ASSUME PoolAssumption, HostTypes, Control, LockInv, HostStep
  PROVE  LockInv'
<1> USE DEF Goto, Return, Call, UnlockAlloc, AfterInit, run, pool, memory, timer, threads, log,
            HostTypes, Control, LockInv, InLock, InDelete, PoolAssumption
<1>1. ASSUME NEW t \in Threads, LockAlloc(t) PROVE LockInv'
  BY <1>1 DEF LockAlloc
<1>2. ASSUME NEW t \in Threads, ScanUnit(t) PROVE LockInv'
  BY <1>2 DEF ScanUnit
<1>3. ASSUME NEW t \in Threads, ScanEnd(t) PROVE LockInv'
  BY <1>3 DEF ScanEnd
<1>4. ASSUME NEW t \in Threads, TakeUnit(t) PROVE LockInv'
  BY <1>4 DEF TakeUnit
<1>5. ASSUME NEW t \in Threads, NextUnit(t) PROVE LockInv'
  BY <1>5 DEF NextUnit
<1>6. ASSUME NEW t \in Threads, SendMsg(t) PROVE LockInv'
  BY <1>6 DEF SendMsg
<1>7. ASSUME NEW t \in Threads, InitUnit(t) PROVE LockInv'
  BY <1>7 DEF InitUnit
<1>8. ASSUME NEW t \in Threads, ClearMemRegions(t) PROVE LockInv'
  BY <1>8 DEF ClearMemRegions
<1>9. ASSUME NEW t \in Threads, ConstructUnit(t) PROVE LockInv'
  BY <1>9 DEF ConstructUnit
<1>10. ASSUME NEW t \in Threads, PublishUnit(t) PROVE LockInv'
  BY <1>10 DEF PublishUnit
<1>11. ASSUME NEW t \in Threads, AllocUnit(t) PROVE LockInv'
  BY <1>11 DEF AllocUnit
<1>12. ASSUME NEW t \in Threads, FreeUnit(t) PROVE LockInv'
  BY <1>12 DEF FreeUnit
<1>13. ASSUME NEW t \in Threads, SetUsingCallback(t) PROVE LockInv'
  BY <1>13 DEF SetUsingCallback
<1>14. ASSUME NEW t \in Threads, SendAllHostMsg(t) PROVE LockInv'
  BY <1>14 DEF SendAllHostMsg
<1>15. CASE InitHifMemory
  BY <1>15 DEF InitHifMemory
<1>16. CASE Dispatch
  BY <1>16 DEF Dispatch
<1>17. CASE SendHalt
  BY <1>17 DEF SendHalt
<1>18. CASE WaitCoproc
  BY <1>18 DEF WaitCoproc
<1>19. CASE WaitTimer
  BY <1>19 DEF WaitTimer
<1>20. CASE StartCoproc
  BY <1>20 DEF StartCoproc
<1>21. CASE DeleteHif
  BY <1>21 DEF DeleteHif
<1>22. CASE HostTimerWake
  BY <1>22 DEF HostTimerWake
<1>23. CASE HostTimerUnit
  BY <1>23 DEF HostTimerUnit
<1>24. CASE HostTimerEnd
  BY <1>24 DEF HostTimerEnd
<1> QED BY <1>1, <1>2, <1>3, <1>4, <1>5, <1>6, <1>7, <1>8, <1>9, <1>10, <1>11, <1>12, <1>13,
           <1>14, <1>15, <1>16, <1>17, <1>18, <1>19, <1>20, <1>21, <1>22, <1>23, <1>24
        DEF HostStep, HostCallStep, HostAppStep, HostTimerThread

\* Every step of the host keeps units with one user each.
LEMMA HostKeepsPool ==
  ASSUME PoolAssumption, HostTypes, Control, LockInv, PoolInv, HostStep
  PROVE  PoolInv'
<1> USE DEF Goto, Return, Call, UnlockAlloc, AfterInit, run, pool, memory, timer, threads, log,
            HostTypes, Control, LockInv, InLock, InDelete, PoolAssumption, PoolInv, OneUser, Chosen, Held
<1>1. ASSUME NEW t \in Threads, LockAlloc(t) PROVE PoolInv'
  BY <1>1 DEF LockAlloc
<1>2. ASSUME NEW t \in Threads, ScanUnit(t) PROVE PoolInv'
  <2>1. /\ UNCHANGED <<ppHtUnits, free, held, aOp, allocLock>>
        /\ \A s \in Threads \ {t} : aPc'[s] = aPc[s] /\ aIdx'[s] = aIdx[s]
        /\ \/ aPc'[t] = "scan"
           \/ aPc'[t] = "reuse" /\ aIdx'[t] \in ppHtUnits \cap free
           \/ aPc'[t] = "init" /\ aIdx'[t] \notin ppHtUnits
    BY <1>2 DEF ScanUnit, ScanSkips
  <2> QED BY <2>1
<1>3. ASSUME NEW t \in Threads, ScanEnd(t) PROVE PoolInv'
  BY <1>3 DEF ScanEnd
<1>4. ASSUME NEW t \in Threads, TakeUnit(t) PROVE PoolInv'
  <2>1. /\ UNCHANGED <<ppHtUnits, aIdx>>
        /\ held' = [held EXCEPT ![t] = @ \cup {aIdx[t]}]
        /\ free' \subseteq free /\ aIdx[t] \notin free'
        /\ aPc' = [aPc EXCEPT ![t] = "idle"] /\ aOp' = [aOp EXCEPT ![t] = "none"]
        /\ Chosen(t) /\ InLock(t) /\ aIdx[t] \in ppHtUnits
    BY <1>4 DEF TakeUnit
  <2>2. Held' = Held \cup {aIdx[t]}
    BY <2>1
  <2>3. free' \subseteq ppHtUnits' /\ Held' \subseteq ppHtUnits' \ free'
    BY <2>1, <2>2
  <2>4. \A t1, t2 \in Threads : t1 # t2 => held'[t1] \cap held'[t2] = {}
    <3>1. \A s \in Threads : aIdx[t] \notin held[s]
      BY <2>1
    <3> QED BY <2>1, <3>1
  <2>5. \A s \in Threads : ~Chosen(s)'
    BY <2>1, SMTT(30)
  <2> QED BY <2>3, <2>4, <2>5
<1>5. ASSUME NEW t \in Threads, NextUnit(t) PROVE PoolInv'
  BY <1>5 DEF NextUnit
<1>6. ASSUME NEW t \in Threads, SendMsg(t) PROVE PoolInv'
  BY <1>6 DEF SendMsg
<1>7. ASSUME NEW t \in Threads, InitUnit(t) PROVE PoolInv'
  BY <1>7 DEF InitUnit
<1>8. ASSUME NEW t \in Threads, ClearMemRegions(t) PROVE PoolInv'
  BY <1>8 DEF ClearMemRegions
<1>9. ASSUME NEW t \in Threads, ConstructUnit(t) PROVE PoolInv'
  BY <1>9 DEF ConstructUnit
<1>10. ASSUME NEW t \in Threads, PublishUnit(t) PROVE PoolInv'
  BY <1>10 DEF PublishUnit
<1>11. ASSUME NEW t \in Threads, AllocUnit(t) PROVE PoolInv'
  BY <1>11 DEF AllocUnit
<1>12. ASSUME NEW t \in Threads, FreeUnit(t) PROVE PoolInv'
  BY <1>12 DEF FreeUnit
<1>13. ASSUME NEW t \in Threads, SetUsingCallback(t) PROVE PoolInv'
  BY <1>13 DEF SetUsingCallback
<1>14. ASSUME NEW t \in Threads, SendAllHostMsg(t) PROVE PoolInv'
  BY <1>14 DEF SendAllHostMsg
<1>15. CASE InitHifMemory
  BY <1>15 DEF InitHifMemory
<1>16. CASE Dispatch
  BY <1>16 DEF Dispatch
<1>17. CASE SendHalt
  BY <1>17 DEF SendHalt
<1>18. CASE WaitCoproc
  BY <1>18 DEF WaitCoproc
<1>19. CASE WaitTimer
  BY <1>19 DEF WaitTimer
<1>20. CASE StartCoproc
  BY <1>20 DEF StartCoproc
<1>21. CASE DeleteHif
  BY <1>21 DEF DeleteHif
<1>22. CASE HostTimerWake
  BY <1>22 DEF HostTimerWake
<1>23. CASE HostTimerUnit
  BY <1>23 DEF HostTimerUnit
<1>24. CASE HostTimerEnd
  BY <1>24 DEF HostTimerEnd
<1> QED BY <1>1, <1>2, <1>3, <1>4, <1>5, <1>6, <1>7, <1>8, <1>9, <1>10, <1>11, <1>12, <1>13,
           <1>14, <1>15, <1>16, <1>17, <1>18, <1>19, <1>20, <1>21, <1>22, <1>23, <1>24
        DEF HostStep, HostCallStep, HostAppStep, HostTimerThread

\* The lock and the pool, in every state.
LEMMA PoolInvariance == Spec => [](LockInv /\ PoolInv)
<1>1. Init => LockInv /\ PoolInv
  BY DEF Init, HostInit, LockInv, InLock, PoolInv, OneUser, Chosen, Held
<1>2. TypeInv /\ LockInv /\ PoolInv /\ [Next]_vars => LockInv' /\ PoolInv'
  <2>1. SUFFICES ASSUME TypeInv, LockInv, PoolInv, [Next]_vars PROVE LockInv' /\ PoolInv'
    OBVIOUS
  <2>2. CASE HostStep
    BY <2>1, <2>2, HostKeepsLock, HostKeepsPool, PoolAssumption DEF TypeInv
  <2>3. CASE HostIdle
    BY <2>1, <2>3 DEF HostIdle, pool, threads, LockInv, InLock, PoolInv, OneUser, Chosen, Held
  <2> QED BY <2>1, <2>2, <2>3, Steps, ModelLeavesHost, StutterLeavesHost DEF TypeInv
<1> QED BY <1>1, <1>2, TypeInvariance, PTL DEF Spec

\* A unit a thread has is not free, and no other thread has it, though
\* FreeUnit does not take the lock.
THEOREM OneUserCorrect == Spec => []OneUser
<1>1. PoolInv => OneUser
  BY DEF PoolInv
<1> QED BY <1>1, PoolInvariance, PTL

----------------------------------------------------------------------------
\* The start of the coprocessor.
LEMMA HostKeepsStart ==
  ASSUME PoolAssumption, HostTypes, Control, StartInv, HostStep
  PROVE  StartInv'
<1> USE DEF Goto, Return, Call, UnlockAlloc, AfterInit, run, pool, memory, timer, threads,
            log, HostTypes, Control, InDelete, PoolAssumption, StartInv
<1>1. ASSUME NEW t \in Threads, LockAlloc(t) PROVE StartInv'
  BY <1>1 DEF LockAlloc
<1>2. ASSUME NEW t \in Threads, ScanUnit(t) PROVE StartInv'
  BY <1>2 DEF ScanUnit
<1>3. ASSUME NEW t \in Threads, ScanEnd(t) PROVE StartInv'
  BY <1>3 DEF ScanEnd
<1>4. ASSUME NEW t \in Threads, TakeUnit(t) PROVE StartInv'
  BY <1>4 DEF TakeUnit
<1>5. ASSUME NEW t \in Threads, NextUnit(t) PROVE StartInv'
  BY <1>5 DEF NextUnit
<1>6. ASSUME NEW t \in Threads, SendMsg(t) PROVE StartInv'
  BY <1>6 DEF SendMsg
<1>7. ASSUME NEW t \in Threads, InitUnit(t) PROVE StartInv'
  BY <1>7 DEF InitUnit
<1>8. ASSUME NEW t \in Threads, ClearMemRegions(t) PROVE StartInv'
  BY <1>8 DEF ClearMemRegions
<1>9. ASSUME NEW t \in Threads, ConstructUnit(t) PROVE StartInv'
  BY <1>9 DEF ConstructUnit
<1>10. ASSUME NEW t \in Threads, PublishUnit(t) PROVE StartInv'
  BY <1>10 DEF PublishUnit
<1>11. ASSUME NEW t \in Threads, AllocUnit(t) PROVE StartInv'
  BY <1>11 DEF AllocUnit
<1>12. ASSUME NEW t \in Threads, FreeUnit(t) PROVE StartInv'
  BY <1>12 DEF FreeUnit
<1>13. ASSUME NEW t \in Threads, SetUsingCallback(t) PROVE StartInv'
  BY <1>13 DEF SetUsingCallback
<1>14. ASSUME NEW t \in Threads, SendAllHostMsg(t) PROVE StartInv'
  BY <1>14 DEF SendAllHostMsg
<1>15. CASE InitHifMemory
  BY <1>15 DEF InitHifMemory
<1>16. CASE Dispatch
  BY <1>16 DEF Dispatch
<1>17. CASE SendHalt
  BY <1>17 DEF SendHalt
<1>18. CASE WaitCoproc
  BY <1>18 DEF WaitCoproc
<1>19. CASE WaitTimer
  BY <1>19 DEF WaitTimer
<1>20. CASE StartCoproc
  BY <1>20 DEF StartCoproc
<1>21. CASE DeleteHif
  BY <1>21 DEF DeleteHif
<1>22. CASE HostTimerWake
  BY <1>22 DEF HostTimerWake
<1>23. CASE HostTimerUnit
  BY <1>23 DEF HostTimerUnit
<1>24. CASE HostTimerEnd
  BY <1>24 DEF HostTimerEnd
<1> QED BY <1>1, <1>2, <1>3, <1>4, <1>5, <1>6, <1>7, <1>8, <1>9, <1>10, <1>11, <1>12, <1>13,
           <1>14, <1>15, <1>16, <1>17, <1>18, <1>19, <1>20, <1>21, <1>22, <1>23, <1>24
        DEF HostStep, HostCallStep, HostAppStep, HostTimerThread

\* Memory is cleared before the coprocessor is dispatched, in every state.
LEMMA StartInvariance == Spec => []StartInv
<1>1. Init => StartInv
  <2>1. SUFFICES ASSUME HostInit PROVE StartInv
    BY DEF Init
  <2>2. aOp[Main] = "none"
    BY <2>1, PoolAssumption DEF HostInit
  <2>3. bCoprocDispatched => cleared = Aes
    BY <2>1 DEF HostInit
  <2> QED BY <2>2, <2>3 DEF StartInv
<1>2. TypeInv /\ StartInv /\ [Next]_vars => StartInv'
  <2>1. SUFFICES ASSUME TypeInv, StartInv, [Next]_vars PROVE StartInv'
    OBVIOUS
  <2>2. CASE HostStep
    BY <2>1, <2>2, HostKeepsStart, PoolAssumption DEF TypeInv
  <2>3. CASE HostIdle
    BY <2>1, <2>3 DEF HostIdle, memory, threads, StartInv
  <2> QED BY <2>1, <2>2, <2>3, Steps, ModelLeavesHost, StutterLeavesHost DEF TypeInv
<1> QED BY <1>1, <1>2, TypeInvariance, PTL DEF Spec

\* The coprocessor is dispatched with the memory of all its control queues
\* zeroed, whoever cleared it.
THEOREM StartsZeroedCorrect == Spec => []StartsZeroed
<1>1. StartInv => StartsZeroed
  BY DEF StartInv, StartsZeroed
<1> QED BY <1>1, StartInvariance, PTL

\* The end of the threads, as the host sees it.
LEMMA HostKeepsEnd ==
  ASSUME PoolAssumption, HostTypes, Control, StartInv, EndInv, UNCHANGED modelVars, HostStep
  PROVE  EndInv'
<1> USE DEF Goto, Return, Call, UnlockAlloc, AfterInit, run, pool, memory, timer, threads,
            log, HostTypes, Control, InDelete, PoolAssumption, StartInv, EndInv, modelVars
<1>1. ASSUME NEW t \in Threads, LockAlloc(t) PROVE EndInv'
  BY <1>1 DEF LockAlloc
<1>2. ASSUME NEW t \in Threads, ScanUnit(t) PROVE EndInv'
  BY <1>2 DEF ScanUnit
<1>3. ASSUME NEW t \in Threads, ScanEnd(t) PROVE EndInv'
  BY <1>3 DEF ScanEnd
<1>4. ASSUME NEW t \in Threads, TakeUnit(t) PROVE EndInv'
  BY <1>4 DEF TakeUnit
<1>5. ASSUME NEW t \in Threads, NextUnit(t) PROVE EndInv'
  BY <1>5 DEF NextUnit
<1>6. ASSUME NEW t \in Threads, SendMsg(t) PROVE EndInv'
  BY <1>6 DEF SendMsg
<1>7. ASSUME NEW t \in Threads, InitUnit(t) PROVE EndInv'
  BY <1>7 DEF InitUnit
<1>8. ASSUME NEW t \in Threads, ClearMemRegions(t) PROVE EndInv'
  BY <1>8 DEF ClearMemRegions
<1>9. ASSUME NEW t \in Threads, ConstructUnit(t) PROVE EndInv'
  BY <1>9 DEF ConstructUnit
<1>10. ASSUME NEW t \in Threads, PublishUnit(t) PROVE EndInv'
  BY <1>10 DEF PublishUnit
<1>11. ASSUME NEW t \in Threads, AllocUnit(t) PROVE EndInv'
  BY <1>11 DEF AllocUnit
<1>12. ASSUME NEW t \in Threads, FreeUnit(t) PROVE EndInv'
  BY <1>12 DEF FreeUnit
<1>13. ASSUME NEW t \in Threads, SetUsingCallback(t) PROVE EndInv'
  BY <1>13 DEF SetUsingCallback
<1>14. ASSUME NEW t \in Threads, SendAllHostMsg(t) PROVE EndInv'
  BY <1>14 DEF SendAllHostMsg
<1>15. CASE InitHifMemory
  BY <1>15 DEF InitHifMemory
<1>16. CASE Dispatch
  BY <1>16 DEF Dispatch
<1>17. CASE SendHalt
  BY <1>17 DEF SendHalt
<1>18. CASE WaitCoproc
  BY <1>18 DEF WaitCoproc
<1>19. CASE WaitTimer
  BY <1>19 DEF WaitTimer
<1>20. CASE StartCoproc
  BY <1>20 DEF StartCoproc
<1>21. CASE DeleteHif
  BY <1>21 DEF DeleteHif
<1>22. CASE HostTimerWake
  BY <1>22 DEF HostTimerWake
<1>23. CASE HostTimerUnit
  BY <1>23 DEF HostTimerUnit
<1>24. CASE HostTimerEnd
  BY <1>24 DEF HostTimerEnd
<1> QED BY <1>1, <1>2, <1>3, <1>4, <1>5, <1>6, <1>7, <1>8, <1>9, <1>10, <1>11, <1>12, <1>13,
           <1>14, <1>15, <1>16, <1>17, <1>18, <1>19, <1>20, <1>21, <1>22, <1>23, <1>24
        DEF HostStep, HostCallStep, HostAppStep, HostTimerThread

\* The coprocessor ends, and says so, once.
LEMMA ModelKeepsEnd ==
  ASSUME HostTypes, EndInv, ModelStep
  PROVE  EndInv'
<1> USE DEF HostIdle, pool, memory, timer, threads, log, EndInv
<1>1. HostIdle
  BY ModelLeavesHost
<1>2. CASE CoReturn
  BY <1>1, <1>2 DEF CoReturn
<1>3. CASE bCoprocBusy' = bCoprocBusy /\ coPc' = coPc
  BY <1>1, <1>3
<1>4. CASE bCoprocBusy' = bCoprocBusy /\ bCoprocDispatched /\ coPc # "ended"
  BY <1>1, <1>4
<1> QED
  BY <1>2, <1>3, <1>4
     DEF ModelStep, CoprocThread, Poll, CoprocTimerThread, CoStart, CoStartUnit, CoJoin, CoHaltSeen,
         CoDelete, ReadParams, StartTimer, ReadHalt, WorkerEnd, CoTimerWake, CoTimerUnit, CoTimerEnd,
         hostVars, run

\* The order in which a library ends, in every state.
LEMMA EndInvariance == Spec => []EndInv
<1>1. Init => EndInv
  <2>1. SUFFICES ASSUME HostInit, ModelPoolInit PROVE EndInv
    BY DEF Init
  <2>2. aPc[Main] = "idle" /\ coPc = "none" /\ ~deleted
    BY <2>1, PoolAssumption DEF HostInit, ModelPoolInit
  <2>3. /\ ~bCoprocDispatched => tPc = "none"
        /\ bCoprocDispatched => bCoprocBusy /\ ~bTimerHaltSeen
        /\ ~IBlkTimer => tPc = "none"
    BY <2>1 DEF HostInit
  <2> QED BY <2>2, <2>3 DEF EndInv
<1>2. TypeInv /\ StartInv /\ EndInv /\ [Next]_vars => EndInv'
  <2>1. SUFFICES ASSUME TypeInv, StartInv, EndInv, [Next]_vars PROVE EndInv'
    OBVIOUS
  <2>2. CASE HostStep /\ UNCHANGED modelVars
    BY <2>1, <2>2, HostKeepsEnd, PoolAssumption DEF TypeInv
  <2>3. CASE ModelStep
    BY <2>1, <2>3, ModelKeepsEnd DEF TypeInv
  <2>4. CASE UNCHANGED vars
    BY <2>1, <2>4 DEF vars, hostVars, modelVars, run, timer, threads, EndInv
  <2> QED BY <2>1, <2>2, <2>3, <2>4, Steps
<1> QED BY <1>1, <1>2, TypeInvariance, StartInvariance, PTL DEF Spec

\* ~CHtHifLib frees the units when the timer thread and the coprocessor have
\* ended.
THEOREM HostDeleteCorrect == Spec => []HostDeleteSafe
<1>1. TypeInv /\ EndInv => HostDeleteSafe
  BY DEF TypeInv, HostTypes, EndInv, HostDeleteSafe
<1> QED BY <1>1, TypeInvariance, EndInvariance, PTL

----------------------------------------------------------------------------
\* The timer of the coprocessor, with any number of workers, of which several
\* may start a timer thread each.
LEMMA ModelKeepsTimer ==
  ASSUME PoolAssumption, ModelPoolAssumption, ModelTypes, TimerInv, ModelStep
  PROVE  TimerInv'
<1> USE DEF ModelTypes, PoolAssumption, TimerInv
<1>1. CASE CoStart
  BY <1>1 DEF CoStart
<1>2. CASE CoStartUnit
  <2>1. UNCHANGED <<bTimerStarted, bTimerFinished, mDeleted, kPc>>
    BY <1>2 DEF CoStartUnit
  <2>2. \A w \in Pollers : wPc'[w] = "timer" => wPc[w] = "timer"
    BY <1>2 DEF CoStartUnit
  <2> QED BY <2>1, <2>2
<1>3. CASE CoJoin
  BY <1>3 DEF CoJoin
<1>4. CASE CoHaltSeen
  BY <1>4 DEF CoHaltSeen
<1>5. CASE CoDelete
  BY <1>5 DEF CoDelete
<1>6. CASE CoReturn
  BY <1>6 DEF CoReturn
<1>7. ASSUME NEW w \in Pollers, ReadParams(w) PROVE TimerInv'
  <2>1. UNCHANGED <<bTimerStarted, bTimerFinished, mDeleted, kPc>>
    BY <1>7 DEF ReadParams
  <2>2. wPc' = wPc \/ (wPc' = [wPc EXCEPT ![w] = "timer"] /\ ~bTimerStarted)
    <3>1. CASE bTimerStarted
      BY <1>7, <3>1 DEF ReadParams
    <3>2. CASE ~bTimerStarted
      BY <1>7, <3>2 DEF ReadParams
    <3> QED BY <3>1, <3>2
  <2>3. \A v \in Pollers : wPc'[v] = "timer" => kPc[v] = "none"
    BY <2>2
  <2> QED BY <2>1, <2>3
<1>8. ASSUME NEW w \in Pollers, StartTimer(w) PROVE TimerInv'
  <2>1. UNCHANGED mDeleted /\ wPc[w] = "timer" /\ wPc' = [wPc EXCEPT ![w] = "poll"]
    BY <1>8 DEF StartTimer
  <2>2. CASE OBlkTimer
    <3>1. bTimerStarted' /\ kPc' = [kPc EXCEPT ![w] = "sleep"] /\ bTimerFinished' = bTimerFinished
      BY <1>8, <2>2 DEF StartTimer
    <3>2. \A k \in Pollers : kPc[k] = "ended" => kPc'[k] = "ended"
      BY <2>1, <3>1
    <3> QED BY <2>1, <2>2, <3>1, <3>2
  <2>3. CASE ~OBlkTimer
    <3>1. bTimerStarted' = bTimerStarted /\ kPc' = kPc /\ bTimerFinished'
      BY <1>8, <2>3 DEF StartTimer
    <3> QED BY <2>1, <2>3, <3>1
  <2> QED BY <2>2, <2>3
<1>9. ASSUME NEW w \in Pollers, ReadHalt(w) PROVE TimerInv'
  BY <1>9 DEF ReadHalt
<1>10. ASSUME NEW w \in Pollers, WorkerEnd(w) PROVE TimerInv'
  BY <1>10 DEF WorkerEnd
<1>11. ASSUME NEW k \in Pollers, CoTimerWake(k) PROVE TimerInv'
  BY <1>11 DEF CoTimerWake
<1>12. ASSUME NEW k \in Pollers, CoTimerUnit(k) PROVE TimerInv'
  BY <1>12 DEF CoTimerUnit
<1>13. ASSUME NEW k \in Pollers, CoTimerEnd(k) PROVE TimerInv'
  <2>1. UNCHANGED <<bTimerStarted, mDeleted, wPc>> /\ kPc[k] = "scan"
    BY <1>13 DEF CoTimerEnd
  <2>2. CASE kDone[k]
    <3>1. kPc' = [kPc EXCEPT ![k] = "ended"] /\ bTimerFinished'
      BY <1>13, <2>2 DEF CoTimerEnd
    <3> QED BY <2>1, <3>1
  <2>3. CASE ~kDone[k]
    <3>1. kPc' = [kPc EXCEPT ![k] = "sleep"]
      BY <1>13, <2>3 DEF CoTimerEnd
    <3>2. bTimerFinished' = bTimerFinished
      BY <1>13, <2>3 DEF CoTimerEnd
    <3>3. \A j \in Pollers : kPc[j] = "ended" => kPc'[j] = "ended"
      BY <2>1, <3>1
    <3> QED BY <2>1, <3>1, <3>2, <3>3
  <2> QED BY <2>2, <2>3
<1> QED BY <1>1, <1>2, <1>3, <1>4, <1>5, <1>6, <1>7, <1>8, <1>9, <1>10, <1>11, <1>12, <1>13
        DEF ModelStep, CoprocThread, Poll, CoprocTimerThread

\* m_bTimerFinished is set only when a timer thread has ended, or when there
\* is to be none, whichever workers are in StartTimer.
LEMMA TimerInvariance == Spec => []TimerInv
<1>1. Init => TimerInv
  BY DEF Init, ModelPoolInit, TimerInv, Pollers
<1>2. TypeInv /\ TimerInv /\ [Next]_vars => TimerInv'
  <2>1. SUFFICES ASSUME TypeInv, TimerInv, [Next]_vars PROVE TimerInv'
    OBVIOUS
  <2>2. CASE ModelStep
    BY <2>1, <2>2, ModelKeepsTimer, PoolAssumption, ModelPoolAssumption DEF TypeInv
  <2>3. CASE UNCHANGED modelVars
    BY <2>1, <2>3 DEF modelVars, TimerInv
  <2> QED BY <2>1, <2>2, <2>3, Steps DEF vars
<1> QED BY <1>1, <1>2, TypeInvariance, PTL DEF Spec

\* When ~CHtModelHifLib deletes the units, a timer thread that is the only one
\* no longer reads them, with a worker for each unit or one for all.
THEOREM ModelDeleteCorrect == Spec => []SoleTimerDeleteSafe
<1>1. TimerInv => SoleTimerDeleteSafe
  BY DEF TimerInv, SoleTimerDeleteSafe, SoleTimer, ModelDeleteSafe
<1> QED BY <1>1, TimerInvariance, PTL

----------------------------------------------------------------------------
\* The construction of units, when SendAllHostMsg, which constructs units
\* without the lock, is not called, or only one thread calls the library.
NoSend == \A t \in Threads : aOp[t] # "send"

Locked == "SendAllHostMsg" \notin AppOps \/ Threads = {Main}

\* No thread is in SendAllHostMsg when the application does not call it.
LEMMA HostKeepsNoSend ==
  ASSUME HostTypes, NoSend, "SendAllHostMsg" \notin AppOps, HostStep
  PROVE  NoSend'
<1>1. UNCHANGED aOp \/ \E t \in Threads, op \in {"none", "alloc", "start", "delete"} :
                         aOp' = [aOp EXCEPT ![t] = op]
  BY PoolAssumption
     DEF HostStep, HostCallStep, HostAppStep, HostTimerThread, Goto, Return, Call, threads,
         LockAlloc, ScanUnit, ScanEnd, TakeUnit, NextUnit, SendMsg, InitUnit, ClearMemRegions,
         ConstructUnit, PublishUnit, AllocUnit, FreeUnit, SetUsingCallback, SendAllHostMsg,
         InitHifMemory, Dispatch, SendHalt, WaitCoproc, WaitTimer, StartCoproc, DeleteHif,
         HostTimerWake, HostTimerUnit, HostTimerEnd
<1> QED BY <1>1 DEF HostTypes, NoSend

\* That, in every state.
LEMMA NoSendInvariance ==
  ASSUME "SendAllHostMsg" \notin AppOps
  PROVE  Spec => []NoSend
<1>1. Init => NoSend
  BY DEF Init, HostInit, NoSend
<1>2. TypeInv /\ NoSend /\ [Next]_vars => NoSend'
  <2>1. SUFFICES ASSUME TypeInv, NoSend, [Next]_vars PROVE NoSend'
    OBVIOUS
  <2>2. CASE HostStep
    BY <2>1, <2>2, HostKeepsNoSend DEF TypeInv
  <2>3. CASE HostIdle
    BY <2>1, <2>3 DEF HostIdle, threads, NoSend
  <2> QED BY <2>1, <2>2, <2>3, Steps, ModelLeavesHost, StutterLeavesHost DEF TypeInv
<1> QED BY <1>1, <1>2, TypeInvariance, PTL DEF Spec

\* The lock, or the end of all calls before the library is deleted, lets one
\* thread construct at a time.
LEMMA OneConstructsAtATime ==
  ASSUME PoolAssumption, HostTypes, Control, LockInv, NoSend \/ Threads = {Main}
  PROVE  OneConstructs
<1>1. SUFFICES ASSUME NEW t1 \in Threads, NEW t2 \in Threads, Constructs(t1), Constructs(t2),
                      t1 # t2
               PROVE  FALSE
  BY DEF OneConstructs
<1>2. NoSend
  BY <1>1
<1>3. ASSUME NEW t \in Threads, Constructs(t), ~InDelete PROVE InLock(t)
  BY <1>2, <1>3, PoolAssumption DEF Constructs, InLock, HostTypes, Control, NoSend, InDelete
<1>4. CASE InDelete
  BY <1>1, <1>4 DEF Control, Constructs
<1>5. CASE ~InDelete
  BY <1>1, <1>3, <1>5, SMTT(30) DEF LockInv
<1> QED BY <1>4, <1>5

\* Memory is looked at, cleared and given to a unit by the thread that
\* constructs, and parameters are written where nobody clears any more.
LEMMA HostKeepsSetUp ==
  ASSUME PoolAssumption, HostTypes, Control, OneConstructs, SetUpInv, HostStep
  PROVE  SetUpInv'
<1> USE DEF Goto, Return, Call, UnlockAlloc, AfterInit, run, pool, memory, timer, threads,
            log, HostTypes, Control, InDelete, PoolAssumption, OneConstructs, Constructs,
            SetUpInv
<1>1. ASSUME NEW t \in Threads, LockAlloc(t) PROVE SetUpInv'
  BY <1>1 DEF LockAlloc
<1>2. ASSUME NEW t \in Threads, ScanUnit(t) PROVE SetUpInv'
  BY <1>2 DEF ScanUnit
<1>3. ASSUME NEW t \in Threads, ScanEnd(t) PROVE SetUpInv'
  BY <1>3 DEF ScanEnd
<1>4. ASSUME NEW t \in Threads, TakeUnit(t) PROVE SetUpInv'
  BY <1>4 DEF TakeUnit
<1>5. ASSUME NEW t \in Threads, NextUnit(t) PROVE SetUpInv'
  BY <1>5 DEF NextUnit
<1>6. ASSUME NEW t \in Threads, SendMsg(t) PROVE SetUpInv'
  BY <1>6 DEF SendMsg
<1>7. ASSUME NEW t \in Threads, InitUnit(t) PROVE SetUpInv'
  BY <1>7 DEF InitUnit
<1>8. ASSUME NEW t \in Threads, ClearMemRegions(t) PROVE SetUpInv'
  BY <1>8 DEF ClearMemRegions
<1>9. ASSUME NEW t \in Threads, ConstructUnit(t) PROVE SetUpInv'
  BY <1>9 DEF ConstructUnit
<1>10. ASSUME NEW t \in Threads, PublishUnit(t) PROVE SetUpInv'
  BY <1>10 DEF PublishUnit
<1>11. ASSUME NEW t \in Threads, AllocUnit(t) PROVE SetUpInv'
  BY <1>11 DEF AllocUnit
<1>12. ASSUME NEW t \in Threads, FreeUnit(t) PROVE SetUpInv'
  BY <1>12 DEF FreeUnit
<1>13. ASSUME NEW t \in Threads, SetUsingCallback(t) PROVE SetUpInv'
  BY <1>13 DEF SetUsingCallback
<1>14. ASSUME NEW t \in Threads, SendAllHostMsg(t) PROVE SetUpInv'
  BY <1>14 DEF SendAllHostMsg
<1>15. CASE InitHifMemory
  BY <1>15 DEF InitHifMemory
<1>16. CASE Dispatch
  BY <1>16 DEF Dispatch
<1>17. CASE SendHalt
  BY <1>17 DEF SendHalt
<1>18. CASE WaitCoproc
  BY <1>18 DEF WaitCoproc
<1>19. CASE WaitTimer
  BY <1>19 DEF WaitTimer
<1>20. CASE StartCoproc
  BY <1>20 DEF StartCoproc
<1>21. CASE DeleteHif
  BY <1>21 DEF DeleteHif
<1>22. CASE HostTimerWake
  BY <1>22 DEF HostTimerWake
<1>23. CASE HostTimerUnit
  BY <1>23 DEF HostTimerUnit
<1>24. CASE HostTimerEnd
  BY <1>24 DEF HostTimerEnd
<1> QED BY <1>1, <1>2, <1>3, <1>4, <1>5, <1>6, <1>7, <1>8, <1>9, <1>10, <1>11, <1>12, <1>13,
           <1>14, <1>15, <1>16, <1>17, <1>18, <1>19, <1>20, <1>21, <1>22, <1>23, <1>24
        DEF HostStep, HostCallStep, HostAppStep, HostTimerThread

\* One thread at a time constructs a unit, in every state.
LEMMA SetUpInvariance ==
  ASSUME Locked
  PROVE  Spec => []SetUpInv
<1>1. Init => SetUpInv
  BY DEF Init, HostInit, SetUpInv
<1>2. TypeInv /\ LockInv /\ (NoSend \/ Threads = {Main}) /\ SetUpInv /\ [Next]_vars => SetUpInv'
  <2>1. SUFFICES ASSUME TypeInv, LockInv, NoSend \/ Threads = {Main}, SetUpInv, [Next]_vars
                 PROVE  SetUpInv'
    OBVIOUS
  <2>2. OneConstructs
    BY <2>1, OneConstructsAtATime, PoolAssumption DEF TypeInv
  <2>3. CASE HostStep
    BY <2>1, <2>2, <2>3, HostKeepsSetUp, PoolAssumption DEF TypeInv
  <2>4. CASE HostIdle
    BY <2>1, <2>4 DEF HostIdle, pool, memory, threads, log, SetUpInv
  <2> QED BY <2>1, <2>3, <2>4, Steps, ModelLeavesHost, StutterLeavesHost DEF TypeInv
<1>3. Spec => [](NoSend \/ Threads = {Main})
  <2>1. CASE "SendAllHostMsg" \notin AppOps
    <3>1. Spec => []NoSend
      BY <2>1, NoSendInvariance
    <3> QED BY <3>1, PTL
  <2>2. CASE Threads = {Main}
    <3>1. NoSend \/ Threads = {Main}
      BY <2>2
    <3> QED BY <3>1, PTL
  <2> QED BY <2>1, <2>2 DEF Locked
<1>4. Spec => [](LockInv /\ PoolInv)
  BY PoolInvariance
<1> QED BY <1>1, <1>2, <1>3, <1>4, TypeInvariance, PTL DEF Spec

\* With AllocUnit alone, or one thread, a unit is constructed once and its
\* parameters stay in its queue.
THEOREM SetUpOnceCorrect ==
  ASSUME Locked
  PROVE  Spec => []SetUpOnce
<1>1. TypeInv /\ SetUpInv => SetUpOnce
  BY DEF TypeInv, HostTypes, SetUpInv, SetUpOnce
<1> QED BY <1>1, TypeInvariance, SetUpInvariance, PTL

----------------------------------------------------------------------------
\* The search for a unit.
LEMMA HostKeepsScan ==
  ASSUME PoolAssumption, HostTypes, Control, LockInv, PoolInv, NoSend, ScanInv, HostStep
  PROVE  ScanInv'
<1> USE DEF Goto, Return, Call, UnlockAlloc, AfterInit, run, pool, memory, timer, threads,
            log, HostTypes, Control, InDelete, PoolAssumption, LockInv, InLock, PoolInv,
            OneUser, Held, NoSend, ScanInv, ScanSkips
<1>1. ASSUME NEW t \in Threads, LockAlloc(t) PROVE ScanInv'
  <2>1. /\ UNCHANGED <<ppHtUnits, free, held, aOp, aNuma>>
        /\ \A s \in Threads \ {t} : aPc'[s] = aPc[s] /\ aPc[s] # "scan"
        /\ aPc[t] = "lock" /\ aPc'[t] \in {"memory", "scan"} /\ ~InDelete
    BY <1>1 DEF LockAlloc
  <2>2. \A u \in ppHtUnits : u \in Held \cup free
    BY <1>1 DEF LockAlloc
  <2>3. aIdx'[t] = 0
    BY <1>1 DEF LockAlloc
  <2>4. \/ t \in full'
        \/ \E u \in Units : GetNumaSet(u) = aNuma[t] /\ u \notin Held
    BY <1>1 DEF LockAlloc
  <2>5. \/ t \in full'
        \/ \E u \in Units : u >= aIdx'[t] /\ ~ScanSkips(t, u)'
    BY <2>1, <2>2, <2>3, <2>4 DEF Units
  <2>6. \A u \in ppHtUnits' : u \in (Held \cup free)'
    BY <2>1, <2>2
  <2> QED BY <2>1, <2>5, <2>6
<1>2. ASSUME NEW t \in Threads, ScanUnit(t) PROVE ScanInv'
  <2>1. /\ UNCHANGED <<ppHtUnits, free, held, aOp, aNuma, full>>
        /\ \A s \in Threads \ {t} : aPc'[s] = aPc[s] /\ aIdx'[s] = aIdx[s]
        /\ aPc[t] = "scan"
        /\ \/ aPc'[t] \in {"reuse", "init"}
           \/ aPc'[t] = "scan" /\ aIdx'[t] = aIdx[t] + 1 /\ ScanSkips(t, aIdx[t])
    BY <1>2 DEF ScanUnit
  <2>2. \A s \in Threads, u \in Units : ScanSkips(s, u)' <=> ScanSkips(s, u)
    BY <2>1
  <2>3. aPc'[t] = "scan" => t \in full \/ \E u \in Units : u >= aIdx'[t] /\ ~ScanSkips(t, u)
    <3>1. SUFFICES ASSUME aPc'[t] = "scan", t \notin full
                   PROVE  \E u \in Units : u >= aIdx'[t] /\ ~ScanSkips(t, u)
      OBVIOUS
    <3>2. PICK u \in Units : u >= aIdx[t] /\ ~ScanSkips(t, u)
      BY <2>1, <3>1
    <3> QED BY <2>1, <3>1, <3>2, SMTT(30) DEF Units
  <2>4. \A s \in Threads : aPc'[s] = "scan" =>
          \/ s \in full'
          \/ \E u \in Units : u >= aIdx'[s] /\ ~ScanSkips(s, u)'
    <3>1. \A s \in Threads \ {t} : aPc'[s] = "scan" =>
            \/ s \in full
            \/ \E u \in Units : u >= aIdx'[s] /\ ~ScanSkips(s, u)
      BY <2>1
    <3> HIDE DEF ScanSkips
    <3> QED BY <2>1, <2>2, <2>3, <3>1
  <2>5. ~InDelete' => \A u \in ppHtUnits' :
          \/ u \in (Held \cup free)'
          \/ \E s \in Threads : aOp'[s] = "alloc" /\ aPc'[s] = "take" /\ aIdx'[s] = u
    BY <2>1
  <2> QED BY <2>4, <2>5
<1>3. ASSUME NEW t \in Threads, ScanEnd(t) PROVE ScanInv'
  BY <1>3 DEF ScanEnd
<1>4. ASSUME NEW t \in Threads, TakeUnit(t) PROVE ScanInv'
  <2>1. /\ UNCHANGED <<ppHtUnits, aIdx, aNuma, full>>
        /\ \A u \in Units : u \in Held' <=> u \in Held \/ u = aIdx[t]
        /\ \A u \in Units : u \in free' \/ u = aIdx[t] <=> u \in free \/ u = aIdx[t]
        /\ aPc' = [aPc EXCEPT ![t] = "idle"] /\ aOp' = [aOp EXCEPT ![t] = "none"]
    BY <1>4 DEF TakeUnit
  <2>2. aPc[t] \in {"reuse", "take"}
    BY <1>4 DEF TakeUnit
  <2>3. \A s \in Threads : aPc[s] \in {"scan", "take"} => s = t
    BY <2>2, SMTT(30)
  <2>4. \A s \in Threads : aPc'[s] \notin {"scan", "take"}
    BY <2>1, <2>3
  <2>5. InDelete' = InDelete
    BY <2>1, <2>2
  <2>6. ASSUME ~InDelete, NEW u \in ppHtUnits PROVE u \in Held' \cup free'
    <3>1. u \in Held \cup free \/ u = aIdx[t]
      BY <2>3, <2>6
    <3> QED BY <2>1, <2>6, <3>1
  <2> QED BY <2>1, <2>4, <2>5, <2>6
<1>5. ASSUME NEW t \in Threads, NextUnit(t) PROVE ScanInv'
  BY <1>5 DEF NextUnit
<1>6. ASSUME NEW t \in Threads, SendMsg(t) PROVE ScanInv'
  BY <1>6 DEF SendMsg
<1>7. ASSUME NEW t \in Threads, InitUnit(t) PROVE ScanInv'
  BY <1>7 DEF InitUnit
<1>8. ASSUME NEW t \in Threads, ClearMemRegions(t) PROVE ScanInv'
  BY <1>8 DEF ClearMemRegions
<1>9. ASSUME NEW t \in Threads, ConstructUnit(t) PROVE ScanInv'
  BY <1>9 DEF ConstructUnit, Chosen
<1>10. ASSUME NEW t \in Threads, PublishUnit(t) PROVE ScanInv'
  BY <1>10 DEF PublishUnit
<1>11. ASSUME NEW t \in Threads, AllocUnit(t) PROVE ScanInv'
  BY <1>11 DEF AllocUnit
<1>12. ASSUME NEW t \in Threads, FreeUnit(t) PROVE ScanInv'
  BY <1>12 DEF FreeUnit
<1>13. ASSUME NEW t \in Threads, SetUsingCallback(t) PROVE ScanInv'
  BY <1>13 DEF SetUsingCallback
<1>14. ASSUME NEW t \in Threads, SendAllHostMsg(t) PROVE ScanInv'
  BY <1>14 DEF SendAllHostMsg
<1>15. CASE InitHifMemory
  BY <1>15 DEF InitHifMemory
<1>16. CASE Dispatch
  BY <1>16 DEF Dispatch
<1>17. CASE SendHalt
  BY <1>17 DEF SendHalt
<1>18. CASE WaitCoproc
  BY <1>18 DEF WaitCoproc
<1>19. CASE WaitTimer
  BY <1>19 DEF WaitTimer
<1>20. CASE StartCoproc
  BY <1>20 DEF StartCoproc
<1>21. CASE DeleteHif
  BY <1>21 DEF DeleteHif
<1>22. CASE HostTimerWake
  BY <1>22 DEF HostTimerWake
<1>23. CASE HostTimerUnit
  BY <1>23 DEF HostTimerUnit
<1>24. CASE HostTimerEnd
  BY <1>24 DEF HostTimerEnd
<1> QED BY <1>1, <1>2, <1>3, <1>4, <1>5, <1>6, <1>7, <1>8, <1>9, <1>10, <1>11, <1>12, <1>13,
           <1>14, <1>15, <1>16, <1>17, <1>18, <1>19, <1>20, <1>21, <1>22, <1>23, <1>24
        DEF HostStep, HostCallStep, HostAppStep, HostTimerThread

\* What the search for a unit has seen, in every state.
LEMMA ScanInvariance ==
  ASSUME "SendAllHostMsg" \notin AppOps
  PROVE  Spec => []ScanInv
<1>1. Init => ScanInv
  BY DEF Init, HostInit, ScanInv
<1>2. TypeInv /\ LockInv /\ PoolInv /\ NoSend /\ ScanInv /\ [Next]_vars => ScanInv'
  <2>1. SUFFICES ASSUME TypeInv, LockInv, PoolInv, NoSend, ScanInv, [Next]_vars
                 PROVE  ScanInv'
    OBVIOUS
  <2>2. CASE HostStep
    BY <2>1, <2>2, HostKeepsScan, PoolAssumption DEF TypeInv
  <2>3. CASE HostIdle
    BY <2>1, <2>3 DEF HostIdle, pool, threads, log, InDelete, Held, ScanSkips, ScanInv
  <2> QED BY <2>1, <2>2, <2>3, Steps, ModelLeavesHost, StutterLeavesHost DEF TypeInv
<1> QED BY <1>1, <1>2, TypeInvariance, PoolInvariance, NoSendInvariance, PTL DEF Spec

\* When AllocUnit returns 0, every unit of the set was in use when it took
\* the lock, if no SendAllHostMsg constructs units under its search.
THEOREM AllocFailsCorrect ==
  ASSUME "SendAllHostMsg" \notin AppOps
  PROVE  Spec => []AllocFailsOnlyWhenInUse
<1>1. TypeInv /\ ScanInv => AllocFailsOnlyWhenInUse
  BY DEF TypeInv, HostTypes, ScanInv, AllocFailsOnlyWhenInUse, Units
<1> QED BY <1>1, TypeInvariance, ScanInvariance, PTL
=============================================================================
