------------------------------ MODULE HtHifLib ------------------------------
(***************************************************************************)
(* The library object of the host, CHtHifLib: the pool of units, from      *)
(* which application threads take units and give them back, the dispatch   *)
(* of the coprocessor, the host timer thread, and ~CHtHifLib.              *)
(*                                                                         *)
(* What happens inside a unit is in HtHifUnit.  Of what goes to a unit's   *)
(* coprocessor side only two things matter here: the parameters, which its *)
(* constructor writes, and the halt.                                       *)
(***************************************************************************)
EXTENDS Integers

CONSTANTS
  UnitCnt, AeCnt,   \* units, and application engines among which they go
  NumaSetCnt,       \* m_numaSetCnt: 0 dispatches at once
  Threads, Main,    \* application threads; the one that owns the library
  AppOps,           \* what they call
  IBlkTimer         \* m_iBlkTimerUSec > 0

ASSUME PoolAssumption ==
  /\ UnitCnt \in Nat \ {0} /\ AeCnt \in Nat \ {0} /\ NumaSetCnt \in Nat
  /\ Main \in Threads
  /\ IBlkTimer \in BOOLEAN

Units == 0..UnitCnt-1
Aes   == 0..AeCnt-1
Sets  == IF NumaSetCnt = 0 THEN {0} ELSE 0..NumaSetCnt-1

\* m_unitMap deals the units out to the engines, and the engines to the sets.
Ae(u)         == u % AeCnt
GetNumaSet(u) == IF NumaSetCnt = 0 THEN 0 ELSE Ae(u) % NumaSetCnt

VARIABLES
  ppHtUnits,     \* units whose m_ppHtUnits entry is set
  free,          \* units whose m_bFree is set
  usingCallback, \* units whose m_bUsingCallback is set
  allocLock,     \* the threads that are in m_allocLock
  cleared,       \* engines whose control queue memory is m_bCleared
  bCoprocBusy, bCoprocDispatched, bHaltSent, bTimerHaltSeen, deleted,
  params, halts, \* units with the parameters, the halt, in their queue
  tPc, tIdx,     \* the host timer thread and the unit it looks at
  aPc, aOp, aIdx, aNuma, aDirty, \* a thread: where it is, in which call, at
                                 \* which unit, its numaSet, what to clear
  held,          \* the units a thread has
  built, asked, full \* log: how often a unit was constructed; units whose
                     \* user wants callbacks; threads that found no unit free

pool    == <<ppHtUnits, free, usingCallback>>
memory  == <<cleared, params>>
run     == <<bCoprocBusy, bCoprocDispatched, bHaltSent, bTimerHaltSeen, deleted, halts>>
timer   == <<tPc, tIdx>>
threads == <<aPc, aOp, aIdx, aNuma, aDirty, held>>
log     == <<built, asked, full>>
hostVars == <<pool, allocLock, memory, run, timer, threads, log>>

Held == UNION {held[t] : t \in Threads}
InDelete == aOp[Main] = "delete"

HostInit ==
  /\ ppHtUnits = {} /\ free = {} /\ usingCallback = {} /\ allocLock = {}
  /\ params = {} /\ halts = {} /\ deleted = FALSE
  /\ bCoprocDispatched = (NumaSetCnt = 0)
  /\ IF NumaSetCnt = 0
     THEN /\ cleared = Aes /\ bCoprocBusy = TRUE
          /\ bHaltSent = FALSE /\ bTimerHaltSeen = FALSE
          /\ tPc = IF IBlkTimer THEN "sleep" ELSE "none"
     ELSE /\ cleared = {} /\ tPc = "none"   \* the flags are not initialised
          /\ bCoprocBusy \in BOOLEAN /\ bHaltSent \in BOOLEAN
          /\ bTimerHaltSeen \in BOOLEAN
  /\ tIdx = 0
  /\ aPc = [t \in Threads |-> "idle"] /\ aOp = [t \in Threads |-> "none"]
  /\ aIdx = [t \in Threads |-> 0] /\ aNuma = [t \in Threads |-> 0]
  /\ aDirty = [t \in Threads |-> {}] /\ held = [t \in Threads |-> {}]
  /\ built = [u \in Units |-> 0] /\ asked = {} /\ full = {}

\* Thread t goes on at pc, or is done with its call.
Goto(t, pc) ==
  /\ aPc' = [aPc EXCEPT ![t] = pc]
  /\ UNCHANGED aOp
Return(t) ==
  /\ aPc' = [aPc EXCEPT ![t] = "idle"]
  /\ aOp' = [aOp EXCEPT ![t] = "none"]
Call(t, op, pc) ==
  /\ aOp[t] = "none" /\ ~InDelete
  /\ aOp' = [aOp EXCEPT ![t] = op]
  /\ aPc' = [aPc EXCEPT ![t] = pc]

\* Where InitUnit returns to.
AfterInit(t) == CASE aOp[t] = "alloc"  -> "take"
                  [] aOp[t] = "send"   -> "send"
                  [] aOp[t] = "delete" -> "halt"

----------------------------------------------------------------------------
\* AllocUnit, FreeUnit, SetUsingCallback, SendAllHostMsg.

AllocUnit(t) ==
  /\ "AllocUnit" \in AppOps
  /\ Call(t, "alloc", "lock")
  /\ \E s \in Sets : aNuma' = [aNuma EXCEPT ![t] = s]
  /\ UNCHANGED <<pool, allocLock, memory, run, timer, aIdx, aDirty, held, log>>

\* Mutant of LockAlloc: the lock is not a lock.
LockAlloc_NoLock(t) ==
  /\ aPc[t] = "lock"
  /\ allocLock' = allocLock \cup {t}
  /\ Goto(t, IF aOp[t] = "start" THEN "memory" ELSE "scan")
  /\ aIdx' = [aIdx EXCEPT ![t] = 0]
  /\ full' = IF \A u \in Units : GetNumaSet(u) = aNuma[t] => u \in Held
             THEN full \cup {t} ELSE full \ {t}
  /\ UNCHANGED <<pool, memory, run, timer, aNuma, aDirty, held, built, asked>>

LockAlloc(t) ==
  /\ aPc[t] = "lock" /\ allocLock = {}
  /\ allocLock' = {t}
  /\ Goto(t, IF aOp[t] = "start" THEN "memory" ELSE "scan")
  /\ aIdx' = [aIdx EXCEPT ![t] = 0]
  /\ full' = IF \A u \in Units : GetNumaSet(u) = aNuma[t] => u \in Held
             THEN full \cup {t} ELSE full \ {t}
  /\ UNCHANGED <<pool, memory, run, timer, aNuma, aDirty, held, built, asked>>

UnlockAlloc(t) == allocLock' = allocLock \ {t}

\* The loop of AllocUnit looks at a unit: not in the set or in use; to be
\* constructed; free.
ScanSkips(t, u) == GetNumaSet(u) # aNuma[t] \/ u \in ppHtUnits \ free

\* Mutant of ScanUnit: one unit too far.
ScanUnit_Past(t) ==
  /\ aPc[t] = "scan" /\ aIdx[t] <= UnitCnt
  /\ LET u == aIdx[t] IN
     IF ScanSkips(t, u)
     THEN aIdx' = [aIdx EXCEPT ![t] = u + 1] /\ Goto(t, "scan")
     ELSE Goto(t, IF u \in ppHtUnits THEN "reuse" ELSE "init") /\ UNCHANGED aIdx
  /\ UNCHANGED <<pool, allocLock, memory, run, timer, aNuma, aDirty, held, log>>

ScanUnit(t) ==
  /\ aPc[t] = "scan" /\ aIdx[t] < UnitCnt
  /\ LET u == aIdx[t] IN
     IF ScanSkips(t, u)
     THEN aIdx' = [aIdx EXCEPT ![t] = u + 1] /\ Goto(t, "scan")
     ELSE Goto(t, IF u \in ppHtUnits THEN "reuse" ELSE "init") /\ UNCHANGED aIdx
  /\ UNCHANGED <<pool, allocLock, memory, run, timer, aNuma, aDirty, held, log>>

\* It found nothing, and returns 0.
ScanEnd(t) ==
  /\ aPc[t] = "scan" /\ aIdx[t] = UnitCnt
  /\ UnlockAlloc(t) /\ Return(t)
  /\ UNCHANGED <<pool, memory, run, timer, aIdx, aNuma, aDirty, held, log>>

\* The unit found, reused or constructed, is the thread's.
TakeUnit(t) ==
  /\ aPc[t] \in {"reuse", "take"}
  /\ free' = IF aPc[t] = "reuse" THEN free \ {aIdx[t]} ELSE free
  /\ held' = [held EXCEPT ![t] = @ \cup {aIdx[t]}]
  /\ UnlockAlloc(t) /\ Return(t)
  /\ asked' = asked \ {aIdx[t]}
  /\ UNCHANGED <<ppHtUnits, usingCallback, memory, run, timer, aIdx, aNuma, aDirty,
                 built, full>>

\* Mutant of FreeUnit: the unit is forgotten.
FreeUnit_Forget(t) ==
  /\ "FreeUnit" \in AppOps /\ aOp[t] = "none" /\ ~InDelete
  /\ \E u \in held[t] : held' = [held EXCEPT ![t] = @ \ {u}]
  /\ UNCHANGED <<pool, allocLock, memory, run, timer, aPc, aOp, aIdx, aNuma, aDirty, log>>

\* FreeUnit does not take the lock.
FreeUnit(t) ==
  /\ "FreeUnit" \in AppOps /\ aOp[t] = "none" /\ ~InDelete
  /\ \E u \in held[t] :
       /\ free' = free \cup {u}
       /\ held' = [held EXCEPT ![t] = @ \ {u}]
  /\ UNCHANGED <<ppHtUnits, usingCallback, allocLock, memory, run, timer,
                 aPc, aOp, aIdx, aNuma, aDirty, log>>

SetUsingCallback(t) ==
  /\ "SetUsingCallback" \in AppOps /\ aOp[t] = "none" /\ ~InDelete
  /\ \E u \in held[t] :
       \/ usingCallback' = usingCallback \cup {u} /\ asked' = asked \cup {u}
       \/ usingCallback' = usingCallback \ {u} /\ asked' = asked \ {u}
  /\ UNCHANGED <<ppHtUnits, free, allocLock, memory, run, timer, threads, built, full>>

SendAllHostMsg(t) ==
  /\ "SendAllHostMsg" \in AppOps
  /\ Call(t, "send", "next")
  /\ aIdx' = [aIdx EXCEPT ![t] = 0]
  /\ UNCHANGED <<pool, allocLock, memory, run, timer, aNuma, aDirty, held, log>>

\* SendAllHostMsg and ~CHtHifLib go through all units, without the lock, and
\* construct those nobody has.
NextUnit(t) ==
  /\ aPc[t] = "next"
  /\ IF aIdx[t] < UnitCnt
     THEN Goto(t, IF aIdx[t] \in ppHtUnits THEN AfterInit(t) ELSE "init")
     ELSE IF aOp[t] = "send" THEN Return(t) ELSE Goto(t, "wait")
  /\ UNCHANGED <<pool, allocLock, memory, run, timer, aIdx, aNuma, aDirty, held, log>>

SendMsg(t) ==
  /\ aPc[t] = "send" /\ Goto(t, "next")
  /\ aIdx' = [aIdx EXCEPT ![t] = @ + 1]
  /\ UNCHANGED <<pool, allocLock, memory, run, timer, aNuma, aDirty, held, log>>

----------------------------------------------------------------------------
\* InitUnit, with the constructor of CHtUnitLib and ClearMemRegion.

InitUnit(t) ==
  /\ aPc[t] = "init"
  /\ Goto(t, IF aIdx[t] \in ppHtUnits THEN AfterInit(t) ELSE "clear")
  /\ aDirty' = [aDirty EXCEPT ![t] = {Ae(aIdx[t])} \ cleared]
  /\ UNCHANGED <<pool, allocLock, memory, run, timer, aIdx, aNuma, held, log>>

\* Mutant of ClearMemRegions: m_bCleared is not set.
ClearMemRegions_Again(t) ==
  /\ aPc[t] = "clear"
  /\ params' = {u \in params : Ae(u) \notin aDirty[t]}
  /\ IF aOp[t] = "start"
     THEN UnlockAlloc(t) /\ Goto(t, "dispatch")
     ELSE UNCHANGED allocLock /\ Goto(t, "build")
  /\ UNCHANGED <<pool, cleared, run, timer, aIdx, aNuma, aDirty, held, log>>

\* memset of the engines' control queues that were not cleared when looked at.
ClearMemRegions(t) ==
  /\ aPc[t] = "clear"
  /\ params' = {u \in params : Ae(u) \notin aDirty[t]}
  /\ cleared' = cleared \cup aDirty[t]
  /\ IF aOp[t] = "start"
     THEN UnlockAlloc(t) /\ Goto(t, "dispatch")
     ELSE UNCHANGED allocLock /\ Goto(t, "build")
  /\ UNCHANGED <<pool, run, timer, aIdx, aNuma, aDirty, held, log>>

\* The constructor: flags and parameters.
ConstructUnit(t) ==
  /\ aPc[t] = "build" /\ Goto(t, "publish")
  /\ built' = [built EXCEPT ![aIdx[t]] = @ + 1]
  /\ free' = free \ {aIdx[t]}
  /\ usingCallback' = usingCallback \ {aIdx[t]}
  /\ params' = params \cup {aIdx[t]}
  /\ UNCHANGED <<ppHtUnits, allocLock, cleared, run, timer, aIdx, aNuma, aDirty, held,
                 asked, full>>

PublishUnit(t) ==
  /\ aPc[t] = "publish" /\ Goto(t, AfterInit(t))
  /\ ppHtUnits' = ppHtUnits \cup {aIdx[t]}
  /\ UNCHANGED <<free, usingCallback, allocLock, memory, run, timer, aIdx, aNuma,
                 aDirty, held, log>>

----------------------------------------------------------------------------
\* StartCoproc and DispatchCoproc, when there are NUMA sets.

StartCoproc ==
  /\ ~bCoprocDispatched
  /\ Call(Main, "start", "lock")
  /\ UNCHANGED <<pool, allocLock, memory, run, timer, aIdx, aNuma, aDirty, held, log>>

\* Mutant of InitHifMemory: it does not clear anything.
InitHifMemory_None ==
  /\ aPc[Main] = "memory" /\ Goto(Main, "clear")
  /\ aDirty' = [aDirty EXCEPT ![Main] = {}]
  /\ UNCHANGED <<pool, allocLock, memory, run, timer, aIdx, aNuma, held, log>>

InitHifMemory ==
  /\ aPc[Main] = "memory" /\ Goto(Main, "clear")
  /\ aDirty' = [aDirty EXCEPT ![Main] = Aes \ cleared]
  /\ UNCHANGED <<pool, allocLock, memory, run, timer, aIdx, aNuma, held, log>>

Dispatch ==
  /\ aPc[Main] = "dispatch" /\ Return(Main)
  /\ bCoprocBusy' = TRUE /\ bCoprocDispatched' = TRUE
  /\ bHaltSent' = FALSE /\ bTimerHaltSeen' = FALSE
  /\ tPc' = IF IBlkTimer THEN "sleep" ELSE "none"
  /\ UNCHANGED <<pool, allocLock, memory, deleted, halts, tIdx, aIdx, aNuma, aDirty,
                 held, log>>

----------------------------------------------------------------------------
\* ~CHtHifLib.  The application makes no calls any more, but may not have let
\* go of its units.

DeleteHif ==
  /\ "delete" \in AppOps
  /\ \A t \in Threads : aOp[t] = "none"
  /\ Call(Main, "delete", "next")
  /\ aIdx' = [aIdx EXCEPT ![Main] = 0]
  /\ UNCHANGED <<pool, allocLock, memory, run, timer, aNuma, aDirty, held, log>>

\* SendHostHalt succeeds after some rounds of HaltLoop (see HtHifUnit).
SendHalt ==
  /\ aPc[Main] = "halt" /\ Goto(Main, "next")
  /\ halts' = halts \cup {aIdx[Main]}
  /\ aIdx' = [aIdx EXCEPT ![Main] = @ + 1]
  /\ UNCHANGED <<pool, allocLock, memory, bCoprocBusy, bCoprocDispatched, bHaltSent,
                 bTimerHaltSeen, deleted, timer, aNuma, aDirty, held, log>>

\* Mutant of WaitCoproc: it does not wait.
WaitCoproc_NoWait ==
  /\ aPc[Main] = "wait" /\ Goto(Main, "timer")
  /\ bHaltSent' = TRUE
  /\ UNCHANGED <<pool, allocLock, memory, bCoprocBusy, bCoprocDispatched, bTimerHaltSeen,
                 deleted, halts, timer, aIdx, aNuma, aDirty, held, log>>

WaitCoproc ==
  /\ aPc[Main] = "wait" /\ ~bCoprocBusy /\ Goto(Main, "timer")
  /\ bHaltSent' = TRUE
  /\ UNCHANGED <<pool, allocLock, memory, bCoprocBusy, bCoprocDispatched, bTimerHaltSeen,
                 deleted, halts, timer, aIdx, aNuma, aDirty, held, log>>

WaitTimer ==
  /\ aPc[Main] = "timer" /\ (IBlkTimer => bTimerHaltSeen) /\ Goto(Main, "deleted")
  /\ deleted' = TRUE
  /\ UNCHANGED <<pool, allocLock, memory, bCoprocBusy, bCoprocDispatched, bHaltSent,
                 bTimerHaltSeen, halts, timer, aIdx, aNuma, aDirty, held, log>>

----------------------------------------------------------------------------
\* HostTimerThread.  What it does to a unit is HTimerFlush of HtHifUnit.

HostTimerWake ==
  /\ tPc = "sleep" /\ tPc' = "scan" /\ tIdx' = 0
  /\ UNCHANGED <<pool, allocLock, memory, run, threads, log>>

HostTimerUnit ==
  /\ tPc = "scan" /\ tIdx < UnitCnt /\ tIdx' = tIdx + 1
  /\ UNCHANGED <<pool, allocLock, memory, run, tPc, threads, log>>

HostTimerEnd ==
  /\ tPc = "scan" /\ tIdx = UnitCnt
  /\ tPc' = IF bHaltSent THEN "ended" ELSE "sleep"
  /\ bTimerHaltSeen' = (bTimerHaltSeen \/ bHaltSent)
  /\ UNCHANGED <<pool, allocLock, memory, bCoprocBusy, bCoprocDispatched, bHaltSent,
                 deleted, halts, tIdx, threads, log>>

----------------------------------------------------------------------------
\* A thread inside a call of the library.
HostCallStep ==
  \/ \E t \in Threads :
       \/ LockAlloc(t) \/ ScanUnit(t) \/ ScanEnd(t) \/ TakeUnit(t)
       \/ NextUnit(t) \/ SendMsg(t)
       \/ InitUnit(t) \/ ClearMemRegions(t) \/ ConstructUnit(t) \/ PublishUnit(t)
  \/ InitHifMemory \/ Dispatch
  \/ SendHalt \/ WaitCoproc \/ WaitTimer

\* What the application may call next.
HostAppStep ==
  \/ \E t \in Threads :
       AllocUnit(t) \/ FreeUnit(t) \/ SetUsingCallback(t) \/ SendAllHostMsg(t)
  \/ StartCoproc \/ DeleteHif

HostTimerThread == HostTimerWake \/ HostTimerUnit \/ HostTimerEnd
=============================================================================
