------------------------------ MODULE HifUnits ------------------------------
(***************************************************************************)
(* The two library objects together, over several units, with all their    *)
(* threads.  The coprocessor is the C model (HT_MODEL), so that both sides *)
(* are threads of one program.                                             *)
(***************************************************************************)
EXTENDS HtModelHifLib, FiniteSets

vars == <<hostVars, modelVars>>

Init == HostInit /\ ModelPoolInit

HostCalls == HostCallStep /\ UNCHANGED modelVars
HostApps  == HostAppStep /\ UNCHANGED modelVars
HostTicks == HostTimerThread /\ UNCHANGED modelVars

\* The loops of ~CHtHifLib go round; then there is nothing left to do.
Spin == aPc[Main] \in {"wait", "timer", "deleted"} /\ UNCHANGED vars

Next ==
  \/ HostCalls \/ HostApps \/ HostTicks
  \/ CoprocThread
  \/ \E w \in Pollers : Poll(w) \/ WorkerEnd(w) \/ CoprocTimerThread(w)
  \/ Spin

Spec == Init /\ [][Next]_vars

\* Threads inside the library and its own threads keep running, and workers
\* poll until their units are halted, when UnitThread returns.
Fairness ==
  /\ WF_vars(HostCalls) /\ WF_vars(HostTicks) /\ WF_vars(CoprocThread)
  /\ \A w \in 0..UnitCnt :
       /\ WF_vars(w \in Pollers /\ Poll(w))
       /\ WF_vars(w \in Pollers /\ Serves(w) \subseteq haltSeen /\ WorkerEnd(w))
       /\ WF_vars(w \in Pollers /\ CoprocTimerThread(w))

FairSpec == Spec /\ Fairness

----------------------------------------------------------------------------
\* Every variable holds a value of its type.
TypeOK ==
  /\ ppHtUnits \subseteq Units /\ free \subseteq Units /\ usingCallback \subseteq Units
  /\ allocLock \subseteq Threads /\ cleared \subseteq Aes
  /\ params \subseteq Units /\ halts \subseteq Units
  /\ {bCoprocBusy, bCoprocDispatched, bHaltSent, bTimerHaltSeen, deleted} \subseteq BOOLEAN
  /\ tPc \in {"none", "sleep", "scan", "ended"} /\ tIdx \in 0..UnitCnt
  /\ aPc \in [Threads -> {"idle", "lock", "scan", "reuse", "take", "next", "send",
                          "init", "clear", "build", "publish", "memory", "dispatch",
                          "halt", "wait", "timer", "deleted"}]
  /\ aOp \in [Threads -> {"none", "alloc", "send", "start", "delete"}]
  /\ aIdx \in [Threads -> 0..UnitCnt] /\ aNuma \in [Threads -> Sets]
  /\ aDirty \in [Threads -> SUBSET Aes] /\ held \in [Threads -> SUBSET Units]
  /\ built \in [Units -> Nat] /\ asked \subseteq Units /\ full \subseteq Threads
  /\ coPc \in {"none", "start", "join", "destroy", "return", "ended"}
  /\ coIdx \in 0..UnitCnt
  /\ haltSeen \subseteq Units /\ pHaltSeen \subseteq Units /\ configured \subseteq Units
  /\ {bTimerStarted, bTimerFinished, mDeleted} \subseteq BOOLEAN
  /\ wPc \in [Pollers -> {"none", "poll", "timer", "ended"}]
  /\ wUnit \in [Pollers -> Units]
  /\ kPc \in [Pollers -> {"none", "sleep", "scan", "ended"}]
  /\ kIdx \in [Pollers -> 0..UnitCnt] /\ kDone \in [Pollers -> BOOLEAN]

\* A unit a thread has is not free, and no other thread has it: FreeUnit
\* without the lock does not let AllocUnit hand out a unit twice.
OneUser ==
  /\ Held \subseteq ppHtUnits \ free
  /\ \A t1, t2 \in Threads : t1 # t2 => held[t1] \cap held[t2] = {}

\* A unit is constructed once, and until the coprocessor has read its
\* parameters they stay in its control queue: nobody clears the memory under
\* them (InitUnit, ClearMemRegion, InitHifMemory).
SetUpOnce ==
  /\ \A u \in Units : built[u] <= 1
  /\ ppHtUnits \subseteq params

\* The comment of DispatchCoproc: the control queue memory must be zero'ed to
\* start the coprocessor.
StartsZeroed == bCoprocDispatched => cleared = Aes

\* AllocUnit returns 0 only if, when it took the lock, every unit of the set
\* was in use (the guide: a loop over GetUnitCnt constructs that many units).
AllocFailsOnlyWhenInUse ==
  \A t \in Threads : aPc[t] = "scan" /\ aIdx[t] = UnitCnt => t \in full

\* CHtUnitBase::RecvCallback is assert(0): a unit whose user did not ask for
\* callbacks makes none.
CallbackOnlyIfAsked == usingCallback \cap Held \subseteq asked

\* When CHtHifLib frees its units, its timer thread and the coprocessor have
\* ended and nobody touches them any more (~CHtHifLib).
HostDeleteSafe ==
  deleted => tPc \in {"none", "ended"} /\ coPc \in {"none", "ended"}

\* When CHtModelHifLib deletes its units and m_pHaltSeen, no timer thread is
\* left that reads them (the destructor waits for m_bTimerFinished).  It fails
\* where two workers have started a timer each.
ModelDeleteSafe == mDeleted => \A k \in Pollers : kPc[k] \in {"none", "ended"}

\* Not two of the workers have made a timer thread.
SoleTimer == \A k1, k2 \in Pollers : kPc[k1] # "none" /\ kPc[k2] # "none" => k1 = k2

\* One timer thread is waited for: m_bTimerFinished is neither set nor missed
\* by StartTimer and CoprocTimerThread such that ~CHtModelHifLib deletes what
\* it reads, whichever worker made it and however many read their parameters.
SoleTimerDeleteSafe == SoleTimer => ModelDeleteSafe

\* Deleting the library ends.
DeleteReturns == InDelete ~> deleted
=============================================================================
