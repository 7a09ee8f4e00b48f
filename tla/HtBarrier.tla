----------------------------- MODULE HtBarrier -----------------------------
(***************************************************************************)
(* HtBarrier, the barrier HTL prints for the threads of a module           *)
(* (GenModBar.cpp).  Every copy of the module links the threads that       *)
(* entered into a list - one word per thread, for all barriers - and       *)
(* resumes a list thread by thread when it is released.  Where there is    *)
(* one copy it counts them itself; where the module is replicated each     *)
(* copy tells a controller, which counts, and tells all the copies to      *)
(* release.  Between the count and the release there are some clocks.      *)
(*                                                                         *)
(* An action is what a clock does when its condition holds; the registers  *)
(* and queues in between make a later step of it a later action.           *)
(***************************************************************************)
EXTENDS Naturals, Sequences, FiniteSets

CONSTANTS
  Designs,       \* numbers of copies the module has, in one design or another
  HtIdCnt,       \* threads of a copy
  BarId,         \* indices of the barrier
  ReleaseCnt,    \* [Designs -> [BarId -> Nat]]: the releaseCnt all threads give
  Users,         \* [Designs -> [BarId -> SUBSET Thread]]: the threads that enter
  MaxRls         \* bound: releases a copy is behind

HtId == 0..HtIdCnt-1

ASSUME BarrierAssumption ==
  /\ Designs \cup {HtIdCnt, MaxRls} \subseteq Nat \ {0}
  /\ ReleaseCnt \in [Designs -> [BarId -> Nat \ {0}]]
  /\ \A n \in Designs, b \in BarId : Users[n][b] \subseteq (0..n-1) \X HtId

Copies == 0..(CHOOSE n \in Designs : \A m \in Designs : m <= n) - 1

VARIABLES
  replCnt,      \* copies of the module; HTL prints a design for one number
  waiting,      \* threads paused by HtBarrier
  \* of every copy
  active,       \* [Copies -> [BarId -> BOOLEAN]]: threads have entered
  enterCnt,     \* [Copies -> [BarId -> Nat]]: threads to come (one copy)
  rlsHead,      \* [Copies -> [BarId -> link]]: the last that entered
  rlsList,      \* [Copies -> [HtId -> link]]: the one that entered before
  rlsQue,       \* [Copies -> Seq(link)]: lists to be resumed
  rlsNext,      \* [Copies -> link]: the thread to be resumed next
  rlsIdQue,     \* [Copies -> Seq(BarId)]: releases from the controller
  release, rlsId,   \* [Copies -> ..]: the release being done
  \* of the controller
  infoQue,      \* [Copies -> Seq(BarId)]: threads that entered
  ctlActive, ctlEnterCnt

Repl == 0..replCnt-1

\* A link: the end of the list, or a thread.
End == [eol |-> TRUE, ptr |-> 0]

lists == <<rlsHead, rlsList, rlsQue, rlsNext>>
rls   == <<rlsIdQue, release, rlsId>>
ctl   == <<infoQue, ctlActive, ctlEnterCnt>>
vars  == <<replCnt, waiting, active, enterCnt, lists, rls, ctl>>

\* After the reset, and the clocks that clear the flags of all indices.
Init ==
  /\ replCnt \in Designs /\ waiting = {}
  /\ active = [i \in Copies |-> [b \in BarId |-> FALSE]]
  /\ enterCnt = [i \in Copies |-> [b \in BarId |-> 0]]
  /\ rlsHead = [i \in Copies |-> [b \in BarId |-> End]]
  /\ rlsList = [i \in Copies |-> [h \in HtId |-> End]]
  /\ rlsQue = [i \in Copies |-> <<>>] /\ rlsNext = [i \in Copies |-> End]
  /\ rlsIdQue = [i \in Copies |-> <<>>]
  /\ release = [i \in Copies |-> FALSE] /\ rlsId = [i \in Copies |-> CHOOSE b \in BarId : TRUE]
  /\ infoQue = [i \in Copies |-> <<>>]
  /\ ctlActive = [b \in BarId |-> FALSE] /\ ctlEnterCnt = [b \in BarId |-> 0]

----------------------------------------------------------------------------
\* The thread's word links it to the one that entered before, if there is
\* one; the head of the list is the thread.
Listed(i, h, b) ==
  /\ rlsList' = [rlsList EXCEPT ![i][h] = IF active[i][b] THEN rlsHead[i][b] ELSE End]
  /\ rlsHead' = [rlsHead EXCEPT ![i][b] = [eol |-> FALSE, ptr |-> h]]

\* A thread calls HtBarrier and pauses.
Enter(i, h, b) ==
  /\ <<i, h>> \in Users[replCnt][b] \ waiting
  /\ waiting' = waiting \cup {<<i, h>>}
  /\ Listed(i, h, b)
  /\ UNCHANGED <<replCnt, rlsNext, rls>>

\* The threads to come, with this one, at a barrier that is or is not active.
ToGo(b, isActive, cnt) == IF isActive THEN cnt ELSE ReleaseCnt[replCnt][b]

\* One copy counts itself, and releases the list with the last thread.
EnterCounted(i, h, b) ==
  /\ replCnt = 1 /\ Enter(i, h, b)
  /\ LET cnt == ToGo(b, active[i][b], enterCnt[i][b]) IN
     /\ active' = [active EXCEPT ![i][b] = cnt # 1]
     /\ enterCnt' = [enterCnt EXCEPT ![i][b] = cnt - 1]
     /\ rlsQue' = IF cnt = 1 THEN [rlsQue EXCEPT ![i] = Append(@, rlsHead'[i][b])]
                             ELSE rlsQue
  /\ UNCHANGED ctl

\* A copy among several tells the controller.
EnterTold(i, h, b) ==
  /\ replCnt > 1 /\ Enter(i, h, b)
  /\ active' = [active EXCEPT ![i][b] = TRUE]
  /\ infoQue' = [infoQue EXCEPT ![i] = Append(@, b)]
  /\ UNCHANGED <<enterCnt, rlsQue, ctlActive, ctlEnterCnt>>

\* The controller takes one thread at a time, of the lowest copy that has
\* told of one (by wires of some clocks, so that it may be any), and sends the
\* release to every copy.
CtlCount(i) ==
  /\ infoQue[i] # <<>>
  /\ infoQue' = [infoQue EXCEPT ![i] = Tail(@)]
  /\ LET b == Head(infoQue[i])
         cnt == ToGo(b, ctlActive[b], ctlEnterCnt[b]) IN
     /\ ctlActive' = [ctlActive EXCEPT ![b] = cnt # 1]
     /\ ctlEnterCnt' = [ctlEnterCnt EXCEPT ![b] = cnt - 1]
     /\ IF cnt # 1 THEN UNCHANGED rlsIdQue
        ELSE /\ \A j \in Repl : Len(rlsIdQue[j]) < MaxRls
             /\ rlsIdQue' = [j \in Copies |->
                              IF j \in Repl THEN Append(rlsIdQue[j], b) ELSE <<>>]
  /\ UNCHANGED <<replCnt, waiting, active, enterCnt, lists, release, rlsId>>

TakeRelease(i) ==
  /\ ~release[i] /\ rlsIdQue[i] # <<>>
  /\ release' = [release EXCEPT ![i] = TRUE]
  /\ rlsId' = [rlsId EXCEPT ![i] = Head(rlsIdQue[i])]
  /\ rlsIdQue' = [rlsIdQue EXCEPT ![i] = Tail(@)]
  /\ UNCHANGED <<replCnt, waiting, active, enterCnt, lists, ctl>>

\* In a clock in which no thread of the copy enters.  No thread of this copy
\* need have entered.
DoRelease(i) ==
  /\ release[i]
  /\ release' = [release EXCEPT ![i] = FALSE]
  /\ active' = [active EXCEPT ![i][rlsId[i]] = FALSE]
  /\ rlsQue' = IF active[i][rlsId[i]]
               THEN [rlsQue EXCEPT ![i] = Append(@, rlsHead[i][rlsId[i]])] ELSE rlsQue
  /\ UNCHANGED <<replCnt, waiting, enterCnt, rlsHead, rlsList, rlsNext, rlsIdQue, rlsId, ctl>>

\* Mutant of NextList: the list before is not at its end.
NextList_Early(i) ==
  /\ rlsQue[i] # <<>>
  /\ rlsNext' = [rlsNext EXCEPT ![i] = Head(rlsQue[i])]
  /\ rlsQue' = [rlsQue EXCEPT ![i] = Tail(@)]
  /\ UNCHANGED <<replCnt, waiting, active, enterCnt, rlsHead, rlsList, rls, ctl>>

NextList(i) ==
  /\ rlsNext[i].eol /\ rlsQue[i] # <<>>
  /\ rlsNext' = [rlsNext EXCEPT ![i] = Head(rlsQue[i])]
  /\ rlsQue' = [rlsQue EXCEPT ![i] = Tail(@)]
  /\ UNCHANGED <<replCnt, waiting, active, enterCnt, rlsHead, rlsList, rls, ctl>>

\* A thread is resumed when nothing else resumes one in the clock; the next
\* of the list is read before the thread can enter a barrier again.
ResumeNext(i) ==
  /\ ~rlsNext[i].eol
  /\ waiting' = waiting \ {<<i, rlsNext[i].ptr>>}
  /\ rlsNext' = [rlsNext EXCEPT ![i] = rlsList[i][rlsNext[i].ptr]]
  /\ UNCHANGED <<replCnt, active, enterCnt, rlsHead, rlsList, rlsQue, rls, ctl>>

EnterAny(i) == \E h \in HtId, b \in BarId : EnterCounted(i, h, b) \/ EnterTold(i, h, b)
Next ==
  \E i \in Repl :
    EnterAny(i) \/ CtlCount(i) \/ TakeRelease(i) \/ DoRelease(i) \/ NextList(i) \/ ResumeNext(i)

\* Every condition is looked at in every clock; a thread that enters holds up
\* a release for one clock, and there are only so many threads.
Fairness ==
  \A i \in Copies : /\ WF_vars(CtlCount(i)) /\ WF_vars(TakeRelease(i)) /\ WF_vars(DoRelease(i))
                    /\ WF_vars(NextList(i)) /\ WF_vars(ResumeNext(i))

Spec == Init /\ [][Next]_vars
FairSpec == Spec /\ Fairness

----------------------------------------------------------------------------
\* The threads of the list that begins with a link of copy i.
Members(i, first) ==
  LET nth[n \in 0..HtIdCnt] ==
        IF n = 0 THEN first
        ELSE LET before == nth[n - 1]
             IN  IF before.eol THEN before ELSE rlsList[i][before.ptr]
  IN  {<<i, nth[n].ptr>> : n \in {k \in 0..HtIdCnt : ~nth[k].eol}}

Entered(i, b) == IF active[i][b] THEN Members(i, rlsHead[i][b]) ELSE {}

\* A release of the barrier has been sent and is still to be done.
Released(i, b) ==
  (release[i] /\ rlsId[i] = b) \/ \E k \in DOMAIN rlsIdQue[i] : rlsIdQue[i][k] = b

\* The threads of a released list wait only for their turn.
Going(i) ==
  UNION ( {Members(i, rlsNext[i])}
          \cup {Members(i, rlsQue[i][k]) : k \in DOMAIN rlsQue[i]}
          \cup {Entered(i, b) : b \in {c \in BarId : Released(i, c)}} )

Bar == INSTANCE Barrier WITH
  Thread <- Copies \X HtId,
  cnt    <- ReleaseCnt[replCnt],
  inside <- [b \in BarId |-> UNION {Entered(i, b) : i \in {j \in Repl : ~Released(j, b)}}],
  out    <- UNION {Going(i) : i \in Repl}

\* Exactly releaseCnt threads that entered the barrier are let go at a time.
ReleasesWholeGroups == Bar!Spec

\* The lists, queues and counts of all copies do what a barrier promises, and
\* every thread of a full group is resumed, once.
ImplementsBarrier == Bar!FairSpec
=============================================================================
