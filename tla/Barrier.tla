------------------------------ MODULE Barrier ------------------------------
(***************************************************************************)
(* What a barrier promises the threads that use it: each waits until as    *)
(* many as it takes have entered, these go on together, and the barrier    *)
(* can be used again at once.                                              *)
(***************************************************************************)
EXTENDS Naturals, FiniteSets

CONSTANTS Thread, BarId

VARIABLES cnt,       \* [BarId -> Nat]: the threads it takes, always as many
          inside,    \* [BarId -> SUBSET Thread]: threads that wait
          out        \* threads that may go on
vars == <<cnt, inside, out>>

Waits(t) == t \in out \/ \E b \in BarId : t \in inside[b]

Init == cnt \in [BarId -> Nat] /\ inside = [b \in BarId |-> {}] /\ out = {}

Enter(t, b) ==
  /\ ~Waits(t)
  /\ inside' = [inside EXCEPT ![b] = @ \cup {t}]
  /\ UNCHANGED <<cnt, out>>

\* The last thread of a group may open the barrier as it enters.
EnterLast(t, b) ==
  /\ ~Waits(t) /\ Cardinality(inside[b]) = cnt[b] - 1
  /\ inside' = [inside EXCEPT ![b] = {}]
  /\ out' = out \cup inside[b] \cup {t}
  /\ UNCHANGED cnt

\* As many threads as it takes, no more and no fewer.
Release(b) ==
  \E group \in SUBSET inside[b] :
    /\ Cardinality(group) = cnt[b]
    /\ inside' = [inside EXCEPT ![b] = @ \ group]
    /\ out' = out \cup group
    /\ UNCHANGED cnt

Resume(t) ==
  /\ t \in out
  /\ out' = out \ {t}
  /\ UNCHANGED <<cnt, inside>>

Next ==
  \/ \E t \in Thread : Resume(t) \/ \E b \in BarId : Enter(t, b) \/ EnterLast(t, b)
  \/ \E b \in BarId : Release(b)

Fairness ==
  /\ \A b \in BarId : WF_vars(Release(b))
  /\ \A t \in Thread : WF_vars(Resume(t))

Spec == Init /\ [][Next]_vars
FairSpec == Spec /\ Fairness
=============================================================================
