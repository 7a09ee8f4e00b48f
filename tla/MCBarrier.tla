----------------------------- MODULE MCBarrier -----------------------------
(***************************************************************************)
(* HtBarrier on small instances: who uses which barrier, and how many      *)
(* threads it takes.                                                       *)
(***************************************************************************)
EXTENDS HtBarrier

All(n, h) == (0..n-1) \X (0..h-1)

\* One copy: four threads use a barrier that takes two of them, and two of
\* them another.  Two copies: all four threads use one, those of copy 1 the
\* other.
SomeCnt == <<[b \in 0..1 |-> 2], [b \in 0..1 |-> IF b = 0 THEN 4 ELSE 2]>>
SomeUsers ==
  <<[b \in 0..1 |-> IF b = 0 THEN All(1, 4) ELSE All(1, 2)],
    [b \in 0..1 |-> IF b = 0 THEN All(2, 2) ELSE {1} \X (0..1)]>>

\* Two copies: a barrier that takes two of the four threads.
FewCnt == [n \in {2} |-> [b \in {0} |-> 2]]
FewUsers == [n \in {2} |-> [b \in {0} |-> All(2, 2)]]
=============================================================================
