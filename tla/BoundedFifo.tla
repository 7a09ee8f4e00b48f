----------------------------- MODULE BoundedFifo -----------------------------
(***************************************************************************)
(* What a queue between one producer and one consumer promises: at most    *)
(* Cap items are in it, and they come out in the order they went in.       *)
(***************************************************************************)
EXTENDS Naturals, Sequences

CONSTANTS Cap, Val

VARIABLES
  q,      \* the items in the queue
  out     \* the item taken out last

fifoVars == <<q, out>>

Init == q = <<>> /\ out \in Val

Put(v) == /\ Len(q) < Cap
          /\ q' = Append(q, v) /\ out' = out

Take == /\ q # <<>>
        /\ out' = Head(q) /\ q' = Tail(q)

Next == (\E v \in Val : Put(v)) \/ Take

Spec == Init /\ [][Next]_fifoVars
=============================================================================
