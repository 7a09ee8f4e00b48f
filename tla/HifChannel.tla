----------------------------- MODULE HifChannel -----------------------------
(***************************************************************************)
(* What one direction of a unit promises its users: what one application   *)
(* sends (quadwords of data, user messages, data markers, calls or returns *)
(* with their arguments, the halt) the other receives exactly once and in  *)
(* the order in which it was sent, whichever calls it was sent with.       *)
(***************************************************************************)
EXTENDS Naturals, Sequences

VARIABLES
  sent,   \* everything sent so far
  chan,   \* what is on the way
  rcvd    \* everything received so far

chanVars == <<sent, chan, rcvd>>

Init == sent = <<>> /\ chan = <<>> /\ rcvd = <<>>

\* The longer sequence continues the shorter one, and what it adds to it.
Continues(long, short) ==
  Len(long) > Len(short) /\ SubSeq(long, 1, Len(short)) = short
Added(long, short) == SubSeq(long, Len(short) + 1, Len(long))

Send == /\ Continues(sent', sent)
        /\ chan' = chan \o Added(sent', sent)
        /\ rcvd' = rcvd

Recv == /\ Continues(rcvd', rcvd)
        /\ chan = Added(rcvd', rcvd) \o chan'
        /\ sent' = sent

Next == Send \/ Recv

Spec == Init /\ [][Next]_chanVars
=============================================================================
