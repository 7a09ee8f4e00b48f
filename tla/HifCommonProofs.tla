--------------------------- MODULE HifCommonProofs ---------------------------
(***************************************************************************)
(* Facts about the operators both sides are built from, cited by the proofs *)
(* of HtHifUnitProofs, HtModelUnitProofs and HifLinkProofs.                *)
(***************************************************************************)
EXTENDS HifCommon, SequenceTheorems, TLAPS

\* Taking a message off a queue leaves a queue of messages, no longer than
\* before.
LEMMA TailType ==
  ASSUME NEW S, NEW s \in Seq(S)
  PROVE  Tail(s) \in Seq(S) /\ Len(Tail(s)) \in Nat /\ Len(Tail(s)) <= Len(s)
<1>1. CASE s = <<>>
  BY <1>1
<1>2. CASE s # <<>>
  BY <1>2, HeadTailProperties, LenProperties
<1> QED BY <1>1, <1>2

\* Writing to a queue that is not empty leaves its front message alone.
LEMMA HeadOfAppend ==
  ASSUME NEW S, NEW s \in Seq(S), NEW x \in S, s # <<>>
  PROVE  Append(s, x) # <<>> /\ Head(Append(s, x)) = Head(s)
BY AppendProperties, EmptySeq, LenProperties

\* The words of a send are numbers, as many as were asked for.
LEMMA FreshType ==
  ASSUME NEW k \in Nat, NEW n \in Nat
  PROVE  Fresh(k, n) \in Seq(Nat) /\ Len(Fresh(k, n)) = n
BY DEF Fresh

\* Logging words gives as many items as there are words.
LEMMA MkWordsType ==
  ASSUME NEW ws \in Seq(Nat)
  PROVE  MkWords(ws) \in Seq(Item) /\ Len(MkWords(ws)) = Len(ws)
BY DEF MkWords, MkItem, Item

\* A memcpy into a block leaves a block of the same size.
LEMMA CopyInType ==
  ASSUME NEW B \in Nat, NEW blk \in [1..B -> Nat], NEW off \in Nat,
         NEW ws \in Seq(Nat)
  PROVE  CopyIn(blk, off, ws) \in [1..B -> Nat]
BY DEF CopyIn

\* The messages the two sides build are control messages.
LEMMA MsgType ==
  /\ ParamMsg \in CtrlMsg /\ AvlMsg \in CtrlMsg
  /\ \A c \in Ctl, n \in Nat : Rdy(c, n) \in CtrlMsg
  /\ \A v \in Nat : UserMsg(v) \in CtrlMsg
BY DEF ParamMsg, AvlMsg, Rdy, UserMsg, CtrlMsg, Ctl
=============================================================================
