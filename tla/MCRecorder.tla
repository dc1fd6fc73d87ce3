----------------------------- MODULE MCRecorder ------------------------------
(***************************************************************************)
(* Instances of Recorder for TLC.                                          *)
(***************************************************************************)
EXTENDS Recorder

\* An event whose payload fills one slot, and one whose payload fills two;
\* their payload reads as a header with a tick of 2 and no extension.
OneSlot == [stored |-> 1, declared |-> 1, tick |-> 2, ext |-> 0]
TwoSlots == [stored |-> 2, declared |-> 2, tick |-> 2, ext |-> 0]

\* The order of the source text, and the one GCC emits for payloads of more
\* than one word: the tick goes out before the end of the payload.
SourceOrder == <<"payload", "head", "tick">>
VectorOrder == <<"head", "tick", "payload">>

NoKinds == {}
BothEvents == {OneSlot, TwoSlots}

NoOrders == {}
BothOrders == {SourceOrder, VectorOrder}

EveryTick == {1}
MirroredOnly == {TRUE}
NoRebinding == {}
==============================================================================
