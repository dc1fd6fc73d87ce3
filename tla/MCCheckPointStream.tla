------------------------- MODULE MCCheckPointStream --------------------------
(***************************************************************************)
(* Instances of CheckPointStream for TLC.                                  *)
(***************************************************************************)
EXTENDS CheckPointStream

\* One payload slot that reads as a header with an old tick.
Quiet == [stored |-> 1, declared |-> 1, tick |-> 0, ext |-> 0]

QuietEvents == {Quiet}
NoKinds == {}

\* The order of the source text, and the one GCC emits for a payload of more
\* than two words: the tick goes out before the end of the payload.
InOrder == {<<"payload", "head", "tick">>}
VectorOrder == {<<"head", "tick", "payload">>}
NoOrders == {}

StrictTicks == {1}
NoRebinding == {}

BothModes == {"once", "poll"}
Polling == {"poll"}
==============================================================================
