----------------------------- MODULE MCTickClock -----------------------------
(***************************************************************************)
(* Instances of TickClock for TLC.                                         *)
(***************************************************************************)
EXTENDS TickClock, TLC

\* system_clock keeps its rate of two nanoseconds per tick, or is set back.
AnyStep == {-1, 2}
RateStep == {2}

SymmetricSyncers == Permutations(Syncers)
==============================================================================
