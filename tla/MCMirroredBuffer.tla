-------------------------- MODULE MCMirroredBuffer ---------------------------
(***************************************************************************)
(* An instance of MirroredBuffer for TLC.                                  *)
(***************************************************************************)
EXTENDS MirroredBuffer, TLC

\* Every number of bytes that a word of five bits can hold.
EverySize == 0..31

Interchangeable == Permutations(Objects) \cup Permutations(Fds) \cup Permutations(Areas)
==============================================================================
