------------------------- MODULE MCCheckPointServer --------------------------
(***************************************************************************)
(* An instance of CheckPointServer for TLC.                                *)
(***************************************************************************)
EXTENDS CheckPointServer

\* Three inputs of the same name in different directories, where 9 stands for the
\* name, and 2, 9 for "2-" and the name: what input 2 would be renamed to.
SameNames == [s \in 0..2 |-> <<9>>]
NameTaken == [s \in 0..2 |-> IF s = 0 THEN <<2, 9>> ELSE <<9>>]

\* The first program fills its ring, and two blocks with one run.
Recordings == [s \in 0..2 |-> IF s = 0 THEN 4 ELSE 3 - s]

BothLists == {SameNames, NameTaken}
==============================================================================
