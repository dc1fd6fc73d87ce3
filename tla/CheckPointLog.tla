---------------------------- MODULE CheckPointLog ----------------------------
(***************************************************************************)
(* What a checkpoint recorder promises its program, with no ring, no       *)
(* pointers and no wrap-around: an open transaction that grows one whole   *)
(* record at a time, and a log of the newest committed slots, which only   *)
(* loses its oldest slots, and only to make room for new ones.             *)
(***************************************************************************)
EXTENDS Naturals, Sequences

CONSTANTS
  Capacity,   \* slots the log and the open transaction share
  MinCount,   \* a transaction with fewer slots than this is dropped by a commit
  Records     \* the records a program may write: non-empty sequences of slots

VARIABLES
  recent,     \* the newest committed slots, oldest first
  txn         \* the slots of the open transaction

vars == <<recent, txn>>

\* The last n slots of s, or all of s when it is shorter.
Newest(s, n) == IF Len(s) <= n THEN s ELSE SubSeq(s, Len(s) - n + 1, Len(s))

\* What the log holds once transaction t has been committed behind r.
Keep(r, t) == IF Len(t) >= MinCount THEN r \o t ELSE r

\* Make room for a transaction of n slots, n at most Capacity.
Room(r, n) == Newest(r, Capacity - n)

Init == recent = <<>> /\ txn = <<>>

Write == \E rec \in Records :
           /\ Len(txn) + Len(rec) <= Capacity
           /\ txn' = txn \o rec
           /\ recent' = Room(recent, Len(txn) + Len(rec))

\* A record of n slots is about to be written in several stores.
MakeRoom == \E rec \in Records :
              /\ Len(txn) + Len(rec) <= Capacity
              /\ recent' = Room(recent, Len(txn) + Len(rec))
              /\ UNCHANGED txn

Commit == txn' = <<>> /\ recent' = Keep(recent, txn)

Rollback == txn' = <<>> /\ UNCHANGED recent

\* Commit, then write the first record of the next transaction.
CommitWrite == \E rec \in Records :
                 /\ Len(rec) <= Capacity
                 /\ txn' = rec
                 /\ recent' = Room(Keep(recent, txn), Len(rec))

\* Write the last record of the transaction, then commit.
WriteCommit == \E rec \in Records :
                 /\ Len(txn) + Len(rec) <= Capacity
                 /\ txn' = <<>>
                 /\ recent' = Keep(Room(recent, Len(txn) + Len(rec)), txn \o rec)

\* The program gives the recorder a fresh ring.
Reset == recent' = <<>> /\ txn' = <<>>

Next == Write \/ MakeRoom \/ Commit \/ Rollback \/ CommitWrite \/ WriteCommit \/ Reset

Spec == Init /\ [][Next]_vars
==============================================================================
