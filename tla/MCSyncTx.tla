------------------------------ MODULE MCSyncTx ------------------------------
(* Small instances of SyncTx. *)
EXTENDS SyncTx

CONSTANTS x1, x2

Copy(at, del, last) ==
  [at |-> at, del |-> del, body |-> "text", fsrs |-> [last |-> last, due |-> "due"]]

\* Of card 1 its deletion and a fresh save of it after that, of card 2 a
\* deletion.
DeletedCopy == Copy(0, TRUE, 0)
SavedCopy   == Copy(1, FALSE, 0)

Copies == <<{DeletedCopy, SavedCopy}, {DeletedCopy}>>
=============================================================================
