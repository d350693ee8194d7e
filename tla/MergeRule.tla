----------------------------- MODULE MergeRule -----------------------------
(***************************************************************************)
(* The last-writer-wins rule that decides which of two copies of one       *)
(* vocabulary card is kept.  The program has two implementations of it:    *)
(* mergeCard in the web client and the syncCardSQL upsert in the api.      *)
(***************************************************************************)
EXTENDS Integers

CONSTANTS Bodies,   \* the card's text and source, compared only for identity
          Dues      \* the schedules FSRS can give a card

(***************************************************************************)
(* fsrs.last is the time of the last review, 0 for a card never reviewed   *)
(* (ts-fsrs counts fsrs.reps up from 0 and sets last_review on each        *)
(* review).  A card's deletedAt is null or, in every tombstone the client  *)
(* writes, its updatedAt: del says which.                                  *)
(***************************************************************************)
Fsrs == [last: Nat, due: Dues]
Card == [at: Nat, del: BOOLEAN, body: Bodies, fsrs: Fsrs]

Reviewed(card) == card.fsrs.last > 0

\* mutant of IncomingWins: a tie keeps the stored copy, tombstone or not
NewerWins(stored, incoming) == incoming.at > stored.at

\* The newer updatedAt wins; at equal time a tombstone beats a live card.
IncomingWins(stored, incoming) ==
  \/ incoming.at > stored.at
  \/ incoming.at = stored.at /\ incoming.del /\ ~stored.del

\* web: the winner is kept whole, except that it takes a history it lacks.
MergeCard(stored, incoming) ==
  LET wins   == IncomingWins(stored, incoming)
      winner == IF wins THEN incoming ELSE stored
      loser  == IF wins THEN stored ELSE incoming
  IN  IF ~Reviewed(winner) /\ Reviewed(loser)
        THEN [winner EXCEPT !.fsrs = loser.fsrs]
        ELSE winner

\* mutant of UpsertCard: the body columns are not returned by the upsert
UpsertWithoutBody(row, excluded) ==
  LET winner == IF IncomingWins(row, excluded) THEN excluded ELSE row
  IN  [at |-> winner.at, del |-> winner.del, fsrs |-> winner.fsrs]

\* mutant of UpsertCard: the losing card's history is not taken over
UpsertWinner(row, excluded) ==
  IF IncomingWins(row, excluded) THEN excluded ELSE row

\* api: ON CONFLICT DO UPDATE, column by column, under its WHERE clause.
UpsertCard(row, excluded) ==
  LET wins  == IncomingWins(row, excluded)
      graft == Reviewed(excluded) /\ ~Reviewed(row)
  IN  IF ~wins /\ ~graft
        THEN row
        ELSE [at   |-> IF wins THEN excluded.at   ELSE row.at,
              del  |-> IF wins THEN excluded.del  ELSE row.del,
              body |-> IF wins THEN excluded.body ELSE row.body,
              fsrs |-> IF Reviewed(row) /\ ~Reviewed(excluded) THEN row.fsrs
                       ELSE IF graft \/ wins THEN excluded.fsrs
                       ELSE row.fsrs]

(***************************************************************************)
(* What the merge promises, for the modules that use it: a copy covers     *)
(* another when adopting it in the other's place loses neither a later     *)
(* write, nor a deletion of the same instant, nor a review history.        *)
(***************************************************************************)
Covers(copy, other) ==
  /\ \/ copy.at > other.at
     \/ copy.at = other.at /\ (other.del => copy.del)
  /\ Reviewed(other) => Reviewed(copy)

\* Two copies that differ at most where a tie keeps each side's own.
Equivalent(copy, other) == Covers(copy, other) /\ Covers(other, copy)
=============================================================================
