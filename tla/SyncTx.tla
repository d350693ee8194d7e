------------------------------- MODULE SyncTx -------------------------------
(***************************************************************************)
(* Concurrent POST /sync requests of one account inside Postgres.  Each    *)
(* request is one READ COMMITTED transaction of Repository.SyncState: one  *)
(* upsert per pushed card in key order, the purge of old tombstones, the   *)
(* epoch row, a read of all rows, the cap check, the commit.  A statement  *)
(* sees what was committed when it runs and waits for the row locks other  *)
(* transactions hold until they end.  CardSync takes the whole             *)
(* transaction as one step; this module says what of that is true.         *)
(*                                                                         *)
(* Card ids are numbered in the order the api sorts them.                  *)
(***************************************************************************)
EXTENDS MergeRule, FiniteSets

CONSTANTS
  Txs,       \* concurrent sync requests
  NKeys,     \* number of card ids
  NoCard,    \* stands for an absent row
  Untouched, \* stands for a row the transaction has not written
  NoTx,      \* stands for no transaction
  MaxCards,  \* the cap on an account's stored cards
  Pushable,  \* bound: per key, the copies of the card that devices push
  MaxHorizon \* bound: how far the retention horizon moves

ASSUME TxAssumption ==
  /\ NKeys \in Nat /\ MaxHorizon \in Nat /\ Pushable \in [1..NKeys -> SUBSET Card]
  /\ NoCard \notin Card /\ Untouched \notin Card /\ NoCard # Untouched
  /\ NoTx \notin Txs

Keys   == 1..NKeys
Slot   == Card \cup {NoCard}

VARIABLES
  rows,     \* the committed cards
  locks,    \* per key: the transaction that holds the row's lock
  epochRow, \* "none", "made", or the transaction that is inserting it
  horizon,  \* tombstones dated before it are past retention
  cut,      \* per transaction: the horizon when it began, its now()
  pc,       \* per transaction: the statement it is at
  key,      \* per transaction: the key its current upsert is for
  push,     \* per transaction: the cards of the request
  pushDirty,\* per transaction: their dirty flags
  own,      \* per transaction: the rows it has written, not yet committed
  todo,     \* per transaction: the rows its purge has still to delete
  out       \* per transaction: the state it read for the reply

vars == <<rows, locks, epochRow, horizon, cut, pc, key, push, pushDirty, own, todo, out>>

Statements == {"idle", "upsert", "write", "purge", "read", "commit"}

Nothing == [k \in Keys |-> NoCard]
NoOwn   == [k \in Keys |-> Untouched]

Init ==
  /\ rows = Nothing
  /\ locks = [k \in Keys |-> NoTx]
  /\ epochRow = "none"
  /\ horizon = 0
  /\ cut = [t \in Txs |-> 0]
  /\ pc = [t \in Txs |-> "idle"]
  /\ key = [t \in Txs |-> 1]
  /\ push = [t \in Txs |-> Nothing]
  /\ pushDirty = [t \in Txs |-> {}]
  /\ own = [t \in Txs |-> NoOwn]
  /\ todo = [t \in Txs |-> {}]
  /\ out = [t \in Txs |-> Nothing]

\* A row as a statement of t sees it.
Visible(t, k) == IF own[t][k] = Untouched THEN rows[k] ELSE own[t][k]

\* The row lock is free or t's own.
CanLock(t, k) == locks[k] \in {NoTx, t}

Lock(t, k) == locks' = [locks EXCEPT ![k] = t]

\* What a sync on its own makes of a row.
Synced(row, card, isDirty) ==
  IF card = NoCard THEN row
  ELSE IF row # NoCard THEN UpsertCard(row, card)
  ELSE IF isDirty THEN card ELSE NoCard

Expired(row, h) == row # NoCard /\ row.del /\ row.at < h

\* The first key after k that the request pushes a card for.
NextKey(cards, k) ==
  CHOOSE j \in k + 1..NKeys + 1 :
    /\ j \in Keys => cards[j] # NoCard
    /\ \A i \in k + 1..j - 1 : cards[i] = NoCard

-----------------------------------------------------------------------------
\* Time passes: more tombstones are past retention.
AgeTombstones ==
  /\ horizon < MaxHorizon
  /\ horizon' = horizon + 1
  /\ UNCHANGED <<rows, locks, epochRow, cut, pc, key, push, pushDirty, own, todo, out>>

\* The cards a device may hold, at most one per id.
Requests ==
  {cards \in [Keys -> UNION {Pushable[k] : k \in Keys} \cup {NoCard}] :
     \A k \in Keys : cards[k] \in Pushable[k] \cup {NoCard}}

\* A request arrives; its body is any state of a device.
Begin(t) ==
  /\ pc[t] = "idle"
  /\ \E cards \in Requests :
       /\ push' = [push EXCEPT ![t] = cards]
       /\ key' = [key EXCEPT ![t] = NextKey(cards, 0)]
       /\ \E dirty \in SUBSET {k \in Keys : cards[k] # NoCard} :
            pushDirty' = [pushDirty EXCEPT ![t] = dirty]
  /\ pc' = [pc EXCEPT ![t] = "upsert"]
  /\ cut' = [cut EXCEPT ![t] = horizon]
  /\ UNCHANGED <<rows, locks, epochRow, horizon, own, todo, out>>

\* The upsert of t's current key is over.
Upserted(t) ==
  /\ key' = [key EXCEPT ![t] = NextKey(push[t], @)]
  /\ pc' = [pc EXCEPT ![t] = "upsert"]

Checking(t) == pc[t] = "upsert" /\ key[t] \in Keys \ pushDirty[t]

\* mutant of CheckExists: EXISTS without FOR UPDATE
CheckUnlocked(t) ==
  /\ Checking(t)
  /\ IF Visible(t, key[t]) = NoCard
       THEN Upserted(t)
       ELSE pc' = [pc EXCEPT ![t] = "write"] /\ UNCHANGED key
  /\ UNCHANGED <<rows, locks, epochRow, horizon, cut, push, pushDirty, own, todo, out>>

(***************************************************************************)
(* The WHERE of the upsert: a clean card passes if its row exists, which   *)
(* FOR UPDATE answers only once it holds the row's lock.  A row that       *)
(* another transaction has inserted but not committed does not exist yet,  *)
(* and is not waited for.                                                  *)
(***************************************************************************)
CheckExists(t) ==
  /\ Checking(t)
  /\ \/ /\ Visible(t, key[t]) = NoCard
        /\ Upserted(t)
        /\ UNCHANGED locks
     \/ /\ Visible(t, key[t]) # NoCard
        /\ CanLock(t, key[t]) /\ Lock(t, key[t])
        /\ pc' = [pc EXCEPT ![t] = "write"]
        /\ UNCHANGED key
  /\ UNCHANGED <<rows, epochRow, horizon, cut, push, pushDirty, own, todo, out>>

\* A dirty card, or a clean one whose row exists.
Writing(t) == pc[t] = "write" \/ (pc[t] = "upsert" /\ key[t] \in pushDirty[t])

\* INSERT ... ON CONFLICT DO UPDATE: waits for whoever holds the row or is
\* inserting the key, then inserts or merges; the row stays locked either way.
WriteCard(t) ==
  LET k == key[t] IN
  /\ Writing(t)
  /\ CanLock(t, k) /\ Lock(t, k)
  /\ own' = [own EXCEPT ![t][k] = IF Visible(t, k) = NoCard THEN push[t][k]
                                  ELSE UpsertCard(Visible(t, k), push[t][k])]
  /\ Upserted(t)
  /\ UNCHANGED <<rows, epochRow, horizon, cut, push, pushDirty, todo, out>>

\* The purge statement finds the tombstones past retention that it can see.
StartPurge(t) ==
  /\ pc[t] = "upsert" /\ key[t] \notin Keys
  /\ todo' = [todo EXCEPT ![t] = {k \in Keys : Expired(Visible(t, k), cut[t])}]
  /\ pc' = [pc EXCEPT ![t] = "purge"]
  /\ UNCHANGED <<rows, locks, epochRow, horizon, cut, key, push, pushDirty, own, out>>

\* mutant of PurgeRow: the row is not looked at again after the wait
PurgeUnchecked(t, k) ==
  /\ pc[t] = "purge" /\ k \in todo[t]
  /\ CanLock(t, k) /\ Lock(t, k)
  /\ own' = [own EXCEPT ![t][k] = NoCard]
  /\ todo' = [todo EXCEPT ![t] = @ \ {k}]
  /\ UNCHANGED <<rows, epochRow, horizon, cut, pc, key, push, pushDirty, out>>

\* It deletes them one by one, in no given order; a row it had to wait for is
\* deleted only if it is still past retention.
PurgeRow(t, k) ==
  /\ pc[t] = "purge" /\ k \in todo[t]
  /\ CanLock(t, k)
  /\ IF Visible(t, k) = NoCard THEN UNCHANGED locks ELSE Lock(t, k)
  /\ own' = IF Expired(Visible(t, k), cut[t]) THEN [own EXCEPT ![t][k] = NoCard] ELSE own
  /\ todo' = [todo EXCEPT ![t] = @ \ {k}]
  /\ UNCHANGED <<rows, epochRow, horizon, cut, pc, key, push, pushDirty, out>>

\* syncEpoch, the purge being over: INSERT ... ON CONFLICT DO NOTHING waits for
\* another insert of the same row, then reads it.
SyncEpoch(t) ==
  /\ pc[t] = "purge" /\ todo[t] = {}
  /\ epochRow \in {"none", "made"}
  /\ epochRow' = IF epochRow = "none" THEN t ELSE epochRow
  /\ pc' = [pc EXCEPT ![t] = "read"]
  /\ UNCHANGED <<rows, locks, horizon, cut, key, push, pushDirty, own, todo, out>>

\* mutant of ReadState: the state is read outside the transaction
ReadPool(t) ==
  /\ pc[t] = "read"
  /\ out' = [out EXCEPT ![t] = rows]
  /\ pc' = [pc EXCEPT ![t] = "commit"]
  /\ UNCHANGED <<rows, locks, epochRow, horizon, cut, key, push, pushDirty, own, todo>>

\* readState: every row, this transaction's own writes included.
ReadState(t) ==
  /\ pc[t] = "read"
  /\ out' = [out EXCEPT ![t] = [k \in Keys |-> Visible(t, k)]]
  /\ pc' = [pc EXCEPT ![t] = "commit"]
  /\ UNCHANGED <<rows, locks, epochRow, horizon, cut, key, push, pushDirty, own, todo>>

\* The transaction is over: its locks are free, its request answered.
End(t) ==
  /\ locks' = [k \in Keys |-> IF locks[k] = t THEN NoTx ELSE locks[k]]
  /\ pc' = [pc EXCEPT ![t] = "idle"]
  /\ cut' = [cut EXCEPT ![t] = 0]
  /\ key' = [key EXCEPT ![t] = 1]
  /\ push' = [push EXCEPT ![t] = Nothing]
  /\ pushDirty' = [pushDirty EXCEPT ![t] = {}]
  /\ own' = [own EXCEPT ![t] = NoOwn]
  /\ todo' = [todo EXCEPT ![t] = {}]
  /\ out' = [out EXCEPT ![t] = Nothing]
  /\ UNCHANGED horizon

Rollback(t) ==
  /\ epochRow' = IF epochRow = t THEN "none" ELSE epochRow
  /\ End(t)
  /\ UNCHANGED rows

TooMany(t) == Cardinality({k \in Keys : out[t][k] # NoCard}) > MaxCards

Commit(t) ==
  /\ pc[t] = "commit" /\ ~TooMany(t)
  /\ rows' = [k \in Keys |-> Visible(t, k)]
  /\ epochRow' = IF epochRow = t THEN "made" ELSE epochRow
  /\ End(t)

\* mutant of RefuseTooMany: the refusal returns without the deferred rollback
RefuseOpen(t) ==
  /\ pc[t] = "commit" /\ TooMany(t)
  /\ pc' = [pc EXCEPT ![t] = "idle"]
  /\ UNCHANGED <<rows, locks, epochRow, horizon, cut, key, push, pushDirty, own, todo, out>>

\* ErrTooManyCards: the deferred Rollback undoes the whole transaction.
RefuseTooMany(t) == pc[t] = "commit" /\ TooMany(t) /\ Rollback(t)

\* The request's context ends (the client went away) or Postgres fails it.
Cancel(t) == pc[t] # "idle" /\ Rollback(t)

-----------------------------------------------------------------------------
\* The transactions t is waiting for.
WaitsFor(t) ==
  CASE Writing(t) \/ (Checking(t) /\ Visible(t, key[t]) # NoCard) ->
         {locks[key[t]]} \ {NoTx, t}
    [] pc[t] = "purge" ->
         IF todo[t] = {} THEN {epochRow} \cap (Txs \ {t})
         ELSE IF \E k \in todo[t] : CanLock(t, k) THEN {}
         ELSE {locks[k] : k \in todo[t]}
    [] OTHER -> {}

\* t is one of a set of transactions that wait only for one another.
Deadlocked(t) ==
  \E S \in SUBSET Txs :
    t \in S /\ \A u \in S : WaitsFor(u) # {} /\ WaitsFor(u) \subseteq S

\* Postgres rolls back one transaction of a deadlock.
AbortDeadlock(t) == Deadlocked(t) /\ Rollback(t)

Statement(t) ==
  \/ CheckExists(t) \/ WriteCard(t)
  \/ StartPurge(t) \/ (\E k \in Keys : PurgeRow(t, k))
  \/ SyncEpoch(t) \/ ReadState(t) \/ Commit(t) \/ RefuseTooMany(t)

Next ==
  \/ AgeTombstones
  \/ \E t \in Txs : Begin(t) \/ Statement(t) \/ Cancel(t) \/ AbortDeadlock(t)

Spec == Init /\ [][Next]_vars

(***************************************************************************)
(* Postgres serves every request, queues the waiters of a lock in order    *)
(* and rolls back a transaction of every deadlock; requests and            *)
(* cancellations are never owed.                                           *)
(***************************************************************************)
FairSpec == Spec /\ \A t \in Txs : SF_vars(Statement(t)) /\ WF_vars(AbortDeadlock(t))

-----------------------------------------------------------------------------
\* Every value the transactions hold is of its kind: a merged row is a whole
\* card, a key never runs past the end of the batch.
TypeOK ==
  /\ rows \in [Keys -> Slot]
  /\ locks \in [Keys -> Txs \cup {NoTx}]
  /\ epochRow \in {"none", "made"} \cup Txs
  /\ horizon \in 0..MaxHorizon
  /\ cut \in [Txs -> 0..MaxHorizon]
  /\ pc \in [Txs -> Statements]
  /\ key \in [Txs -> 1..NKeys + 1]
  /\ push \in [Txs -> [Keys -> Slot]]
  /\ pushDirty \in [Txs -> SUBSET Keys]
  /\ own \in [Txs -> [Keys -> Slot \cup {Untouched}]]
  /\ todo \in [Txs -> SUBSET Keys]
  /\ out \in [Txs -> [Keys -> Slot]]

\* t commits in this step.
Commits(t) == pc[t] = "commit" /\ pc'[t] = "idle" /\ Commit(t)

(***************************************************************************)
(* However the statements of concurrent syncs interleave, a commit leaves  *)
(* each row as the request alone would have: a pushed card is merged into  *)
(* the row as it is at the commit, a row past retention may be gone, and   *)
(* only a clean card may have been passed over.  So no acknowledged push   *)
(* is overwritten by an older one, and no card revived during a purge is   *)
(* purged (syncCardSQL, and the purge's second look at a row it waited     *)
(* for).  This is what CardSync assumes of the api.                        *)
(***************************************************************************)
CommitIsOneSync ==
  [][\A t \in Txs : Commits(t) => \A k \in Keys :
       LET synced == Synced(rows[k], push[t][k], k \in pushDirty[t]) IN
       \/ rows'[k] = synced
       \/ rows'[k] = NoCard /\ Expired(synced, cut[t])
       \/ k \notin pushDirty[t] /\ (rows'[k] = rows[k] \/ (rows'[k] = NoCard /\ Expired(rows[k], cut[t])))]_vars

\* The reply a device gets says of every card its request wrote what the table
\* holds once it is answered: the state is read in the transaction, after its
\* own upserts and purge, and nobody else can change those rows meanwhile.
ReplyIsCommitted ==
  [][\A t \in Txs : Commits(t) => \A k \in Keys :
       k \in pushDirty[t] \/ own[t][k] # Untouched => rows'[k] = out[t][k]]_vars

\* A row appears only because a device pushed it dirty: a purge that commits
\* while another sync is checking the same card is not undone by that sync's
\* clean copy ("FOR UPDATE makes the existence check wait out a concurrent
\* purge").
PurgeNotUndone ==
  [][\A k \in Keys : rows[k] = NoCard /\ rows'[k] # NoCard =>
       \E t \in Txs : Commits(t) /\ k \in pushDirty[t]]_vars

\* "Upserts in key order, so concurrent syncs of one user lock shared rows in
\* the same order and cannot deadlock" (SyncState).
NoDeadlock == \A t \in Txs : ~Deadlocked(t)

\* Every request is answered: no transaction waits for ever.
EverySyncEnds == \A t \in Txs : pc[t] # "idle" ~> pc[t] = "idle"
=============================================================================
