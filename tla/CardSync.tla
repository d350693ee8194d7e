------------------------------ MODULE CardSync ------------------------------
(***************************************************************************)
(* Full-state synchronisation of one account's vocabulary cards.  Each     *)
(* device holds its cards in IndexedDB and marks the ones the server may   *)
(* not have as dirty; each open tab runs at most one POST /sync at a time: *)
(* it exports the whole store, the server merges that into its rows in one *)
(* transaction and answers with all of them, and the tab merges the answer *)
(* into the store.  Between those three steps the user goes on editing, in *)
(* this tab, in another tab of the same device or on another device, and   *)
(* the answer may be lost.                                                 *)
(*                                                                         *)
(* Device clocks are unrelated: an edit reads any time.                    *)
(***************************************************************************)
EXTENDS MergeRule, FiniteSets

CONSTANTS
  Cards,      \* card ids
  NoCard,     \* stands for an absent card
  Stores,     \* devices: one IndexedDB each
  Tabs,       \* open tabs of the app, all signed in to the account
  StoreOf,    \* the device a tab runs on
  MaxCards,   \* the server's cap on an account's stored cards
  Backups,    \* the cards of the backup files there are, whatever device made them
  MaxTime,    \* bound: clocks read 1..MaxTime
  MaxEdits,   \* bound: user edits
  MaxEpoch,   \* bound: the server loses its copy MaxEpoch - 1 times
  MaxLost     \* bound: failed requests

Replica == [Cards -> Card \cup {NoCard}]

ASSUME SyncAssumption ==
  /\ NoCard \notin Card
  /\ StoreOf \in [Tabs -> Stores]
  /\ Backups \subseteq Replica
  /\ MaxTime \in Nat /\ MaxEdits \in Nat /\ MaxEpoch \in Nat /\ MaxLost \in Nat
  /\ MaxEpoch > 0

Time    == 1..MaxTime
Epochs  == 0..MaxEpoch          \* 0: a store that has no syncEpoch record
Empty   == [c \in Cards |-> NoCard]
Held(replica) == {c \in Cards : replica[c] # NoCard}

VARIABLES
  local,      \* per store: its cards
  dirty,      \* per store: the cards flagged dirty
  storeEpoch, \* per store: the epoch of the last reply applied
  view,       \* per tab: the cards React state holds
  undo,       \* per tab: the tombstone its last delete wrote, for Undo
  pc,         \* per tab: "idle", "sent" or "replied"
  sent,       \* per tab: the cards of the request in flight
  sentDirty,  \* per tab: their dirty flags
  reply,      \* per tab: the rows of the answer
  replyEpoch, \* per tab: its syncEpoch
  rows,       \* the server's cards of the account
  epoch,      \* the server's sync epoch
  horizon,    \* the server's now() - TombstoneRetention
  edits,      \* number of edits so far
  lost,       \* number of failed requests so far
  purged      \* history: per epoch and card, the latest time of a purged tombstone

device == <<local, dirty, storeEpoch>>
ui     == <<view, undo>>
net    == <<pc, sent, sentDirty, reply, replyEpoch>>
server == <<rows, epoch, horizon, purged>>
vars   == <<device, ui, net, server, edits, lost>>

Init ==
  /\ local = [s \in Stores |-> Empty]
  /\ dirty = [s \in Stores |-> {}]
  /\ storeEpoch = [s \in Stores |-> 0]
  /\ view = [t \in Tabs |-> Empty]
  /\ undo = [t \in Tabs |-> Empty]
  /\ pc = [t \in Tabs |-> "idle"]
  /\ sent = [t \in Tabs |-> Empty]
  /\ sentDirty = [t \in Tabs |-> {}]
  /\ reply = [t \in Tabs |-> Empty]
  /\ replyEpoch = [t \in Tabs |-> 0]
  /\ rows = Empty
  /\ epoch = 1
  /\ horizon = 0
  /\ edits = 0
  /\ lost = 0
  /\ purged = [e \in Epochs |-> [c \in Cards |-> 0]]

-----------------------------------------------------------------------------
(***************************************************************************)
(* Local edits: each is one IndexedDB transaction that writes one card     *)
(* with dirty: true; an import writes all of them.                         *)
(***************************************************************************)
PutDirty(s, c, card) ==
  /\ edits < MaxEdits
  /\ edits' = edits + 1
  /\ local' = [local EXCEPT ![s][c] = card]
  /\ dirty' = [dirty EXCEPT ![s] = @ \cup {c}]
  /\ UNCHANGED <<storeEpoch, view, net, server, lost>>

\* A card as createCard makes it at time now.
FreshCard(now, body, due) ==
  [at |-> now, del |-> FALSE, body |-> body, fsrs |-> [last |-> 0, due |-> due]]

\* addCard: the fresh card is merged into the stored copy, tombstones included.
SaveCard(t, c) ==
  LET s == StoreOf[t] IN
  \E now \in Time, body \in Bodies, due \in Dues :
    LET fresh == FreshCard(now, body, due) IN
    /\ PutDirty(s, c, IF local[s][c] = NoCard THEN fresh
                                              ELSE MergeCard(local[s][c], fresh))
    /\ UNCHANGED undo

\* mutant of SameVersion: a version is its updatedAt alone
SameTime(left, right) == left.at = right.at

\* sameVersion: updatedAt, deletedAt and the FSRS state a history merge replaces.
SameVersion(left, right) ==
  left.at = right.at /\ left.del = right.del /\ left.fsrs = right.fsrs

\* replaceIfUnchanged writes only over the version the tab acted on.
StillStored(s, c, expected) ==
  local[s][c] # NoCard /\ SameVersion(local[s][c], expected)

Latest(x, y) == IF x >= y THEN x ELSE y

\* reviewTime: past every time the card carries.
ReviewTime(card, now) == Latest(Latest(now, card.at + 1), card.fsrs.last)

\* review: rates a live card of the deck on screen.
SaveReview(t, c) ==
  LET s == StoreOf[t]
      card == view[t][c]
  IN
  /\ card # NoCard /\ ~card.del
  /\ StillStored(s, c, card)
  /\ \E now \in Time, due \in Dues :
       LET at == ReviewTime(card, now) IN
       /\ at <= MaxTime
       /\ PutDirty(s, c, [card EXCEPT !.at = at, !.fsrs = [last |-> at, due |-> due]])
  /\ UNCHANGED undo

\* removeCard: writes a tombstone made from the card on screen, whatever the
\* store holds by now.
RemoveCard(t, c) ==
  LET card == view[t][c] IN
  /\ card # NoCard /\ ~card.del
  /\ \E now \in Time :
       LET tombstone == [card EXCEPT !.at = now, !.del = TRUE] IN
       /\ PutDirty(StoreOf[t], c, tombstone)
       /\ undo' = [undo EXCEPT ![t] = [Empty EXCEPT ![c] = tombstone]]

\* undoRemove: only while the store still holds the tombstone this tab wrote.
UndoRemove(t, c) ==
  LET s == StoreOf[t]
      tombstone == undo[t][c]
  IN
  /\ tombstone # NoCard
  /\ StillStored(s, c, tombstone)
  /\ \E now \in Time : PutDirty(s, c, [tombstone EXCEPT !.at = now, !.del = FALSE])
  /\ undo' = [undo EXCEPT ![t] = Empty]

\* replaceAll: the backup's cards take the place of the device's, all of them
\* dirty.  Deleted with the rest: what is not in the file, tombstones included.
ImportBackup(t) ==
  LET s == StoreOf[t] IN
  /\ edits < MaxEdits
  /\ edits' = edits + 1
  /\ \E file \in Backups :
       /\ local' = [local EXCEPT ![s] = file]
       /\ dirty' = [dirty EXCEPT ![s] = Held(file)]
  /\ UNCHANGED <<storeEpoch, ui, net, server, lost>>

\* refresh: the tab reads the whole store into React state.  Every edit and every
\* merge ends by awaiting it, so it is a step of its own, after them.
Refresh(t) ==
  /\ view' = [view EXCEPT ![t] = local[StoreOf[t]]]
  /\ UNCHANGED <<device, undo, net, server, edits, lost>>

-----------------------------------------------------------------------------
(***************************************************************************)
(* One sync of one tab.                                                    *)
(***************************************************************************)
ExportAll(t) ==
  LET s == StoreOf[t] IN
  /\ pc[t] = "idle"
  /\ pc' = [pc EXCEPT ![t] = "sent"]
  /\ sent' = [sent EXCEPT ![t] = local[s]]
  /\ sentDirty' = [sentDirty EXCEPT ![t] = dirty[s]]
  /\ UNCHANGED <<device, ui, reply, replyEpoch, server, edits, lost>>

\* The request of t is over: nothing of it is in flight.
Done(t) ==
  /\ pc' = [pc EXCEPT ![t] = "idle"]
  /\ sent' = [sent EXCEPT ![t] = Empty]
  /\ sentDirty' = [sentDirty EXCEPT ![t] = {}]
  /\ reply' = [reply EXCEPT ![t] = Empty]
  /\ replyEpoch' = [replyEpoch EXCEPT ![t] = 0]

\* mutant of SyncCard: a clean card is inserted too
SyncAnyCard(row, pushed, isDirty) ==
  IF pushed = NoCard THEN row
  ELSE IF row = NoCard THEN pushed ELSE UpsertCard(row, pushed)

\* syncCardSQL: a dirty card upserts, a clean one only merges into a row.
SyncCard(row, pushed, isDirty) ==
  IF pushed = NoCard THEN row
  ELSE IF row # NoCard THEN UpsertCard(row, pushed)
  ELSE IF isDirty THEN pushed ELSE NoCard

SyncBatch(t) == [c \in Cards |-> SyncCard(rows[c], sent[t][c], c \in sentDirty[t])]

\* Tombstones past retention.
Expired(replica) ==
  {c \in Held(replica) : replica[c].del /\ replica[c].at < horizon}

Purge(replica) == [c \in Cards |-> IF c \in Expired(replica) THEN NoCard ELSE replica[c]]

\* The transaction of SyncState: upserts, purge, epoch, read, cap check, commit.
SyncState(t) ==
  LET merged == SyncBatch(t)
      out    == Purge(merged)
  IN
  /\ pc[t] = "sent"
  /\ Cardinality(Held(out)) <= MaxCards
  /\ rows' = out
  /\ purged' = [purged EXCEPT ![epoch] = [c \in Cards |->
                  IF c \in Expired(merged) THEN Latest(@[c], merged[c].at) ELSE @[c]]]
  /\ pc' = [pc EXCEPT ![t] = "replied"]
  /\ reply' = [reply EXCEPT ![t] = out]
  /\ replyEpoch' = [replyEpoch EXCEPT ![t] = epoch]
  /\ UNCHANGED <<device, ui, sent, sentDirty, epoch, horizon, edits, lost>>

\* ErrTooManyCards: the transaction rolls back and the tab gets a 413.
RefuseTooMany(t) ==
  /\ pc[t] = "sent"
  /\ Cardinality(Held(Purge(SyncBatch(t)))) > MaxCards
  /\ Done(t)
  /\ UNCHANGED <<device, ui, server, edits, lost>>

\* The connection fails, before the server answered or after: the tab cannot
\* tell, and the server keeps what it committed.
LoseRequest(t) ==
  /\ pc[t] # "idle"
  /\ lost < MaxLost
  /\ lost' = lost + 1
  /\ Done(t)
  /\ UNCHANGED <<device, ui, server, edits>>

\* mergeInto's test for a server that lost its copy.
Mismatch(t) ==
  LET s == StoreOf[t] IN
  IF storeEpoch[s] = 0 THEN Held(local[s]) \ dirty[s] # {}
                       ELSE storeEpoch[s] # replyEpoch[t]

\* mutant of Settled: the epoch is not compared
SettledAcrossEpochs(t, c) ==
  LET mine == local[StoreOf[t]][c] IN
  /\ mine # NoCard /\ sent[t][c] # NoCard
  /\ SameVersion(mine, sent[t][c])

\* mutant of Settled: whatever was sent is settled, edited meanwhile or not
SettledAnyVersion(t, c) ==
  ~Mismatch(t) /\ local[StoreOf[t]][c] # NoCard /\ sent[t][c] # NoCard

\* mutant of Settled: only a card that was pushed dirty is settled
SettledDirtyOnly(t, c) ==
  /\ SettledAnyVersion(t, c) /\ c \in sentDirty[t]
  /\ SameVersion(local[StoreOf[t]][c], sent[t][c])

\* The stored copy is still the version that was sent.
Settled(t, c) ==
  LET s == StoreOf[t] IN
  /\ ~Mismatch(t)
  /\ local[s][c] # NoCard /\ sent[t][c] # NoCard
  /\ SameVersion(local[s][c], sent[t][c])

\* What mergeInto leaves stored under c.
MergedCopy(t, c) ==
  LET mine   == local[StoreOf[t]][c]
      remote == reply[t][c]
  IN  IF mine = NoCard THEN remote
      ELSE IF remote # NoCard THEN MergeCard(mine, remote)
      ELSE IF Settled(t, c) THEN NoCard ELSE mine

\* The cards mergeInto leaves dirty: the unsettled ones, and on a mismatch all.
DirtyAfterMerge(t) ==
  LET s == StoreOf[t] IN
  {c \in Cards : \/ local[s][c] # NoCard /\ ~Settled(t, c)
                 \/ local[s][c] = NoCard /\ reply[t][c] # NoCard /\ Mismatch(t)}

MergeInto(t) ==
  LET s == StoreOf[t] IN
  /\ pc[t] = "replied"
  /\ local' = [local EXCEPT ![s] = [c \in Cards |-> MergedCopy(t, c)]]
  /\ dirty' = [dirty EXCEPT ![s] = DirtyAfterMerge(t)]
  /\ storeEpoch' = [storeEpoch EXCEPT ![s] = replyEpoch[t]]
  /\ Done(t)
  /\ UNCHANGED <<ui, server, edits, lost>>

-----------------------------------------------------------------------------
\* Retention passes for older tombstones.
AgeTombstones ==
  /\ horizon < MaxTime + 1
  /\ horizon' = horizon + 1
  /\ UNCHANGED <<device, ui, net, rows, epoch, purged, edits, lost>>

\* The server loses the account's epoch row, and with it any of the cards.
LoseServerCopy ==
  /\ epoch < MaxEpoch
  /\ epoch' = epoch + 1
  /\ \E kept \in SUBSET Cards :
       rows' = [c \in Cards |-> IF c \in kept THEN rows[c] ELSE NoCard]
  /\ UNCHANGED <<device, ui, net, horizon, purged, edits, lost>>

EditCard(t) == \E c \in Cards : SaveCard(t, c) \/ SaveReview(t, c)
                                \/ RemoveCard(t, c) \/ UndoRemove(t, c)
Edit(t)     == EditCard(t) \/ ImportBackup(t)
SyncStep(t) == ExportAll(t) \/ SyncState(t) \/ RefuseTooMany(t) \/ MergeInto(t)

Next ==
  \/ \E t \in Tabs : Edit(t) \/ Refresh(t) \/ SyncStep(t) \/ LoseRequest(t)
  \/ AgeTombstones
  \/ LoseServerCopy

Spec == Init /\ [][Next]_vars

(***************************************************************************)
(* Tabs stay in use: each regaining focus or a connection triggers a sync, *)
(* requests are answered, answers applied, stores read back to the screen. *)
(* Edits, losses and the passing of time are never owed.                   *)
(***************************************************************************)
FairSpec == Spec /\ \A t \in Tabs : WF_vars(SyncStep(t)) /\ WF_vars(Refresh(t))
-----------------------------------------------------------------------------
\* What the stores, the requests and the server hold are whole cards of known
\* versions: what the two merges put together is again a card.
TypeOK ==
  /\ local \in [Stores -> Replica]
  /\ dirty \in [Stores -> SUBSET Cards]
  /\ storeEpoch \in [Stores -> Epochs]
  /\ view \in [Tabs -> Replica]
  /\ undo \in [Tabs -> Replica]
  /\ pc \in [Tabs -> {"idle", "sent", "replied"}]
  /\ sent \in [Tabs -> Replica]
  /\ sentDirty \in [Tabs -> SUBSET Cards]
  /\ reply \in [Tabs -> Replica]
  /\ replyEpoch \in [Tabs -> Epochs]
  /\ rows \in Replica
  /\ epoch \in 1..MaxEpoch
  /\ horizon \in Nat
  /\ edits \in Nat
  /\ lost \in Nat
  /\ purged \in [Epochs -> [Cards -> Nat]]

\* The server of this epoch has everything the copy says, or has had it and
\* purged a tombstone that was no older.
Known(c, card) ==
  \/ rows[c] # NoCard /\ Covers(rows[c], card)
  \/ card.at <= purged[epoch][c]

\* A card is stored clean only when the server has it: dropping or overwriting
\* a clean copy can lose no edit, whatever was edited, lost, purged or answered
\* out of order while the requests were in flight (mergeInto's settled rule).
CleanIsCovered ==
  \A s \in Stores, c \in Cards :
    storeEpoch[s] = epoch /\ local[s][c] # NoCard /\ c \notin dirty[s]
      => Known(c, local[s][c])

\* But for an import, a card leaves a device only when the server whose answer is
\* applied has purged a tombstone of it that was no older: a server that lost its
\* rows, or never had the card, deletes nothing (mergeInto).
OnlyPurgedVanish ==
  [][\A s \in Stores, c \in Cards :
       local[s][c] # NoCard /\ local'[s][c] = NoCard /\ edits' = edits
         => local[s][c].at <= purged[storeEpoch'[s]][c]]_vars

\* A sync alone never turns a clean card dirty, unless it brought a new epoch.
CleanStaysClean ==
  [][\A s \in Stores, c \in Cards :
       local[s][c] # NoCard /\ c \notin dirty[s] /\ c \in dirty'[s]
         => edits' # edits \/ storeEpoch'[s] # storeEpoch[s]]_vars

\* No copy of c that could come back: no row, and nobody holds or sends it dirty
\* or is about to learn of a new epoch.
Gone(c) ==
  /\ rows[c] = NoCard
  /\ \A s \in Stores : c \notin dirty[s] /\ storeEpoch[s] \in {0, epoch}
  /\ \A t \in Tabs : c \notin sentDirty[t] /\ replyEpoch[t] \in {0, epoch}

\* A purged card stays purged however many devices still send their clean copy
\* of it, and in whatever order their answers land; only an edit or a server
\* that lost its copy brings it back (syncCardSQL's clean-card rule).
PurgeHolds ==
  [][\A c \in Cards : Gone(c) /\ edits' = edits /\ epoch' = epoch => Gone(c)']_vars

\* Every device and the server hold the same cards in the same version, up to
\* what a tie keeps on each side, and nothing is left to push.
Converged ==
  \A s \in Stores, c \in Cards :
    /\ c \notin dirty[s]
    /\ local[s][c] = NoCard <=> rows[c] = NoCard
    /\ rows[c] # NoCard => Equivalent(local[s][c], rows[c])

\* Once the edits and the failures stop, syncing alone makes the devices and
\* the server agree and keeps them so.
EventuallyConverged == <>[]Converged
=============================================================================
