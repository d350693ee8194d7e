-------------------------- MODULE CardSync_proofs --------------------------
(***************************************************************************)
(* Proofs about CardSync for every set of cards, devices and tabs, every   *)
(* assignment of tabs to devices and every bound, but for those that       *)
(* assume one tab per device (OneTab, Steady), and the facts about the     *)
(* merge rule that they rest on.                                           *)
(***************************************************************************)
EXTENDS CardSync, TLAPS

-----------------------------------------------------------------------------
(* The merge rule.                                                         *)

\* A merge of two cards is a card, whichever end computes it.
LEMMA MergeType ==
  ASSUME NEW a \in Card, NEW b \in Card
  PROVE  MergeCard(a, b) \in Card
<1>1. a.fsrs \in Fsrs /\ b.fsrs \in Fsrs
  BY DEF Card
<1>2. [a EXCEPT !.fsrs = b.fsrs] \in Card /\ [b EXCEPT !.fsrs = a.fsrs] \in Card
  BY <1>1 DEF Card
<1>3. QED
  BY <1>2 DEF MergeCard

\* The client's rule and the server's column-by-column upsert agree on every
\* pair of copies: a device and the server that merge the same two copies in
\* the same order store the same card.
THEOREM RulesAgree ==
  ASSUME NEW row \in Card, NEW excluded \in Card
  PROVE  UpsertCard(row, excluded) = MergeCard(row, excluded)
<1> DEFINE wins == IncomingWins(row, excluded)
<1>1. CASE wins
  BY <1>1 DEF UpsertCard, MergeCard, Card, Fsrs, Reviewed
<1>2. CASE ~wins
  BY <1>2 DEF UpsertCard, MergeCard, Card, Fsrs, Reviewed
<1>3. QED
  BY <1>1, <1>2

\* The parts of a merge that Covers speaks of.
LEMMA MergeParts ==
  ASSUME NEW a \in Card, NEW b \in Card
  PROVE  /\ IncomingWins(a, b) => MergeCard(a, b).at = b.at /\ MergeCard(a, b).del = b.del
         /\ ~IncomingWins(a, b) => MergeCard(a, b).at = a.at /\ MergeCard(a, b).del = a.del
         /\ Reviewed(MergeCard(a, b)) <=> Reviewed(a) \/ Reviewed(b)
  BY DEF MergeCard, Card, Fsrs, Reviewed

\* The merge is an upper bound of the two copies: neither copy's later write,
\* deletion or history is lost by it.
THEOREM MergeCovers ==
  ASSUME NEW a \in Card, NEW b \in Card
  PROVE  Covers(MergeCard(a, b), a) /\ Covers(MergeCard(a, b), b)
  BY MergeParts DEF Covers, IncomingWins, Card

\* It is the least one: whatever covers both copies covers their merge.
THEOREM MergeLeast ==
  ASSUME NEW a \in Card, NEW b \in Card, NEW c \in Card,
         Covers(c, a), Covers(c, b)
  PROVE  Covers(c, MergeCard(a, b))
  BY MergeParts DEF Covers

\* A copy covers itself.
LEMMA CoversReflexive ==
  ASSUME NEW a \in Card
  PROVE  Covers(a, a)
  BY DEF Covers, Card

\* A chain of copies each covering the one before loses nothing.
LEMMA CoversTransitive ==
  ASSUME NEW a \in Card, NEW b \in Card, NEW c \in Card,
         Covers(a, b), Covers(b, c)
  PROVE  Covers(a, c)
  BY DEF Covers, Card

-----------------------------------------------------------------------------
(* The operators the actions are built from return values of their type.   *)

Slot == Card \cup {NoCard}

\* An edit keeps the types of what it writes.
LEMMA PutDirtyType ==
  ASSUME TypeOK, NEW s \in Stores, NEW c \in Cards, NEW card \in Card,
         PutDirty(s, c, card)
  PROVE  /\ local' \in [Stores -> Replica]
         /\ dirty' \in [Stores -> SUBSET Cards]
         /\ edits' \in Nat
  BY DEF TypeOK, PutDirty, Replica

\* A fresh card is a card.
LEMMA FreshCardType ==
  ASSUME NEW now \in Time, NEW body \in Bodies, NEW due \in Dues
  PROVE  FreshCard(now, body, due) \in Card
  BY SyncAssumption DEF FreshCard, Card, Fsrs, Time

\* Deleting or restoring a card at some time leaves a card.
LEMMA RedatedType ==
  ASSUME NEW card \in Card, NEW now \in Time, NEW d \in BOOLEAN
  PROVE  [card EXCEPT !.at = now, !.del = d] \in Card
<1>1. now \in Nat
  BY SyncAssumption DEF Time
<1>2. QED
  BY <1>1 DEF Card

\* A review is dated by a natural number.
LEMMA ReviewTimeType ==
  ASSUME NEW card \in Card, NEW now \in Time
  PROVE  ReviewTime(card, now) \in Nat
<1>1. card.at \in Nat /\ card.fsrs.last \in Nat /\ now \in Nat
  BY SyncAssumption DEF Card, Fsrs, Time
<1>2. QED
  BY <1>1 DEF ReviewTime, Latest

\* The server's upsert of one card yields a card or no row.
LEMMA SyncCardType ==
  ASSUME NEW row \in Slot, NEW pushed \in Slot, NEW d \in BOOLEAN
  PROVE  SyncCard(row, pushed, d) \in Slot
<1>1. row # NoCard /\ pushed # NoCard => UpsertCard(row, pushed) \in Card
  BY RulesAgree, MergeType DEF Slot
<1>2. QED
  BY <1>1 DEF SyncCard, Slot

\* A sync transaction leaves one slot per card, before and after the purge.
LEMMA SyncBatchType ==
  ASSUME TypeOK, NEW t \in Tabs
  PROVE  SyncBatch(t) \in Replica /\ Purge(SyncBatch(t)) \in Replica
<1>1. \A c \in Cards : SyncCard(rows[c], sent[t][c], c \in sentDirty[t]) \in Slot
  <2> TAKE c \in Cards
  <2>1. rows[c] \in Slot /\ sent[t][c] \in Slot /\ (c \in sentDirty[t]) \in BOOLEAN
    BY DEF TypeOK, Replica, Slot
  <2>2. QED
    BY <2>1, SyncCardType
<1>2. SyncBatch(t) \in Replica
  BY <1>1 DEF SyncBatch, Replica, Slot
<1>3. Purge(SyncBatch(t)) \in Replica
  BY <1>2 DEF Purge, Replica
<1>4. QED
  BY <1>2, <1>3

\* Merging an answer into the store leaves one slot per card.
LEMMA MergedCopyType ==
  ASSUME TypeOK, NEW t \in Tabs, NEW c \in Cards
  PROVE  MergedCopy(t, c) \in Slot
<1>1. StoreOf[t] \in Stores
  BY SyncAssumption
<1>2. local[StoreOf[t]][c] \in Slot /\ reply[t][c] \in Slot
  BY <1>1 DEF TypeOK, Replica, Slot
<1>3. QED
  BY <1>2, MergeType DEF MergedCopy, Slot

-----------------------------------------------------------------------------
\* Every state has the types of TypeOK.
THEOREM TypeCorrect == Spec => []TypeOK
<1>1. Init => TypeOK
  BY SyncAssumption DEF Init, TypeOK, Replica, Empty, Epochs
<1>2. TypeOK /\ [Next]_vars => TypeOK'
  <2> SUFFICES ASSUME TypeOK, [Next]_vars PROVE TypeOK'
    OBVIOUS
  <2> USE SyncAssumption
  <2>1. ASSUME NEW t \in Tabs, NEW c \in Cards, SaveCard(t, c) PROVE TypeOK'
    <3> DEFINE s == StoreOf[t]
    <3>1. s \in Stores /\ local[s][c] \in Slot
      BY DEF TypeOK, Replica, Slot
    <3>2. PICK now \in Time, body \in Bodies, due \in Dues :
            LET fresh == FreshCard(now, body, due) IN
            PutDirty(s, c, IF local[s][c] = NoCard THEN fresh
                                                   ELSE MergeCard(local[s][c], fresh))
      BY <2>1 DEF SaveCard
    <3> DEFINE fresh == FreshCard(now, body, due)
               card == IF local[s][c] = NoCard THEN fresh ELSE MergeCard(local[s][c], fresh)
    <3>3. card \in Card
      BY <3>1, FreshCardType, MergeType DEF Slot
    <3>4. PutDirty(s, c, card)
      BY <3>2
    <3> HIDE DEF card, s
    <3>5. local' \in [Stores -> Replica] /\ dirty' \in [Stores -> SUBSET Cards] /\ edits' \in Nat
      BY <3>1, <3>3, <3>4, PutDirtyType
    <3>6. QED
      BY <2>1, <3>4, <3>5 DEF SaveCard, PutDirty, TypeOK, net, server
  <2>2. ASSUME NEW t \in Tabs, NEW c \in Cards, SaveReview(t, c) PROVE TypeOK'
    <3> DEFINE s == StoreOf[t]
               old == view[t][c]
    <3>1. s \in Stores /\ old \in Card
      BY <2>2 DEF SaveReview, TypeOK, Replica
    <3>2. PICK now \in Time, due \in Dues :
            LET at == ReviewTime(old, now) IN
            PutDirty(s, c, [old EXCEPT !.at = at, !.fsrs = [last |-> at, due |-> due]])
      BY <2>2 DEF SaveReview
    <3> DEFINE at == ReviewTime(old, now)
               card == [old EXCEPT !.at = at, !.fsrs = [last |-> at, due |-> due]]
    <3>3. card \in Card
      <4>1. at \in Nat
        BY <3>1, ReviewTimeType
      <4> HIDE DEF at, old
      <4>2. QED
        BY <3>1, <4>1 DEF Card, Fsrs
    <3>4. PutDirty(s, c, card)
      BY <3>2
    <3> HIDE DEF card, s
    <3>5. local' \in [Stores -> Replica] /\ dirty' \in [Stores -> SUBSET Cards] /\ edits' \in Nat
      BY <3>1, <3>3, <3>4, PutDirtyType
    <3>6. QED
      BY <2>2, <3>4, <3>5 DEF SaveReview, PutDirty, TypeOK, net, server
  <2>3. ASSUME NEW t \in Tabs, NEW c \in Cards, RemoveCard(t, c) PROVE TypeOK'
    <3> DEFINE s == StoreOf[t]
               old == view[t][c]
    <3>1. s \in Stores /\ old \in Card
      BY <2>3 DEF RemoveCard, TypeOK, Replica
    <3>2. PICK now \in Time :
            LET card == [old EXCEPT !.at = now, !.del = TRUE] IN
            /\ PutDirty(s, c, card)
            /\ undo' = [undo EXCEPT ![t] = [Empty EXCEPT ![c] = card]]
      BY <2>3 DEF RemoveCard
    <3> DEFINE card == [old EXCEPT !.at = now, !.del = TRUE]
    <3>3. card \in Card
      BY <3>1, RedatedType
    <3>4. PutDirty(s, c, card) /\ undo' = [undo EXCEPT ![t] = [Empty EXCEPT ![c] = card]]
      BY <3>2
    <3> HIDE DEF card, s
    <3>5. local' \in [Stores -> Replica] /\ dirty' \in [Stores -> SUBSET Cards] /\ edits' \in Nat
      BY <3>1, <3>3, <3>4, PutDirtyType
    <3>6. undo' \in [Tabs -> Replica]
      <4>1. [Empty EXCEPT ![c] = card] \in Replica
        BY <3>3 DEF Empty, Replica
      <4>2. QED
        BY <3>4, <4>1 DEF TypeOK
    <3>7. QED
      BY <3>4, <3>5, <3>6 DEF PutDirty, TypeOK, net, server
  <2>4. ASSUME NEW t \in Tabs, NEW c \in Cards, UndoRemove(t, c) PROVE TypeOK'
    <3> DEFINE s == StoreOf[t]
               old == undo[t][c]
    <3>1. s \in Stores /\ old \in Card
      BY <2>4 DEF UndoRemove, TypeOK, Replica
    <3>2. PICK now \in Time : PutDirty(s, c, [old EXCEPT !.at = now, !.del = FALSE])
      BY <2>4 DEF UndoRemove
    <3> DEFINE card == [old EXCEPT !.at = now, !.del = FALSE]
    <3>3. card \in Card
      BY <3>1, RedatedType
    <3>4. PutDirty(s, c, card)
      BY <3>2
    <3> HIDE DEF card, s
    <3>5. local' \in [Stores -> Replica] /\ dirty' \in [Stores -> SUBSET Cards] /\ edits' \in Nat
      BY <3>1, <3>3, <3>4, PutDirtyType
    <3>6. undo' \in [Tabs -> Replica]
      BY <2>4 DEF UndoRemove, TypeOK, Empty, Replica
    <3>7. QED
      BY <3>4, <3>5, <3>6 DEF PutDirty, TypeOK, net, server
  <2>5. ASSUME NEW t \in Tabs, Refresh(t) PROVE TypeOK'
    BY <2>5 DEF Refresh, TypeOK, device, net, server
  <2>6. ASSUME NEW t \in Tabs, ExportAll(t) PROVE TypeOK'
    BY <2>6 DEF ExportAll, TypeOK, device, ui, server
  <2>7. ASSUME NEW t \in Tabs, SyncState(t) PROVE TypeOK'
    <3>1. SyncBatch(t) \in Replica /\ Purge(SyncBatch(t)) \in Replica
      BY SyncBatchType
    <3> DEFINE merged == SyncBatch(t)
               p == [c \in Cards |-> IF c \in Expired(merged)
                       THEN Latest(purged[epoch][c], merged[c].at) ELSE purged[epoch][c]]
    <3>2. p \in [Cards -> Nat]
      <4>1. \A c \in Cards : purged[epoch][c] \in Nat
        BY DEF TypeOK, Epochs
      <4>2. \A c \in Expired(merged) : merged[c].at \in Nat
        BY <3>1 DEF Expired, Held, Replica, Card
      <4>3. \A c \in Expired(merged) : Latest(purged[epoch][c], merged[c].at) \in Nat
        BY <4>1, <4>2 DEF Latest, Expired, Held
      <4>4. QED
        BY <4>1, <4>3
    <3>3. purged' = [purged EXCEPT ![epoch] = p]
      BY <2>7 DEF SyncState, TypeOK, Epochs
    <3> HIDE DEF p, merged
    <3>4. purged' \in [Epochs -> [Cards -> Nat]]
      BY <3>2, <3>3 DEF TypeOK
    <3>5. QED
      BY <2>7, <3>1, <3>4 DEF SyncState, TypeOK, Epochs, device, ui
  <2>8. ASSUME NEW t \in Tabs, Done(t)
        PROVE  /\ pc' \in [Tabs -> {"idle", "sent", "replied"}]
               /\ sent' \in [Tabs -> Replica] /\ reply' \in [Tabs -> Replica]
               /\ sentDirty' \in [Tabs -> SUBSET Cards] /\ replyEpoch' \in [Tabs -> Epochs]
    BY <2>8 DEF Done, TypeOK, Empty, Replica, Epochs
  <2>9. ASSUME NEW t \in Tabs, RefuseTooMany(t) PROVE TypeOK'
    BY <2>8, <2>9 DEF RefuseTooMany, TypeOK, device, ui, server
  <2>10. ASSUME NEW t \in Tabs, LoseRequest(t) PROVE TypeOK'
    BY <2>8, <2>10 DEF LoseRequest, TypeOK, device, ui, server
  <2>11. ASSUME NEW t \in Tabs, MergeInto(t) PROVE TypeOK'
    <3>1. [c \in Cards |-> MergedCopy(t, c)] \in Replica
      BY MergedCopyType DEF Replica, Slot
    <3>2. DirtyAfterMerge(t) \in SUBSET Cards
      BY DEF DirtyAfterMerge
    <3>3. /\ local' \in [Stores -> Replica]
          /\ dirty' \in [Stores -> SUBSET Cards]
          /\ storeEpoch' \in [Stores -> Epochs]
      BY <2>11, <3>1, <3>2 DEF MergeInto, TypeOK
    <3>4. QED
      BY <2>8, <2>11, <3>3 DEF MergeInto, TypeOK, ui, server
  <2>12. CASE AgeTombstones
    BY <2>12 DEF AgeTombstones, TypeOK, device, ui, net
  <2>13. CASE LoseServerCopy
    <3>1. rows' \in Replica
      BY <2>13 DEF LoseServerCopy, TypeOK, Replica
    <3>2. epoch' \in 1..MaxEpoch
      BY <2>13 DEF LoseServerCopy, TypeOK
    <3>3. QED
      BY <2>13, <3>1, <3>2 DEF LoseServerCopy, TypeOK, device, ui, net
  <2>14. CASE UNCHANGED vars
    BY <2>14 DEF TypeOK, vars, device, ui, net, server
  <2>15. ASSUME NEW t \in Tabs, ImportBackup(t) PROVE TypeOK'
    <3>1. /\ local' \in [Stores -> Replica]
          /\ dirty' \in [Stores -> SUBSET Cards]
          /\ edits' \in Nat
      BY <2>15 DEF ImportBackup, TypeOK, Held
    <3>2. QED
      BY <2>15, <3>1 DEF ImportBackup, TypeOK, ui, net, server
  <2>16. QED
    BY <2>1, <2>2, <2>3, <2>4, <2>5, <2>6, <2>7, <2>9, <2>10, <2>11, <2>12, <2>13, <2>14, <2>15
       DEF Next, Edit, EditCard, SyncStep
<1>3. QED
  BY <1>1, <1>2, PTL DEF Spec

-----------------------------------------------------------------------------
(***************************************************************************)
(* CleanIsCovered is not inductive: the clean copies come from answers, so *)
(* what an answer in flight says of the server is part of the invariant,   *)
(* and so is that no one knows an epoch the server has not reached.        *)
(***************************************************************************)
EpochsPast ==
  /\ \A s \in Stores : storeEpoch[s] <= epoch
  /\ \A t \in Tabs : replyEpoch[t] <= epoch

ReplyKnown ==
  \A t \in Tabs, c \in Cards :
    pc[t] = "replied" /\ replyEpoch[t] = epoch /\ reply[t][c] # NoCard
      => Known(c, reply[t][c])

ReplyCoversSent ==
  \A t \in Tabs, c \in Cards :
    pc[t] = "replied" /\ reply[t][c] # NoCard /\ sent[t][c] # NoCard
      => Covers(reply[t][c], sent[t][c])

IInv == TypeOK /\ EpochsPast /\ CleanIsCovered /\ ReplyKnown /\ ReplyCoversSent

\* What the server knows of a copy it knows of every copy that one covers.
LEMMA KnownDown ==
  ASSUME TypeOK, NEW c \in Cards, NEW x \in Card, NEW y \in Card,
         Known(c, x), Covers(x, y)
  PROVE  Known(c, y)
<1>1. CASE rows[c] # NoCard /\ Covers(rows[c], x)
  <2>1. rows[c] \in Card
    BY <1>1 DEF TypeOK, Replica
  <2>2. QED
    BY <1>1, <2>1, CoversTransitive DEF Known
<1>2. CASE x.at <= purged[epoch][c]
  <2>1. y.at <= x.at /\ y.at \in Nat /\ x.at \in Nat
    BY DEF Covers, Card
  <2>2. purged[epoch][c] \in Nat
    BY SyncAssumption DEF TypeOK, Epochs
  <2>3. QED
    BY <1>2, <2>1, <2>2 DEF Known
<1>3. QED
  BY <1>1, <1>2 DEF Known

\* A sync transaction's row covers the row before it and the card pushed.
LEMMA SyncCardCovers ==
  ASSUME NEW row \in Slot, NEW pushed \in Slot, NEW d \in BOOLEAN,
         SyncCard(row, pushed, d) # NoCard
  PROVE  /\ row # NoCard => Covers(SyncCard(row, pushed, d), row)
         /\ pushed # NoCard => Covers(SyncCard(row, pushed, d), pushed)
<1>1. CASE pushed = NoCard
  <2>1. SyncCard(row, pushed, d) = row
    BY <1>1 DEF SyncCard
  <2>2. QED
    BY <1>1, <2>1, CoversReflexive DEF Slot
<1>2. CASE row = NoCard /\ pushed # NoCard
  <2>1. SyncCard(row, pushed, d) = pushed
    BY <1>2 DEF SyncCard
  <2>2. QED
    BY <1>2, <2>1, CoversReflexive DEF Slot
<1>3. CASE row # NoCard /\ pushed # NoCard
  <2>1. row \in Card /\ pushed \in Card
    BY <1>3 DEF Slot
  <2>2. SyncCard(row, pushed, d) = MergeCard(row, pushed)
    BY <1>3, <2>1, RulesAgree DEF SyncCard
  <2>3. QED
    BY <2>1, <2>2, MergeCovers
<1>4. QED
  BY <1>1, <1>2, <1>3

\* A row never disappears in the upserts.
LEMMA SyncCardKeeps ==
  ASSUME NEW row \in Slot, NEW pushed \in Slot, NEW d \in BOOLEAN, row # NoCard
  PROVE  SyncCard(row, pushed, d) # NoCard
<1>1. CASE pushed = NoCard
  BY <1>1 DEF SyncCard
<1>2. CASE pushed # NoCard
  <2>1. row \in Card /\ pushed \in Card
    BY <1>2 DEF Slot
  <2>2. SyncCard(row, pushed, d) \in Card
    BY <1>2, <2>1, RulesAgree, MergeType DEF SyncCard
  <2>3. QED
    BY <2>2, SyncAssumption
<1>3. QED
  BY <1>1, <1>2

\* In a sync transaction the server forgets nothing it knew, and ends up
\* knowing every row it answers with.
LEMMA SyncStateKnows ==
  ASSUME TypeOK, NEW t \in Tabs, SyncState(t), NEW c \in Cards
  PROVE  /\ \A x \in Card : Known(c, x) => Known(c, x)'
         /\ \A x \in Card : rows'[c] = x => Known(c, x)'
         /\ rows'[c] # NoCard /\ sent[t][c] # NoCard => Covers(rows'[c], sent[t][c])
<1> DEFINE merged == SyncBatch(t)
           m == SyncCard(rows[c], sent[t][c], c \in sentDirty[t])
<1>1. rows[c] \in Slot /\ sent[t][c] \in Slot /\ (c \in sentDirty[t]) \in BOOLEAN
  BY DEF TypeOK, Replica, Slot
<1>2. merged[c] = m /\ m \in Slot
  BY <1>1, SyncCardType DEF SyncBatch
<1>3. epoch' = epoch /\ epoch \in Epochs
  BY DEF SyncState, TypeOK, Epochs
<1>4. purged[epoch][c] \in Nat
  BY <1>3 DEF TypeOK
<1>5. purged'[epoch][c] = IF c \in Expired(merged)
                            THEN Latest(purged[epoch][c], merged[c].at) ELSE purged[epoch][c]
  BY <1>3 DEF SyncState, TypeOK
<1>6. rows'[c] = IF c \in Expired(merged) THEN NoCard ELSE m
  BY <1>2 DEF SyncState, Purge
<1>7. c \in Expired(merged) => m \in Card
  BY <1>2 DEF Expired, Held, Slot
<1>8. c \in Expired(merged) => m.at \in Nat /\ purged'[epoch][c] >= m.at
  BY <1>2, <1>4, <1>5, <1>7 DEF Latest, Card
<1>9. purged'[epoch][c] >= purged[epoch][c] /\ purged'[epoch][c] \in Nat
  BY <1>2, <1>4, <1>5, <1>7 DEF Latest, Card
<1> HIDE DEF merged, m
<1>10. ASSUME NEW x \in Card, Known(c, x) PROVE Known(c, x)'
  <2>1. CASE rows[c] # NoCard /\ Covers(rows[c], x)
    <3>1. rows[c] \in Card
      BY <1>1, <2>1 DEF Slot
    <3>2. m \in Card /\ Covers(m, rows[c])
      BY <1>1, <1>2, <2>1, SyncCardCovers, SyncCardKeeps DEF m, Slot
    <3>3. Covers(m, x)
      BY <2>1, <3>1, <3>2, CoversTransitive
    <3>4. CASE c \in Expired(merged)
      <4>1. x.at <= m.at /\ x.at \in Nat
        BY <3>2, <3>3 DEF Covers, Card
      <4>2. QED
        BY <1>3, <1>8, <1>9, <3>4, <4>1 DEF Known
    <3>5. CASE c \notin Expired(merged)
      BY <1>6, <3>2, <3>3, <3>5, SyncAssumption DEF Known
    <3>6. QED
      BY <3>4, <3>5
  <2>2. CASE x.at <= purged[epoch][c]
    <3>1. x.at \in Nat
      BY DEF Card
    <3>2. QED
      BY <1>3, <1>4, <1>9, <2>2, <3>1 DEF Known
  <2>3. QED
    BY <1>10, <2>1, <2>2 DEF Known
<1>11. ASSUME NEW x \in Card, rows'[c] = x PROVE Known(c, x)'
  BY <1>11, CoversReflexive, SyncAssumption DEF Known
<1>12. rows'[c] # NoCard /\ sent[t][c] # NoCard => Covers(rows'[c], sent[t][c])
  BY <1>1, <1>6, SyncCardCovers DEF m
<1>13. QED
  BY <1>10, <1>11, <1>12

\* A merged answer leaves clean only what the server knows.
LEMMA MergeIntoKnows ==
  ASSUME IInv, NEW t \in Tabs, MergeInto(t), NEW c \in Cards,
         replyEpoch[t] = epoch,
         MergedCopy(t, c) # NoCard, c \notin DirtyAfterMerge(t)
  PROVE  Known(c, MergedCopy(t, c))
<1> DEFINE mine == local[StoreOf[t]][c]
           remote == reply[t][c]
<1>1. StoreOf[t] \in Stores /\ pc[t] = "replied"
  BY SyncAssumption DEF MergeInto
<1>2. mine \in Slot /\ remote \in Slot /\ sent[t][c] \in Slot
  BY <1>1 DEF IInv, TypeOK, Replica, Slot
<1>3. remote # NoCard => Known(c, remote)
  BY <1>1 DEF IInv, ReplyKnown
<1>4. CASE mine = NoCard
  BY <1>3, <1>4 DEF MergedCopy
<1>5. CASE mine # NoCard
  <2>1. Settled(t, c)
    BY <1>5 DEF DirtyAfterMerge
  <2>2. remote # NoCard /\ sent[t][c] # NoCard /\ SameVersion(mine, sent[t][c])
    BY <1>5, <2>1 DEF MergedCopy, Settled
  <2>3. mine \in Card /\ remote \in Card /\ sent[t][c] \in Card
    BY <1>2, <1>5, <2>2 DEF Slot
  <2>4. Covers(remote, sent[t][c])
    BY <1>1, <2>2 DEF IInv, ReplyCoversSent
  <2>5. Covers(remote, mine)
    BY <2>2, <2>3, <2>4 DEF Covers, SameVersion, Reviewed
  <2>6. Covers(remote, MergeCard(mine, remote)) /\ MergeCard(mine, remote) \in Card
    BY <2>3, <2>5, CoversReflexive, MergeLeast, MergeType
  <2>7. Known(c, MergeCard(mine, remote))
    BY <1>3, <2>2, <2>3, <2>6, KnownDown DEF IInv
  <2>8. QED
    BY <1>5, <2>2, <2>7 DEF MergedCopy
<1>6. QED
  BY <1>4, <1>5

-----------------------------------------------------------------------------
(* Each kind of step preserves the invariant. *)

\* An edit makes the one card it writes dirty and touches no request.
LEMMA EditKeepsIInv ==
  ASSUME IInv, TypeOK', NEW s \in Stores, NEW c \in Cards, NEW card,
         PutDirty(s, c, card)
  PROVE  IInv'
<1>1. UNCHANGED <<storeEpoch, net, server>>
  BY DEF PutDirty
<1>2. EpochsPast'
  BY <1>1 DEF IInv, EpochsPast, net, server
<1>3. CleanIsCovered'
  <2> SUFFICES ASSUME NEW r \in Stores, NEW b \in Cards,
                      storeEpoch'[r] = epoch', local'[r][b] # NoCard, b \notin dirty'[r]
               PROVE  Known(b, local[r][b])'
    BY DEF CleanIsCovered
  <2>1. b \notin dirty[r] /\ local'[r][b] = local[r][b]
    <3>1. local[s] \in [Cards -> Slot] /\ dirty \in [Stores -> SUBSET Cards]
      BY DEF IInv, TypeOK, Replica, Slot
    <3>2. /\ local' = [local EXCEPT ![s] = [local[s] EXCEPT ![c] = card]]
          /\ dirty' = [dirty EXCEPT ![s] = dirty[s] \cup {c}]
      BY DEF PutDirty
    <3>3. local \in [Stores -> Replica]
      BY DEF IInv, TypeOK
    <3>4. QED
      BY <3>1, <3>2, <3>3
  <2>2. Known(b, local[r][b])
    <3>1. storeEpoch[r] = epoch /\ local[r][b] # NoCard
      BY <1>1, <2>1 DEF server
    <3>2. QED
      BY <2>1, <3>1 DEF IInv, CleanIsCovered
  <2>3. QED
    BY <1>1, <2>1, <2>2 DEF Known, server
<1>4. ReplyKnown'
  BY <1>1 DEF IInv, ReplyKnown, Known, net, server
<1>5. ReplyCoversSent'
  BY <1>1 DEF IInv, ReplyCoversSent, net
<1>6. QED
  BY <1>2, <1>3, <1>4, <1>5 DEF IInv

\* What an import writes.
LEMMA ImportStores ==
  ASSUME TypeOK, NEW t \in Tabs, ImportBackup(t)
  PROVE  /\ UNCHANGED <<storeEpoch, net, server>>
         /\ \A r \in Stores : \/ local'[r] = local[r] /\ dirty'[r] = dirty[r]
                              \/ dirty'[r] = Held(local'[r])
<1>1. StoreOf[t] \in Stores
  BY SyncAssumption
<1>2. QED
  BY <1>1 DEF ImportBackup, TypeOK

\* An import leaves nothing clean.
LEMMA ImportKeepsIInv ==
  ASSUME IInv, TypeOK', NEW t \in Tabs, ImportBackup(t)
  PROVE  IInv'
<1>1. /\ UNCHANGED <<storeEpoch, net, server>>
      /\ \A r \in Stores : \/ local'[r] = local[r] /\ dirty'[r] = dirty[r]
                           \/ dirty'[r] = Held(local'[r])
  BY ImportStores DEF IInv
<1>2. EpochsPast'
  BY <1>1 DEF IInv, EpochsPast, net, server
<1>3. CleanIsCovered'
  BY <1>1 DEF IInv, CleanIsCovered, Known, Held, server
<1>4. ReplyKnown'
  BY <1>1 DEF IInv, ReplyKnown, Known, net, server
<1>5. ReplyCoversSent'
  BY <1>1 DEF IInv, ReplyCoversSent, net
<1>6. QED
  BY <1>2, <1>3, <1>4, <1>5 DEF IInv

\* Once a request is over, its answer claims nothing.
LEMMA DoneKeepsReplies ==
  ASSUME IInv, NEW t \in Tabs, Done(t), UNCHANGED server
  PROVE  ReplyKnown' /\ ReplyCoversSent' /\ \A u \in Tabs : replyEpoch'[u] <= epoch'
<1>1. \A u \in Tabs \ {t} :
        /\ pc'[u] = pc[u] /\ sent'[u] = sent[u]
        /\ reply'[u] = reply[u] /\ replyEpoch'[u] = replyEpoch[u]
  BY DEF Done, IInv, TypeOK
<1>2. pc'[t] = "idle" /\ replyEpoch'[t] = 0
  BY DEF Done, IInv, TypeOK
<1>3. ReplyKnown'
  BY <1>1, <1>2 DEF IInv, ReplyKnown, Known, server
<1>4. ReplyCoversSent'
  BY <1>1, <1>2 DEF IInv, ReplyCoversSent
<1>5. \A u \in Tabs : replyEpoch'[u] <= epoch'
  <2>1. epoch' = epoch /\ 0 <= epoch
    BY SyncAssumption DEF IInv, TypeOK, server
  <2>2. \A u \in Tabs : replyEpoch[u] <= epoch
    BY DEF IInv, EpochsPast
  <2>3. QED
    BY <1>1, <1>2, <2>1, <2>2
<1>6. QED
  BY <1>3, <1>4, <1>5

\* A request that fails or is refused changes no device.
LEMMA AbortKeepsIInv ==
  ASSUME IInv, TypeOK', NEW t \in Tabs, Done(t), UNCHANGED <<device, server>>
  PROVE  IInv'
<1>1. ReplyKnown' /\ ReplyCoversSent' /\ \A u \in Tabs : replyEpoch'[u] <= epoch'
  BY DoneKeepsReplies
<1>2. EpochsPast'
  BY <1>1 DEF IInv, EpochsPast, device, server
<1>3. CleanIsCovered'
  BY DEF IInv, CleanIsCovered, Known, device, server
<1>4. QED
  BY <1>1, <1>2, <1>3 DEF IInv

\* The server's transaction.
LEMMA SyncStateKeepsIInv ==
  ASSUME IInv, TypeOK', NEW t \in Tabs, SyncState(t)
  PROVE  IInv'
<1>1. /\ UNCHANGED <<local, dirty, storeEpoch, sent, epoch>>
      /\ reply' = [reply EXCEPT ![t] = rows']
      /\ replyEpoch' = [replyEpoch EXCEPT ![t] = epoch]
      /\ pc' = [pc EXCEPT ![t] = "replied"]
  BY DEF SyncState, device
<1>2. EpochsPast'
  BY <1>1, SyncAssumption DEF IInv, TypeOK, EpochsPast
<1>3. CleanIsCovered'
  <2> SUFFICES ASSUME NEW s \in Stores, NEW c \in Cards,
                      storeEpoch[s] = epoch, local[s][c] # NoCard, c \notin dirty[s]
               PROVE  Known(c, local[s][c])'
    BY <1>1 DEF CleanIsCovered
  <2>1. local[s][c] \in Card /\ Known(c, local[s][c])
    BY DEF IInv, TypeOK, Replica, CleanIsCovered
  <2>2. PICK x \in Card : x = local[s][c]
    BY <2>1
  <2>3. Known(c, x)'
    BY <2>1, <2>2, SyncStateKnows DEF IInv
  <2>4. QED
    BY <1>1, <2>2, <2>3 DEF Known
<1>4. ReplyKnown'
  <2> SUFFICES ASSUME NEW u \in Tabs, NEW c \in Cards,
                      pc'[u] = "replied", replyEpoch'[u] = epoch', reply'[u][c] # NoCard
               PROVE  Known(c, reply[u][c])'
    BY DEF ReplyKnown
  <2>1. reply'[u][c] \in Card
    BY DEF TypeOK, Replica
  <2>2. PICK x \in Card : x = reply'[u][c]
    BY <2>1
  <2>3. Known(c, x)'
    <3>1. CASE u = t
      BY <1>1, <2>2, <3>1, SyncStateKnows DEF IInv, TypeOK
    <3>2. CASE u # t
      <4>1. pc[u] = "replied" /\ replyEpoch[u] = epoch /\ reply[u][c] = x
        BY <1>1, <2>2, <3>2 DEF IInv, TypeOK
      <4>2. Known(c, x)
        BY <4>1, SyncAssumption DEF IInv, ReplyKnown
      <4>3. QED
        BY <4>2, SyncStateKnows DEF IInv
    <3>3. QED
      BY <3>1, <3>2
  <2>4. QED
    BY <2>2, <2>3 DEF Known
<1>5. ReplyCoversSent'
  <2> SUFFICES ASSUME NEW u \in Tabs, NEW c \in Cards,
                      pc'[u] = "replied", reply'[u][c] # NoCard, sent[u][c] # NoCard
               PROVE  Covers(reply'[u][c], sent[u][c])
    BY <1>1 DEF ReplyCoversSent
  <2>1. CASE u = t
    <3>1. reply'[u][c] = rows'[c]
      BY <1>1, <2>1 DEF IInv, TypeOK
    <3>2. QED
      BY <2>1, <3>1, SyncStateKnows DEF IInv
  <2>2. CASE u # t
    BY <1>1, <2>2 DEF IInv, TypeOK, ReplyCoversSent
  <2>3. QED
    BY <2>1, <2>2
<1>6. QED
  BY <1>2, <1>3, <1>4, <1>5 DEF IInv

\* The answer applied to the device.
LEMMA MergeIntoKeepsIInv ==
  ASSUME IInv, TypeOK', NEW t \in Tabs, MergeInto(t)
  PROVE  IInv'
<1> DEFINE s == StoreOf[t]
<1>1. s \in Stores /\ UNCHANGED server
  BY SyncAssumption DEF MergeInto
<1>2. ReplyKnown' /\ ReplyCoversSent' /\ \A u \in Tabs : replyEpoch'[u] <= epoch'
  BY <1>1, DoneKeepsReplies DEF MergeInto
<1>3. /\ \A r \in Stores \ {s} : /\ local'[r] = local[r] /\ dirty'[r] = dirty[r]
                                 /\ storeEpoch'[r] = storeEpoch[r]
      /\ \A c \in Cards : local'[s][c] = MergedCopy(t, c)
      /\ dirty'[s] = DirtyAfterMerge(t)
      /\ storeEpoch'[s] = replyEpoch[t]
  BY <1>1 DEF MergeInto, IInv, TypeOK
<1> HIDE DEF s
<1>4. EpochsPast'
  BY <1>1, <1>2, <1>3 DEF IInv, EpochsPast, server
<1>5. CleanIsCovered'
  <2> SUFFICES ASSUME NEW r \in Stores, NEW c \in Cards,
                      storeEpoch'[r] = epoch', local'[r][c] # NoCard, c \notin dirty'[r]
               PROVE  Known(c, local[r][c])'
    BY DEF CleanIsCovered
  <2>1. CASE r = s
    <3>1. Known(c, MergedCopy(t, c))
      BY <1>1, <1>3, <2>1, MergeIntoKnows DEF server
    <3>2. QED
      BY <1>1, <1>3, <2>1, <3>1 DEF Known, server
  <2>2. CASE r # s
    <3>1. Known(c, local[r][c])
      BY <1>1, <1>3, <2>2 DEF IInv, CleanIsCovered, server
    <3>2. QED
      BY <1>1, <1>3, <2>2, <3>1 DEF Known, server
  <2>3. QED
    BY <2>1, <2>2
<1>6. QED
  BY <1>2, <1>4, <1>5 DEF IInv

-----------------------------------------------------------------------------
\* It holds at the start.
LEMMA InitIInv == Init => IInv
<1> SUFFICES ASSUME Init PROVE IInv
  OBVIOUS
<1>1. TypeOK
  BY SyncAssumption DEF Init, TypeOK, Replica, Empty, Epochs
<1>2. EpochsPast
  BY DEF Init, EpochsPast
<1>3. CleanIsCovered
  BY DEF Init, CleanIsCovered, Empty
<1>4. ReplyKnown /\ ReplyCoversSent
  BY DEF Init, ReplyKnown, ReplyCoversSent
<1>5. QED
  BY <1>1, <1>2, <1>3, <1>4 DEF IInv

\* The invariant holds in every state.
LEMMA IInvHolds == Spec => []IInv
<1>1. Init => IInv
  BY InitIInv
<1>2. IInv /\ TypeOK' /\ [Next]_vars => IInv'
  <2> SUFFICES ASSUME IInv, TypeOK', [Next]_vars PROVE IInv'
    OBVIOUS
  <2>1. ASSUME NEW t \in Tabs, Edit(t) PROVE IInv'
    <3>1. ImportBackup(t) \/ \E c \in Cards : \E card : PutDirty(StoreOf[t], c, card)
      BY <2>1 DEF Edit, EditCard, SaveCard, SaveReview, RemoveCard, UndoRemove
    <3>2. QED
      BY <3>1, EditKeepsIInv, ImportKeepsIInv, SyncAssumption
  <2>2. ASSUME NEW t \in Tabs, Refresh(t) PROVE IInv'
    BY <2>2 DEF Refresh, IInv, EpochsPast, CleanIsCovered, ReplyKnown, ReplyCoversSent,
                Known, device, net, server
  <2>3. ASSUME NEW t \in Tabs, ExportAll(t) PROVE IInv'
    <3>1. /\ UNCHANGED <<device, server, reply, replyEpoch>>
          /\ pc' = [pc EXCEPT ![t] = "sent"]
          /\ \A u \in Tabs \ {t} : sent'[u] = sent[u]
      BY <2>3 DEF ExportAll, IInv, TypeOK
    <3>2. EpochsPast' /\ CleanIsCovered'
      BY <3>1 DEF IInv, EpochsPast, CleanIsCovered, Known, device, server
    <3>3. ReplyKnown'
      BY <3>1 DEF IInv, TypeOK, ReplyKnown, Known, server
    <3>4. ReplyCoversSent'
      BY <3>1 DEF IInv, TypeOK, ReplyCoversSent
    <3>5. QED
      BY <3>2, <3>3, <3>4 DEF IInv
  <2>4. ASSUME NEW t \in Tabs, SyncState(t) PROVE IInv'
    BY <2>4, SyncStateKeepsIInv
  <2>5. ASSUME NEW t \in Tabs, RefuseTooMany(t) \/ LoseRequest(t) PROVE IInv'
    BY <2>5, AbortKeepsIInv DEF RefuseTooMany, LoseRequest
  <2>6. ASSUME NEW t \in Tabs, MergeInto(t) PROVE IInv'
    BY <2>6, MergeIntoKeepsIInv
  <2>7. CASE AgeTombstones
    BY <2>7 DEF AgeTombstones, IInv, EpochsPast, CleanIsCovered, ReplyKnown,
                ReplyCoversSent, Known, device, net
  <2>8. CASE LoseServerCopy
    <3>1. epoch' = epoch + 1 /\ UNCHANGED <<device, net>> /\ epoch \in Nat
      BY <2>8, SyncAssumption DEF LoseServerCopy, IInv, TypeOK
    <3>2. /\ \A s \in Stores : storeEpoch[s] <= epoch /\ storeEpoch[s] \in Nat
          /\ \A t \in Tabs : replyEpoch[t] <= epoch /\ replyEpoch[t] \in Nat
      BY SyncAssumption DEF IInv, TypeOK, EpochsPast, Epochs
    <3>3. EpochsPast' /\ CleanIsCovered' /\ ReplyKnown' /\ ReplyCoversSent'
      BY <3>1, <3>2 DEF IInv, EpochsPast, CleanIsCovered, ReplyKnown, ReplyCoversSent,
                        device, net
    <3>4. QED
      BY <3>3 DEF IInv
  <2>9. CASE UNCHANGED vars
    BY <2>9 DEF vars, IInv, EpochsPast, CleanIsCovered, ReplyKnown, ReplyCoversSent,
                Known, device, net, server
  <2>10. QED
    BY <2>1, <2>2, <2>3, <2>4, <2>5, <2>6, <2>7, <2>8, <2>9 DEF Next, SyncStep
<1>3. QED
  BY <1>1, <1>2, TypeCorrect, PTL DEF Spec

\* No device ever holds a clean card that the server of its epoch neither has
\* nor has purged, for any number of devices, tabs, cards and failures.
THEOREM CleanCovered == Spec => []CleanIsCovered
<1>1. IInv => CleanIsCovered
  BY DEF IInv
<1>2. QED
  BY <1>1, IInvHolds, PTL
-----------------------------------------------------------------------------
(***************************************************************************)
(* While the server keeps its copy, or every device has one tab, nothing   *)
(* but a purged tombstone makes a card vanish from a device.  The answer   *)
(* that drops a card must come from a server that purged it, so what a     *)
(* request in flight sends is part of the invariant too.                   *)
(***************************************************************************)
OneTab == \A t, u \in Tabs : StoreOf[t] = StoreOf[u] => t = u

\* What the theorem asks for. A second tab can store the epoch of a server that
\* lost its copy, and the first then mistakes its answer for the old server's.
Steady == OneTab \/ MaxEpoch = 1


\* A device that never had an answer has nothing clean.
NewStoreDirty ==
  \A s \in Stores : storeEpoch[s] = 0 => Held(local[s]) \subseteq dirty[s]

\* An answer carries an epoch of the server.
ReplyDated ==
  \A t \in Tabs : pc[t] = "replied" => replyEpoch[t] > 0

\* A request sends c clean.
SendsClean(t, c) == sent[t][c] # NoCard /\ c \notin sentDirty[t]

\* The device of a card sent clean has an epoch, and if it is that of the server
\* the server knows the card.
SentKnown ==
  \A t \in Tabs, c \in Cards :
    pc[t] # "idle" /\ SendsClean(t, c) =>
      /\ storeEpoch[StoreOf[t]] # 0
      /\ pc[t] = "sent" /\ storeEpoch[StoreOf[t]] = epoch => Known(c, sent[t][c])

\* A sent card missing from the answer was purged by the server that answered, in
\* that version or a later, unless it was sent clean and that server is another.
MissingPurged ==
  \A t \in Tabs, c \in Cards :
    pc[t] = "replied" /\ sent[t][c] # NoCard /\ reply[t][c] = NoCard
    /\ (c \in sentDirty[t] \/ storeEpoch[StoreOf[t]] = replyEpoch[t])
      => sent[t][c].at <= purged[replyEpoch[t]][c]

KInv == IInv /\ NewStoreDirty /\ ReplyDated /\ SentKnown /\ MissingPurged

\* What a write to one card of one device leaves stored everywhere.
LEMMA PutDirtyStores ==
  ASSUME TypeOK, NEW s \in Stores, NEW c \in Cards, NEW card,
         PutDirty(s, c, card)
  PROVE  \A r \in Stores : /\ dirty[r] \subseteq dirty'[r]
                           /\ \A b \in Cards : b \in dirty'[r] \/ local'[r][b] = local[r][b]
<1>1. local[s] \in Replica /\ local \in [Stores -> Replica] /\ dirty \in [Stores -> SUBSET Cards]
  BY DEF TypeOK
<1>2. /\ local' = [local EXCEPT ![s] = [local[s] EXCEPT ![c] = card]]
      /\ dirty' = [dirty EXCEPT ![s] = dirty[s] \cup {c}]
  BY DEF PutDirty
<1>3. QED
  BY <1>1, <1>2 DEF Replica

\* A transaction purges nothing twice earlier than before, and a pushed card
\* missing from its rows was purged by it, if it was dirty or the server knew it.
LEMMA SyncStatePurges ==
  ASSUME TypeOK, NEW t \in Tabs, SyncState(t), NEW c \in Cards
  PROVE  /\ purged[epoch][c] \in Nat /\ purged'[epoch][c] \in Nat
         /\ purged[epoch][c] <= purged'[epoch][c]
         /\ sent[t][c] # NoCard /\ rows'[c] = NoCard
              /\ (c \in sentDirty[t] \/ Known(c, sent[t][c]))
              => sent[t][c].at <= purged'[epoch][c]
<1> DEFINE merged == SyncBatch(t)
           m == SyncCard(rows[c], sent[t][c], c \in sentDirty[t])
<1>1. rows[c] \in Slot /\ sent[t][c] \in Slot /\ (c \in sentDirty[t]) \in BOOLEAN
  BY DEF TypeOK, Replica, Slot
<1>2. merged[c] = m /\ m \in Slot
  BY <1>1, SyncCardType DEF SyncBatch
<1>3. epoch \in Epochs
  BY DEF TypeOK, Epochs
<1>4. purged[epoch][c] \in Nat
  BY <1>3 DEF TypeOK
<1>5. purged'[epoch][c] = IF c \in Expired(merged)
                            THEN Latest(purged[epoch][c], merged[c].at) ELSE purged[epoch][c]
  BY <1>3 DEF SyncState, TypeOK
<1>6. rows'[c] = IF c \in Expired(merged) THEN NoCard ELSE m
  BY <1>2 DEF SyncState, Purge
<1>7. c \in Expired(merged) => m \in Card
  BY <1>2 DEF Expired, Held, Slot
<1>8. /\ purged'[epoch][c] \in Nat /\ purged[epoch][c] <= purged'[epoch][c]
      /\ c \in Expired(merged) => m.at \in Nat /\ m.at <= purged'[epoch][c]
  BY <1>2, <1>4, <1>5, <1>7 DEF Latest, Card
<1>9. ASSUME sent[t][c] # NoCard, rows'[c] = NoCard,
             c \in sentDirty[t] \/ Known(c, sent[t][c])
      PROVE  sent[t][c].at <= purged'[epoch][c]
  <2>1. sent[t][c] \in Card
    BY <1>1, <1>9 DEF Slot
  <2>2. CASE m # NoCard
    <3>1. c \in Expired(merged)
      BY <1>6, <1>9, <2>2
    <3>2. m \in Card /\ Covers(m, sent[t][c])
      BY <1>1, <1>2, <1>9, <2>2, SyncCardCovers DEF Slot
    <3>3. sent[t][c].at <= m.at
      BY <2>1, <3>2 DEF Covers, Card
    <3>4. sent[t][c].at \in Nat
      BY <2>1 DEF Card
    <3> HIDE DEF m, merged
    <3>5. QED
      BY <1>8, <3>1, <3>3, <3>4
  <2>3. CASE m = NoCard
    <3>1. rows[c] = NoCard
      BY <1>1, <2>3, SyncCardKeeps
    <3>2. c \notin sentDirty[t]
      BY <1>9, <2>1, <2>3, <3>1, SyncAssumption DEF SyncCard
    <3>3. sent[t][c].at <= purged[epoch][c] /\ sent[t][c].at \in Nat
      BY <1>9, <2>1, <3>1, <3>2 DEF Known, Card
    <3> HIDE DEF m, merged
    <3>4. QED
      BY <1>4, <1>8, <3>3
  <2>4. QED
    BY <2>2, <2>3
<1>10. QED
  BY <1>4, <1>8, <1>9

\* An edit makes what it writes dirty, and no request is touched.
LEMMA EditKeepsKInv ==
  ASSUME KInv, IInv', NEW t \in Tabs, Edit(t)
  PROVE  KInv' /\ edits' # edits
<1>1. UNCHANGED <<storeEpoch, net, server>> /\ edits' # edits /\ NewStoreDirty'
  <2>1. CASE EditCard(t)
    <3>1. PICK c \in Cards : \E card : PutDirty(StoreOf[t], c, card)
      BY <2>1 DEF EditCard, SaveCard, SaveReview, RemoveCard, UndoRemove
    <3>2. \A r \in Stores : /\ dirty[r] \subseteq dirty'[r]
                            /\ \A b \in Cards : b \in dirty'[r] \/ local'[r][b] = local[r][b]
      BY <3>1, PutDirtyStores, SyncAssumption DEF KInv, IInv
    <3>3. UNCHANGED <<storeEpoch, net, server>> /\ edits' = edits + 1 /\ edits \in Nat
      BY <3>1 DEF PutDirty, KInv, IInv, TypeOK
    <3>4. QED
      BY <3>2, <3>3 DEF KInv, NewStoreDirty, Held
  <2>2. CASE ImportBackup(t)
    <3>1. /\ UNCHANGED <<storeEpoch, net, server>>
          /\ \A r \in Stores : \/ local'[r] = local[r] /\ dirty'[r] = dirty[r]
                               \/ dirty'[r] = Held(local'[r])
      BY <2>2, ImportStores DEF KInv, IInv
    <3>2. edits' = edits + 1 /\ edits \in Nat
      BY <2>2 DEF ImportBackup, KInv, IInv, TypeOK
    <3>3. QED
      BY <3>1, <3>2 DEF KInv, NewStoreDirty
  <2>3. QED
    BY <2>1, <2>2 DEF Edit
<1>2. ReplyDated' /\ SentKnown' /\ MissingPurged'
  BY <1>1 DEF KInv, ReplyDated, SentKnown, SendsClean, MissingPurged, Known, net, server
<1>3. QED
  BY <1>1, <1>2 DEF KInv

\* A device keeps its epoch, or gets its first.
EpochKept(s) == storeEpoch'[s] = storeEpoch[s] \/ (storeEpoch[s] = 0 /\ storeEpoch'[s] # 0)

\* What a request that is over leaves of the others.
LEMMA DoneKeepsRequests ==
  ASSUME KInv, NEW t \in Tabs, Done(t), UNCHANGED server, \A u \in Tabs \ {t} : EpochKept(StoreOf[u])
  PROVE  ReplyDated' /\ SentKnown' /\ MissingPurged'
<1>1. \A u \in Tabs \ {t} :
        /\ pc'[u] = pc[u] /\ sent'[u] = sent[u] /\ sentDirty'[u] = sentDirty[u]
        /\ reply'[u] = reply[u] /\ replyEpoch'[u] = replyEpoch[u]
  BY DEF Done, KInv, IInv, TypeOK
<1>2. pc'[t] = "idle"
  BY DEF Done, KInv, IInv, TypeOK
<1>3. ReplyDated'
  BY <1>1, <1>2 DEF KInv, ReplyDated
<1>4. ASSUME NEW u \in Tabs, NEW c \in Cards, pc'[u] # "idle", SendsClean(u, c)'
      PROVE  storeEpoch[StoreOf[u]] # 0 /\ storeEpoch'[StoreOf[u]] = storeEpoch[StoreOf[u]]
  <2>1. u # t /\ pc[u] # "idle" /\ SendsClean(u, c)
    BY <1>1, <1>2, <1>4 DEF SendsClean
  <2>2. QED
    BY <2>1 DEF EpochKept, KInv, SentKnown
<1>5. SentKnown'
  <2> SUFFICES ASSUME NEW u \in Tabs, NEW c \in Cards, pc'[u] # "idle", SendsClean(u, c)'
               PROVE  /\ storeEpoch'[StoreOf[u]] # 0
                      /\ pc'[u] = "sent" /\ storeEpoch'[StoreOf[u]] = epoch' => Known(c, sent[u][c])'
    BY DEF SentKnown
  <2>1. storeEpoch[StoreOf[u]] # 0 /\ storeEpoch'[StoreOf[u]] = storeEpoch[StoreOf[u]]
    BY <1>4
  <2>2. u # t /\ pc[u] = pc'[u] /\ SendsClean(u, c) /\ sent'[u] = sent[u] /\ epoch' = epoch
    BY <1>1, <1>2 DEF SendsClean, server
  <2>3. pc[u] = "sent" /\ storeEpoch[StoreOf[u]] = epoch => Known(c, sent[u][c])
    BY <2>2 DEF KInv, SentKnown
  <2>4. QED
    BY <2>1, <2>2, <2>3 DEF Known, server
<1>6. MissingPurged'
  <2> SUFFICES ASSUME NEW u \in Tabs, NEW c \in Cards,
                      pc'[u] = "replied", sent'[u][c] # NoCard, reply'[u][c] = NoCard,
                      c \in sentDirty'[u] \/ storeEpoch'[StoreOf[u]] = replyEpoch'[u]
               PROVE  sent'[u][c].at <= purged'[replyEpoch'[u]][c]
    BY DEF MissingPurged
  <2>1. /\ u # t /\ pc[u] = "replied" /\ sent'[u] = sent[u] /\ reply[u][c] = NoCard
        /\ sentDirty'[u] = sentDirty[u] /\ replyEpoch'[u] = replyEpoch[u]
    BY <1>1, <1>2
  <2>2. c \in sentDirty[u] \/ storeEpoch[StoreOf[u]] = replyEpoch[u]
    BY <1>4, <2>1 DEF SendsClean
  <2>3. QED
    BY <2>1, <2>2 DEF KInv, MissingPurged, server
<1>7. QED
  BY <1>3, <1>5, <1>6

\* What a device exports clean is what its last answer said.
LEMMA ExportKeepsKInv ==
  ASSUME KInv, IInv', NEW t \in Tabs, ExportAll(t)
  PROVE  KInv'
<1> DEFINE s == StoreOf[t]
<1>1. s \in Stores /\ pc[t] = "idle"
  BY SyncAssumption DEF ExportAll
<1>2. /\ UNCHANGED <<device, server, reply, replyEpoch>>
      /\ pc'[t] = "sent" /\ sent'[t] = local[s] /\ sentDirty'[t] = dirty[s]
      /\ \A u \in Tabs \ {t} : pc'[u] = pc[u] /\ sent'[u] = sent[u] /\ sentDirty'[u] = sentDirty[u]
  BY DEF ExportAll, KInv, IInv, TypeOK
<1>3. NewStoreDirty' /\ ReplyDated'
  BY <1>2 DEF KInv, NewStoreDirty, ReplyDated, device
<1>4. MissingPurged'
  BY <1>2 DEF KInv, MissingPurged, server, device
<1>5. SentKnown'
  <2> SUFFICES ASSUME NEW u \in Tabs, NEW c \in Cards, pc'[u] # "idle", SendsClean(u, c)'
               PROVE  /\ storeEpoch[StoreOf[u]] # 0
                      /\ pc'[u] = "sent" /\ storeEpoch[StoreOf[u]] = epoch => Known(c, sent'[u][c])
    BY <1>2 DEF SentKnown, Known, server, device
  <2>1. CASE u = t
    <3>1. local[s][c] # NoCard /\ c \notin dirty[s] /\ sent'[u][c] = local[s][c]
      BY <1>2, <2>1 DEF SendsClean
    <3>2. storeEpoch[s] # 0
      BY <1>1, <3>1 DEF KInv, NewStoreDirty, Held
    <3>3. QED
      BY <1>1, <2>1, <3>1, <3>2 DEF KInv, IInv, CleanIsCovered
  <2>2. CASE u # t
    <3>1. pc[u] = pc'[u] /\ sent'[u] = sent[u] /\ SendsClean(u, c)
      BY <1>2, <2>2 DEF SendsClean
    <3>2. QED
      BY <3>1 DEF KInv, SentKnown
  <2>3. QED
    BY <2>1, <2>2
<1>6. QED
  BY <1>3, <1>4, <1>5 DEF KInv

\* The transaction purges what its answer leaves out.
LEMMA SyncStateKeepsKInv ==
  ASSUME KInv, IInv', NEW t \in Tabs, SyncState(t)
  PROVE  KInv'
<1>1. /\ UNCHANGED <<local, dirty, storeEpoch, sent, sentDirty, epoch>>
      /\ pc[t] = "sent" /\ pc'[t] = "replied" /\ reply'[t] = rows' /\ replyEpoch'[t] = epoch
      /\ \A u \in Tabs \ {t} : pc'[u] = pc[u] /\ reply'[u] = reply[u] /\ replyEpoch'[u] = replyEpoch[u]
      /\ \A e \in Epochs \ {epoch} : purged'[e] = purged[e]
  BY DEF SyncState, device, KInv, IInv, TypeOK
<1>2. NewStoreDirty'
  BY <1>1 DEF KInv, NewStoreDirty
<1>3. ReplyDated'
  <2>1. epoch > 0
    BY SyncAssumption DEF KInv, IInv, TypeOK
  <2>2. QED
    BY <1>1, <2>1 DEF KInv, ReplyDated
<1>4. SentKnown'
  <2> SUFFICES ASSUME NEW u \in Tabs, NEW c \in Cards, pc'[u] # "idle", SendsClean(u, c)
               PROVE  /\ storeEpoch[StoreOf[u]] # 0
                      /\ pc'[u] = "sent" /\ storeEpoch[StoreOf[u]] = epoch => Known(c, sent[u][c])'
    BY <1>1 DEF SentKnown, SendsClean
  <2>1. pc[u] # "idle" /\ storeEpoch[StoreOf[u]] # 0
    BY <1>1 DEF KInv, SentKnown
  <2>2. ASSUME pc'[u] = "sent", storeEpoch[StoreOf[u]] = epoch PROVE Known(c, sent[u][c])'
    <3>1. pc[u] = "sent"
      BY <1>1, <2>2
    <3>2. sent[u][c] \in Card /\ Known(c, sent[u][c])
      BY <2>2, <3>1 DEF KInv, IInv, TypeOK, Replica, SentKnown, SendsClean
    <3>3. PICK x \in Card : x = sent[u][c]
      BY <3>2
    <3>4. Known(c, x)'
      BY <3>2, <3>3, SyncStateKnows DEF KInv, IInv
    <3>5. QED
      BY <1>1, <3>3, <3>4 DEF Known
  <2>3. QED
    BY <2>1, <2>2
<1>5. MissingPurged'
  <2> SUFFICES ASSUME NEW u \in Tabs, NEW c \in Cards,
                      pc'[u] = "replied", sent[u][c] # NoCard, reply'[u][c] = NoCard,
                      c \in sentDirty[u] \/ storeEpoch[StoreOf[u]] = replyEpoch'[u]
               PROVE  sent[u][c].at <= purged'[replyEpoch'[u]][c]
    BY <1>1 DEF MissingPurged
  <2>1. CASE u = t
    <3>1. rows'[c] = NoCard
      BY <1>1, <2>1
    <3>2. c \in sentDirty[t] \/ Known(c, sent[t][c])
      BY <1>1, <2>1 DEF KInv, SentKnown, SendsClean
    <3>3. QED
      BY <1>1, <2>1, <3>1, <3>2, SyncStatePurges DEF KInv, IInv
  <2>2. CASE u # t
    <3>1. pc[u] = "replied" /\ reply[u][c] = NoCard /\ replyEpoch'[u] = replyEpoch[u]
      BY <1>1, <2>2
    <3>2. sent[u][c].at <= purged[replyEpoch[u]][c]
      BY <3>1 DEF KInv, MissingPurged
    <3>3. replyEpoch[u] \in Epochs /\ sent[u][c].at \in Nat
      BY DEF KInv, IInv, TypeOK, Replica, Card
    <3>4. CASE replyEpoch[u] = epoch
      <4>1. /\ purged[epoch][c] \in Nat /\ purged'[epoch][c] \in Nat
            /\ purged[epoch][c] <= purged'[epoch][c]
        BY SyncStatePurges DEF KInv, IInv
      <4>2. QED
        BY <3>1, <3>2, <3>3, <3>4, <4>1
    <3>5. CASE replyEpoch[u] # epoch
      BY <1>1, <3>1, <3>2, <3>3, <3>5
    <3>6. QED
      BY <3>4, <3>5
  <2>3. QED
    BY <2>1, <2>2
<1>6. QED
  BY <1>2, <1>3, <1>4, <1>5 DEF KInv

\* An applied answer takes away only what was purged.
LEMMA MergeIntoKeepsKInv ==
  ASSUME Steady, KInv, IInv', NEW t \in Tabs, MergeInto(t)
  PROVE  /\ KInv'
         /\ \A s \in Stores, c \in Cards :
              local[s][c] # NoCard /\ local'[s][c] = NoCard
                => local[s][c].at <= purged[storeEpoch'[s]][c]
<1> DEFINE s == StoreOf[t]
<1>1. s \in Stores /\ UNCHANGED server /\ pc[t] = "replied"
  BY SyncAssumption DEF MergeInto
<1>2. /\ \A r \in Stores \ {s} : /\ local'[r] = local[r] /\ dirty'[r] = dirty[r]
                                 /\ storeEpoch'[r] = storeEpoch[r]
      /\ \A c \in Cards : local'[s][c] = MergedCopy(t, c)
      /\ storeEpoch'[s] = replyEpoch[t]
  BY <1>1 DEF MergeInto, KInv, IInv, TypeOK
<1> HIDE DEF s
<1>3. replyEpoch[t] # 0 /\ (MaxEpoch = 1 => replyEpoch[t] = 1 /\ storeEpoch[s] \in {0, 1})
  <2>1. replyEpoch[t] \in 0..MaxEpoch /\ storeEpoch[s] \in 0..MaxEpoch /\ replyEpoch[t] > 0
    BY <1>1 DEF KInv, IInv, TypeOK, Epochs, ReplyDated
  <2>2. QED
    BY <2>1
<1>4. ReplyDated' /\ SentKnown' /\ MissingPurged'
  <2>1. ASSUME NEW u \in Tabs \ {t} PROVE EpochKept(StoreOf[u])
    <3>1. StoreOf[u] \in Stores
      BY SyncAssumption
    <3>2. CASE OneTab
      <4>1. StoreOf[u] # s
        BY <3>2 DEF OneTab, s
      <4>2. QED
        BY <1>2, <3>1, <4>1 DEF EpochKept
    <3>3. CASE MaxEpoch = 1
      BY <1>2, <1>3, <3>1, <3>3 DEF EpochKept
    <3>4. QED
      BY <3>2, <3>3 DEF Steady
  <2>2. QED
    BY <1>1, <2>1, DoneKeepsRequests DEF MergeInto
<1>5. NewStoreDirty'
  <2>1. storeEpoch'[s] # 0
    BY <1>2, <1>3
  <2>2. QED
    BY <1>2, <2>1 DEF KInv, NewStoreDirty, Held
<1>6. ASSUME NEW r \in Stores, NEW c \in Cards, local[r][c] # NoCard, local'[r][c] = NoCard
      PROVE  local[r][c].at <= purged[storeEpoch'[r]][c]
  <2>1. r = s
    BY <1>2, <1>6
  <2>2. MergedCopy(t, c) = NoCard /\ local[s][c] # NoCard
    BY <1>2, <1>6, <2>1
  <2>3. reply[t][c] \in Slot /\ local[s][c] \in Card
    BY <1>1, <2>2 DEF KInv, IInv, TypeOK, Replica, Slot
  <2>4. reply[t][c] = NoCard
    <3>1. reply[t][c] \in Card => MergeCard(local[s][c], reply[t][c]) \in Card
      BY <2>3, MergeType
    <3>2. QED
      BY <2>2, <2>3, <3>1, SyncAssumption DEF MergedCopy, Slot, s
  <2>5. Settled(t, c)
    BY <2>2, <2>4 DEF MergedCopy, s
  <2>6. sent[t][c] # NoCard /\ local[s][c].at = sent[t][c].at
    BY <2>5 DEF Settled, SameVersion, s
  <2>7. c \in sentDirty[t] \/ storeEpoch[s] = replyEpoch[t]
    <3>1. storeEpoch[s] = 0 => c \in sentDirty[t]
      BY <1>1, <2>6 DEF KInv, SentKnown, SendsClean, s
    <3>2. storeEpoch[s] # 0 => storeEpoch[s] = replyEpoch[t]
      BY <2>5 DEF Settled, Mismatch, s
    <3>3. QED
      BY <3>1, <3>2
  <2>8. sent[t][c].at <= purged[replyEpoch[t]][c]
    BY <1>1, <2>4, <2>6, <2>7 DEF KInv, MissingPurged, s
  <2>9. QED
    BY <1>2, <2>1, <2>6, <2>8
<1>7. QED
  BY <1>4, <1>5, <1>6 DEF KInv

\* A card leaves a device, but for an import, only because the server that answers
\* purged a tombstone of it that was no older: however often the server loses its
\* copy where every device has one tab, and for any number of tabs while it keeps
\* it; for any number of devices, cards, edits and failed requests (mergeInto's
\* deletes).
THEOREM OnlyPurgedVanishes ==
  ASSUME Steady
  PROVE  Spec => OnlyPurgedVanish
<1>1. Init => KInv
  <2> SUFFICES ASSUME Init PROVE KInv
    OBVIOUS
  <2>1. IInv
    BY InitIInv
  <2>2. NewStoreDirty
    BY DEF Init, NewStoreDirty, Held, Empty
  <2>3. ReplyDated /\ SentKnown /\ MissingPurged
    BY DEF Init, ReplyDated, SentKnown, SendsClean, MissingPurged, Empty
  <2>4. QED
    BY <2>1, <2>2, <2>3 DEF KInv
<1>2. ASSUME KInv, IInv', [Next]_vars
      PROVE  /\ KInv'
             /\ \A s \in Stores, c \in Cards :
                  local[s][c] # NoCard /\ local'[s][c] = NoCard /\ edits' = edits
                    => local[s][c].at <= purged[storeEpoch'[s]][c]
  <2> USE <1>2
  <2>1. ASSUME NEW t \in Tabs, Edit(t)
        PROVE  KInv' /\ edits' # edits
    BY <2>1, EditKeepsKInv
  <2>2. ASSUME NEW t \in Tabs, Refresh(t)
        PROVE  KInv' /\ UNCHANGED local
    BY <2>2 DEF Refresh, KInv, NewStoreDirty, ReplyDated, SentKnown, SendsClean, MissingPurged, Known,
                device, net, server
  <2>3. ASSUME NEW t \in Tabs, ExportAll(t)
        PROVE  KInv' /\ UNCHANGED local
    BY <2>3, ExportKeepsKInv DEF ExportAll, device
  <2>4. ASSUME NEW t \in Tabs, SyncState(t)
        PROVE  KInv' /\ UNCHANGED local
    BY <2>4, SyncStateKeepsKInv DEF SyncState, device
  <2>5. ASSUME NEW t \in Tabs, RefuseTooMany(t) \/ LoseRequest(t)
        PROVE  KInv' /\ UNCHANGED local
    <3>1. Done(t) /\ UNCHANGED <<device, server>>
      BY <2>5 DEF RefuseTooMany, LoseRequest
    <3>2. ReplyDated' /\ SentKnown' /\ MissingPurged'
      BY <3>1, DoneKeepsRequests DEF EpochKept, device
    <3>3. QED
      BY <3>1, <3>2 DEF KInv, NewStoreDirty, device
  <2>6. ASSUME NEW t \in Tabs, MergeInto(t)
        PROVE  /\ KInv'
               /\ \A s \in Stores, c \in Cards :
                    local[s][c] # NoCard /\ local'[s][c] = NoCard /\ edits' = edits
                      => local[s][c].at <= purged[storeEpoch'[s]][c]
    BY <2>6, MergeIntoKeepsKInv
  <2>7. CASE AgeTombstones
    BY <2>7 DEF AgeTombstones, KInv, NewStoreDirty, ReplyDated, SentKnown, SendsClean, MissingPurged,
                Known, device, net
  <2>8. CASE LoseServerCopy
    <3>1. /\ UNCHANGED <<device, net, horizon, purged>> /\ epoch' = epoch + 1
          /\ epoch \in Nat
      BY <2>8, SyncAssumption DEF LoseServerCopy, KInv, IInv, TypeOK
    <3>2. \A s \in Stores : storeEpoch[s] # epoch'
      BY <3>1 DEF KInv, IInv, TypeOK, Epochs, EpochsPast
    <3>3. \A t \in Tabs : StoreOf[t] \in Stores
      BY SyncAssumption
    <3>4. SentKnown'
      BY <3>1, <3>2, <3>3 DEF KInv, SentKnown, SendsClean, net, device
    <3>5. NewStoreDirty' /\ ReplyDated' /\ MissingPurged'
      BY <3>1 DEF KInv, NewStoreDirty, ReplyDated, MissingPurged, net, device
    <3>6. QED
      BY <3>1, <3>4, <3>5 DEF KInv, device
  <2>9. CASE UNCHANGED vars
    BY <2>9 DEF vars, KInv, NewStoreDirty, ReplyDated, SentKnown, SendsClean, MissingPurged, Known,
                device, net, server
  <2>10. ASSUME UNCHANGED local
         PROVE  \A s \in Stores, c \in Cards : local'[s][c] = NoCard => local[s][c] = NoCard
    BY <2>10
  <2>11. UNCHANGED vars \/ AgeTombstones \/ LoseServerCopy => UNCHANGED local
    BY DEF vars, AgeTombstones, LoseServerCopy, device
  <2>12. QED
    BY <2>1, <2>2, <2>3, <2>4, <2>5, <2>6, <2>7, <2>8, <2>9, <2>10, <2>11 DEF Next, SyncStep
<1>3. KInv /\ IInv' /\ [Next]_vars
        => [\A s \in Stores, c \in Cards :
              local[s][c] # NoCard /\ local'[s][c] = NoCard /\ edits' = edits
                => local[s][c].at <= purged[storeEpoch'[s]][c]]_vars
  BY <1>2
<1>4. KInv /\ IInv' /\ [Next]_vars => KInv'
  BY <1>2
<1>5. QED
  BY <1>1, <1>3, <1>4, IInvHolds, PTL DEF Spec, OnlyPurgedVanish

-----------------------------------------------------------------------------
(***************************************************************************)
(* With one tab per device no step of a sync makes a clean card dirty: the *)
(* clean cards of a device are the ones its request took, since only its   *)
(* own tab changes them. A device that never had an answer has none.       *)
(***************************************************************************)
CleanIsSent ==
  \A t \in Tabs, c \in Cards :
    pc[t] # "idle" /\ local[StoreOf[t]][c] # NoCard /\ c \notin dirty[StoreOf[t]]
      => sent[t][c] = local[StoreOf[t]][c]

QInv == TypeOK /\ CleanIsSent /\ NewStoreDirty /\ ReplyDated

\* What an edit and an import leave clean was so before.
LEMMA EditStores ==
  ASSUME TypeOK, NEW t \in Tabs, Edit(t)
  PROVE  /\ UNCHANGED <<storeEpoch, net, server>> /\ edits' # edits
         /\ \A r \in Stores, b \in Cards : local'[r][b] # NoCard /\ b \notin dirty'[r]
              => b \notin dirty[r] /\ local'[r][b] = local[r][b]
<1>1. ASSUME NEW s \in Stores, NEW c \in Cards, NEW card, PutDirty(s, c, card)
      PROVE  /\ UNCHANGED <<storeEpoch, net, server>> /\ edits' # edits
             /\ \A r \in Stores, b \in Cards : b \notin dirty'[r] => b \notin dirty[r] /\ local'[r][b] = local[r][b]
  <2>1. /\ local' = [local EXCEPT ![s] = [local[s] EXCEPT ![c] = card]]
        /\ dirty' = [dirty EXCEPT ![s] = dirty[s] \cup {c}]
        /\ edits' = edits + 1 /\ edits \in Nat /\ UNCHANGED <<storeEpoch, net, server>>
    BY <1>1 DEF PutDirty, TypeOK
  <2>2. local[s] \in [Cards -> Slot] /\ local \in [Stores -> Replica] /\ dirty \in [Stores -> SUBSET Cards]
    BY DEF TypeOK, Replica, Slot
  <2>3. QED
    BY <2>1, <2>2
<1>2. StoreOf[t] \in Stores
  BY SyncAssumption
<1>3. CASE EditCard(t)
  <2>1. PICK c \in Cards : SaveCard(t, c) \/ SaveReview(t, c) \/ RemoveCard(t, c) \/ UndoRemove(t, c)
    BY <1>3 DEF EditCard
  <2>2. \E card : PutDirty(StoreOf[t], c, card)
    BY <2>1 DEF SaveCard, SaveReview, RemoveCard, UndoRemove
  <2>3. QED
    BY <1>1, <1>2, <2>2
<1>4. CASE ImportBackup(t)
  <2>1. edits' # edits
    BY <1>4 DEF ImportBackup, TypeOK
  <2>2. QED
    BY <1>4, <2>1, ImportStores DEF Held, TypeOK, Replica
<1>5. QED
  BY <1>3, <1>4 DEF Edit

\* A request that ends leaves its tab nothing in flight, and the others theirs.
LEMMA DoneIs ==
  ASSUME TypeOK, NEW t \in Tabs, Done(t)
  PROVE  /\ pc'[t] = "idle" /\ replyEpoch'[t] = 0 /\ sentDirty'[t] = {}
         /\ \A u \in Tabs \ {t} : /\ pc'[u] = pc[u] /\ sent'[u] = sent[u] /\ sentDirty'[u] = sentDirty[u]
                                  /\ replyEpoch'[u] = replyEpoch[u]
BY DEF Done, TypeOK

\* An answer that is applied leaves every clean card of its device clean.
LEMMA MergeStaysClean ==
  ASSUME QInv, NEW t \in Tabs, pc[t] = "replied", replyEpoch[t] = storeEpoch[StoreOf[t]] \/ storeEpoch[StoreOf[t]] = 0,
         NEW c \in Cards, c \notin dirty[StoreOf[t]]
  PROVE  c \notin DirtyAfterMerge(t)
<1> DEFINE s == StoreOf[t]
<1>1. s \in Stores
  BY SyncAssumption
<1>2. ~Mismatch(t)
  BY <1>1 DEF Mismatch, QInv, NewStoreDirty, ReplyDated
<1>3. ASSUME local[s][c] # NoCard PROVE Settled(t, c)
  <2>1. sent[t][c] = local[s][c]
    BY <1>3 DEF QInv, CleanIsSent
  <2>2. QED
    BY <1>2, <1>3, <2>1 DEF Settled, SameVersion
<1>4. QED
  BY <1>2, <1>3 DEF DirtyAfterMerge

\* Every step keeps the invariant.
LEMMA StepQInv == ASSUME OneTab, QInv, TypeOK', [Next]_vars PROVE QInv'
<1>1. ASSUME NEW t \in Tabs, Edit(t) PROVE QInv'
  <2>1. /\ UNCHANGED <<storeEpoch, net, server>>
        /\ \A r \in Stores, b \in Cards : local'[r][b] # NoCard /\ b \notin dirty'[r]
              => b \notin dirty[r] /\ local'[r][b] = local[r][b]
    BY <1>1, EditStores DEF QInv
  <2>2. CleanIsSent'
    BY <2>1, SyncAssumption DEF QInv, CleanIsSent, net
  <2>3. NewStoreDirty' /\ ReplyDated'
    BY <2>1 DEF QInv, NewStoreDirty, ReplyDated, Held, net
  <2>4. QED
    BY <2>2, <2>3 DEF QInv
<1>2. ASSUME NEW t \in Tabs, ExportAll(t) PROVE QInv'
  <2>1. /\ UNCHANGED <<device, replyEpoch>> /\ pc'[t] = "sent" /\ sent'[t] = local[StoreOf[t]]
        /\ \A u \in Tabs \ {t} : pc'[u] = pc[u] /\ sent'[u] = sent[u]
    BY <1>2 DEF ExportAll, QInv, TypeOK
  <2>2. QED
    BY <2>1 DEF QInv, CleanIsSent, NewStoreDirty, ReplyDated, device
<1>3. ASSUME NEW t \in Tabs, SyncState(t) PROVE QInv'
  <2>1. /\ UNCHANGED <<device, sent>> /\ pc[t] = "sent" /\ replyEpoch'[t] = epoch /\ epoch > 0
        /\ \A u \in Tabs \ {t} : pc'[u] = pc[u] /\ replyEpoch'[u] = replyEpoch[u]
    BY <1>3, SyncAssumption DEF SyncState, QInv, TypeOK
  <2>2. QED
    BY <2>1 DEF QInv, CleanIsSent, NewStoreDirty, ReplyDated, device
<1>4. ASSUME NEW t \in Tabs, RefuseTooMany(t) \/ LoseRequest(t) PROVE QInv'
  <2>1. Done(t) /\ UNCHANGED device
    BY <1>4 DEF RefuseTooMany, LoseRequest
  <2>2. QED
    BY <2>1, DoneIs DEF QInv, CleanIsSent, NewStoreDirty, ReplyDated, device
<1>5. ASSUME NEW t \in Tabs, MergeInto(t) PROVE QInv'
  <2> DEFINE s == StoreOf[t]
  <2>1. /\ s \in Stores /\ Done(t) /\ storeEpoch'[s] = replyEpoch[t] /\ replyEpoch[t] # 0
        /\ \A r \in Stores \ {s} : local'[r] = local[r] /\ dirty'[r] = dirty[r] /\ storeEpoch'[r] = storeEpoch[r]
    BY <1>5, SyncAssumption DEF MergeInto, QInv, TypeOK, ReplyDated
  <2>2. \A u \in Tabs \ {t} : StoreOf[u] # s /\ StoreOf[u] \in Stores
    BY SyncAssumption DEF OneTab
  <2>3. CleanIsSent'
    BY <2>1, <2>2, DoneIs DEF QInv, CleanIsSent
  <2>4. NewStoreDirty'
    BY <2>1 DEF QInv, NewStoreDirty
  <2>5. ReplyDated'
    BY <2>1, DoneIs DEF QInv, ReplyDated
  <2>6. QED
    BY <2>3, <2>4, <2>5 DEF QInv
<1>6. CASE AgeTombstones \/ LoseServerCopy \/ (\E t \in Tabs : Refresh(t)) \/ UNCHANGED vars
  <2>1. UNCHANGED <<device, net>>
    BY <1>6 DEF AgeTombstones, LoseServerCopy, Refresh, vars
  <2>2. QED
    BY <2>1 DEF QInv, CleanIsSent, NewStoreDirty, ReplyDated, device, net
<1>7. QED
  BY <1>1, <1>2, <1>3, <1>4, <1>5, <1>6 DEF Next, SyncStep

\* A step without an edit and without a new epoch makes no clean card dirty.
LEMMA StepStaysClean ==
  ASSUME QInv, [Next]_vars, edits' = edits, NEW s \in Stores, NEW c \in Cards, c \notin dirty[s], c \in dirty'[s]
  PROVE  storeEpoch[s] # 0 /\ storeEpoch'[s] # storeEpoch[s]
         /\ \E t \in Tabs : pc[t] = "replied" /\ storeEpoch'[s] = replyEpoch[t]
<1>1. dirty' # dirty
  OBVIOUS
<1>2. PICK t \in Tabs : MergeInto(t)
  BY <1>1, EditStores DEF Next, SyncStep, QInv, Refresh, ExportAll, SyncState, RefuseTooMany, LoseRequest,
       AgeTombstones, LoseServerCopy, vars, device
<1>3. StoreOf[t] \in Stores
  BY SyncAssumption
<1>4. s = StoreOf[t] /\ dirty'[s] = DirtyAfterMerge(t) /\ storeEpoch'[s] = replyEpoch[t] /\ pc[t] = "replied"
  BY <1>2, <1>3 DEF MergeInto, QInv, TypeOK
<1>5. QED
  BY <1>4, MergeStaysClean

\* The invariant holds where every device has one tab.
LEMMA QAlways == ASSUME OneTab PROVE Spec => []QInv
<1>1. Init => QInv
  BY SyncAssumption DEF Init, TypeOK, Replica, Empty, Epochs, QInv, CleanIsSent, NewStoreDirty, ReplyDated, Held
<1>2. QInv /\ TypeOK' /\ [Next]_vars => QInv'
  BY StepQInv
<1>3. QED
  BY <1>1, <1>2, TypeCorrect, PTL DEF Spec

\* With one tab per device a sync never turns a clean card dirty, unless it brought a
\* new epoch (mergeInto): two devices cannot go on pushing a card at each other.
THEOREM CleanAlwaysStays == ASSUME OneTab PROVE Spec => CleanStaysClean
<1>1. QInv /\ [Next]_vars => [\A s \in Stores, c \in Cards :
        local[s][c] # NoCard /\ c \notin dirty[s] /\ c \in dirty'[s]
          => edits' # edits \/ storeEpoch'[s] # storeEpoch[s]]_vars
  BY StepStaysClean
<1>2. QED
  BY <1>1, QAlways, PTL DEF Spec, CleanStaysClean

\* With one tab per device a purged card that nobody holds or sends dirty stays gone until
\* an edit or a new epoch (syncCardSQL inserts no clean card), however many clean
\* copies devices still send and in whatever order the answers land.
THEOREM PurgesAlwaysHold == ASSUME OneTab PROVE Spec => PurgeHolds
<1>1. ASSUME QInv, TypeOK', [Next]_vars, NEW c \in Cards, Gone(c), edits' = edits, epoch' = epoch
      PROVE  Gone(c)'
  <2>1. rows'[c] = NoCard
    <3>1. CASE \E t \in Tabs : SyncState(t)
      <4>1. PICK t \in Tabs : SyncState(t)
        BY <3>1
      <4>2. SyncBatch(t)[c] = NoCard
        BY <1>1 DEF Gone, SyncBatch, SyncCard
      <4>3. QED
        BY <4>1, <4>2 DEF SyncState, Purge, Expired, Held
    <3>2. CASE ~\E t \in Tabs : SyncState(t)
      <4>1. ~LoseServerCopy /\ \A t \in Tabs : ~Edit(t)
        BY <1>1, EditStores, SyncAssumption DEF LoseServerCopy, QInv, TypeOK
      <4>2. rows' = rows
        BY <1>1, <3>2, <4>1 DEF Next, SyncStep, Refresh, ExportAll, MergeInto, RefuseTooMany, LoseRequest,
             AgeTombstones, vars, server
      <4>3. QED
        BY <1>1, <4>2 DEF Gone
    <3>3. QED
      BY <3>1, <3>2
  <2>2. \A s \in Stores : c \notin dirty'[s]
    BY <1>1, StepStaysClean DEF Gone, QInv, ReplyDated
  <2>3. \A s \in Stores : storeEpoch'[s] \in {0, epoch}
    <3>1. CASE \E t \in Tabs : MergeInto(t)
      <4>1. PICK t \in Tabs : MergeInto(t)
        BY <3>1
      <4>2. storeEpoch' = [storeEpoch EXCEPT ![StoreOf[t]] = replyEpoch[t]]
        BY <4>1 DEF MergeInto
      <4>3. QED
        BY <1>1, <4>2 DEF Gone, QInv, TypeOK
    <3>2. CASE ~\E t \in Tabs : MergeInto(t)
      <4>1. storeEpoch' = storeEpoch
        BY <1>1, <3>2, EditStores DEF Next, SyncStep, QInv, Refresh, ExportAll, SyncState, RefuseTooMany, LoseRequest,
             AgeTombstones, LoseServerCopy, vars, device
      <4>2. QED
        BY <1>1, <4>1 DEF Gone
    <3>3. QED
      BY <3>1, <3>2
  <2>4. \A t \in Tabs : c \notin sentDirty'[t] /\ replyEpoch'[t] \in {0, epoch}
    <3>1. ASSUME NEW t \in Tabs, Done(t) PROVE \A u \in Tabs : c \notin sentDirty'[u] /\ replyEpoch'[u] \in {0, epoch}
      BY <1>1, <3>1, DoneIs DEF Gone, QInv
    <3>2. ASSUME NEW t \in Tabs, ExportAll(t) PROVE \A u \in Tabs : c \notin sentDirty'[u] /\ replyEpoch'[u] \in {0, epoch}
      <4>1. /\ replyEpoch' = replyEpoch /\ sentDirty'[t] = dirty[StoreOf[t]] /\ StoreOf[t] \in Stores
            /\ \A u \in Tabs \ {t} : sentDirty'[u] = sentDirty[u]
        BY <1>1, <3>2, SyncAssumption DEF ExportAll, QInv, TypeOK
      <4>2. QED
        BY <1>1, <4>1 DEF Gone
    <3>3. ASSUME NEW t \in Tabs, SyncState(t) PROVE \A u \in Tabs : c \notin sentDirty'[u] /\ replyEpoch'[u] \in {0, epoch}
      <4>1. sentDirty' = sentDirty /\ replyEpoch' = [replyEpoch EXCEPT ![t] = epoch]
        BY <3>3 DEF SyncState
      <4>2. QED
        BY <1>1, <4>1 DEF Gone, QInv, TypeOK
    <3>4. CASE UNCHANGED net
      BY <1>1, <3>4 DEF Gone, net
    <3>5. QED
      BY <1>1, <3>1, <3>2, <3>3, <3>4, EditStores DEF Next, SyncStep, QInv, Refresh, MergeInto, RefuseTooMany, LoseRequest,
           AgeTombstones, LoseServerCopy, vars
  <2>5. QED
    BY <1>1, <2>1, <2>2, <2>3, <2>4 DEF Gone
<1>2. QInv /\ TypeOK' /\ [Next]_vars => [\A c \in Cards : Gone(c) /\ edits' = edits /\ epoch' = epoch => Gone(c)']_vars
  BY <1>1
<1>3. QED
  BY <1>2, QAlways, TypeCorrect, PTL DEF Spec, PurgeHolds
=============================================================================
