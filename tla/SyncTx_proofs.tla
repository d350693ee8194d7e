---------------------------- MODULE SyncTx_proofs ----------------------------
(***************************************************************************)
(* What a sync's transaction does, for any number of cards, transactions   *)
(* and requests: however the statements of several of them interleave,     *)
(* wait for one another, deadlock, or are cancelled, a commit makes of each*)
(* row what one sync makes of it alone.  Until the commit, a row that a    *)
(* transaction wrote is a guess made from the committed row under it; the  *)
(* guess stays right because the row is locked from then on, and whoever   *)
(* else commits writes only rows of its own (CommitStep).                  *)
(***************************************************************************)
EXTENDS SyncTx, FiniteSetTheorems, TLAPS

-----------------------------------------------------------------------------
\* Every set of numbers with a number in it has a least one.
LEMMA LeastNumber ==
  ASSUME NEW S \in SUBSET Nat, S # {}
  PROVE  \E m \in S : \A n \in S : m <= n
<1> DEFINE T == {1..n : n \in S}
<1>1. T \subseteq FiniteSubsetsOf(Nat) /\ T # {}
  <2>1. \A n \in S : IsFiniteSet(1..n) /\ 1..n \subseteq Nat
    BY FS_Interval
  <2>2. QED
    BY <2>1 DEF FiniteSubsetsOf
<1>2. PICK x \in T : \A y \in T : <<y, x>> \notin StrictSubsetOrdering(Nat)
  <2> HIDE DEF T
  <2>1. QED
    BY <1>1, WFMin, FS_StrictSubsetOrderingWellFounded
<1>3. PICK m \in S : x = 1..m
  OBVIOUS
<1>4. ASSUME NEW n \in S, n < m PROVE FALSE
  <2>1. 1..n \subseteq 1..m /\ 1..n # 1..m
    <3>1. m \in 1..m /\ m \notin 1..n
      BY <1>4
    <3>2. QED
      BY <1>4, <3>1
  <2>2. <<1..n, 1..m>> \in StrictSubsetOrdering(Nat)
    BY <2>1 DEF StrictSubsetOrdering
  <2>3. QED
    BY <1>2, <1>3, <2>2
<1>5. QED
  BY <1>4

\* NextKey finds the next card, or the end of the batch.
LEMMA NextKeyIs ==
  ASSUME NEW cards \in [Keys -> Slot], NEW k \in 0..NKeys
  PROVE  /\ NextKey(cards, k) \in k + 1..NKeys + 1
         /\ NextKey(cards, k) \in Keys => cards[NextKey(cards, k)] # NoCard
         /\ \A i \in k + 1..NextKey(cards, k) - 1 : cards[i] = NoCard
<1> USE TxAssumption
<1> DEFINE S == {j \in k + 1..NKeys + 1 : j \in Keys => cards[j] # NoCard}
<1>1. NKeys + 1 \in S /\ S \subseteq Nat
  BY DEF Keys
<1>2. PICK m \in S : \A n \in S : m <= n
  BY <1>1, LeastNumber
<1>3. \A i \in k + 1..m - 1 : cards[i] = NoCard
  <2> TAKE i \in k + 1..m - 1
  <2>1. i \notin S /\ i \in k + 1..NKeys + 1
    BY <1>2
  <2>2. QED
    BY <2>1
<1>4. QED
  BY <1>2, <1>3 DEF NextKey

\* A statement's view of a row is a row.
LEMMA VisibleType ==
  ASSUME TypeOK, NEW t \in Txs, NEW k \in Keys
  PROVE  Visible(t, k) \in Slot
BY DEF TypeOK, Visible

\* What the upsert makes of two cards is a card.
LEMMA UpsertType ==
  ASSUME NEW row \in Card, NEW excluded \in Card
  PROVE  UpsertCard(row, excluded) \in Card
BY DEF UpsertCard, Card, Fsrs

\* What a sync makes of a row is a row.
LEMMA SyncedType ==
  ASSUME NEW row \in Slot, NEW card \in Slot, NEW isDirty \in BOOLEAN
  PROVE  Synced(row, card, isDirty) \in Slot
<1>1. row \in Card /\ card \in Card => UpsertCard(row, card) \in Card
  BY UpsertType
<1>2. CASE card = NoCard
  BY <1>2 DEF Synced
<1>3. CASE card # NoCard /\ row # NoCard
  BY <1>1, <1>3 DEF Synced, Slot
<1>4. CASE card # NoCard /\ row = NoCard
  BY <1>4 DEF Synced, Slot
<1>5. QED
  BY <1>2, <1>3, <1>4

-----------------------------------------------------------------------------
(***************************************************************************)
(* The invariant of one transaction.  Effect is what CommitIsOneSync says  *)
(* of a committed row, of a row not committed yet.                         *)
(***************************************************************************)
Effect(t, k, row) ==
  LET synced == Synced(rows[k], push[t][k], k \in pushDirty[t]) IN
  \/ row = synced
  \/ row = NoCard /\ Expired(synced, cut[t])
  \/ k \notin pushDirty[t] /\ (row = rows[k] \/ (row = NoCard /\ Expired(rows[k], cut[t])))

\* A row that t wrote is locked by it, and is what its request makes of the
\* committed row; the dirty cards before its key are written.
Written(t) ==
  \A k \in Keys :
    /\ own[t][k] # Untouched => locks[k] = t /\ Effect(t, k, own[t][k])
    /\ k \in pushDirty[t] => push[t][k] # NoCard /\ (k < key[t] => own[t][k] # Untouched)

\* Where t is: from its key on nothing is written, a clean card that is to be
\* written has a row, and that row is locked.
Placed(t) ==
  /\ pc[t] = "idle" => own[t] = NoOwn
  /\ pc[t] \in {"upsert", "write"} =>
       /\ \A k \in Keys : k >= key[t] => own[t][k] = Untouched
       /\ key[t] \in Keys => push[t][key[t]] # NoCard
  /\ pc[t] = "write" => key[t] \in Keys \ pushDirty[t] /\ locks[key[t]] = t /\ rows[key[t]] # NoCard
  /\ pc[t] \in {"purge", "read", "commit"} => key[t] \notin Keys
  /\ pc[t] = "commit" => \A k \in Keys : own[t][k] # Untouched => out[t][k] = own[t][k]

TxInv(t) == Written(t) /\ Placed(t)

IInv == TypeOK /\ \A t \in Txs : TxInv(t)

\* The step leaves u and the rows it has locked alone.
Same(u) ==
  /\ pc'[u] = pc[u] /\ key'[u] = key[u] /\ push'[u] = push[u] /\ pushDirty'[u] = pushDirty[u]
  /\ own'[u] = own[u] /\ cut'[u] = cut[u] /\ out'[u] = out[u]
  /\ \A k \in Keys : locks[k] = u => locks'[k] = u /\ rows'[k] = rows[k]
Others(t) == \A u \in Txs \ {t} : Same(u)

\* So its invariant stays.
LEMMA SameKeeps == ASSUME NEW u \in Txs, TypeOK, TxInv(u), Same(u) PROVE TxInv(u)'
<1>1. Written(u)'
  BY DEF TxInv, Written, Same, Effect
<1>2. Placed(u)'
  BY DEF TxInv, Placed, Same, Keys
<1>3. QED
  BY <1>1, <1>2 DEF TxInv

\* A key locked by t was not another's.
LEMMA LockOthers ==
  ASSUME TypeOK, NEW t \in Txs, NEW k \in Keys, CanLock(t, k), Lock(t, k)
  PROVE  /\ locks' \in [Keys -> Txs \cup {NoTx}] /\ locks'[k] = t
         /\ \A u \in Txs \ {t} : \A j \in Keys : locks[j] = u => locks'[j] = u
         /\ \A j \in Keys : locks[j] = t => locks'[j] = t
BY TxAssumption DEF TypeOK, CanLock, Lock

\* The steps of t keep its invariant and the rows others locked: a request
\* begins with nothing written and its key at its first card.
LEMMA BeginStep == ASSUME IInv, NEW t \in Txs, Begin(t) PROVE TypeOK' /\ TxInv(t)' /\ Others(t)
<1> USE TxAssumption
<1>0. TypeOK /\ TxInv(t)
  BY DEF IInv
<1>1. PICK cards \in Requests, dirty \in SUBSET Keys :
        /\ dirty \in SUBSET {k \in Keys : cards[k] # NoCard}
        /\ pc[t] = "idle" /\ push' = [push EXCEPT ![t] = cards]
        /\ key' = [key EXCEPT ![t] = NextKey(cards, 0)] /\ pushDirty' = [pushDirty EXCEPT ![t] = dirty]
        /\ pc' = [pc EXCEPT ![t] = "upsert"] /\ cut' = [cut EXCEPT ![t] = horizon]
        /\ UNCHANGED <<rows, locks, epochRow, horizon, own, todo, out>>
  BY DEF Begin
<1>2. cards \in [Keys -> Slot]
  <2> DEFINE U == UNION {Pushable[k] : k \in Keys}
  <2>1. cards \in [Keys -> U \cup {NoCard}]
    BY DEF Requests
  <2>2. \A k \in Keys : Pushable[k] \subseteq Card
    BY DEF Keys
  <2>3. ASSUME NEW c \in U PROVE c \in Card
    <3>1. PICK k \in Keys : c \in Pushable[k]
      OBVIOUS
    <3>2. QED
      BY <2>2, <3>1
  <2> HIDE DEF U
  <2>4. QED
    BY <2>1, <2>3 DEF Slot
<1>3. /\ NextKey(cards, 0) \in 1..NKeys + 1
      /\ NextKey(cards, 0) \in Keys => cards[NextKey(cards, 0)] # NoCard
      /\ \A i \in 1..NextKey(cards, 0) - 1 : cards[i] = NoCard
  BY <1>2, NextKeyIs, 0 \in 0..NKeys
<1>4. TypeOK'
  BY <1>0, <1>1, <1>2, <1>3 DEF TypeOK, Statements
<1>5. /\ own'[t] = NoOwn /\ push'[t] = cards /\ pushDirty'[t] = dirty /\ key'[t] = NextKey(cards, 0)
      /\ pc'[t] = "upsert"
  BY <1>0, <1>1 DEF TypeOK, TxInv, Placed
<1>6. Written(t)'
  <2>1. \A k \in Keys : own'[t][k] = Untouched
    BY <1>5 DEF NoOwn
  <2>2. \A k \in Keys : k \in dirty => cards[k] # NoCard /\ ~(k < NextKey(cards, 0))
    BY <1>1, <1>3 DEF Keys
  <2>3. QED
    BY <1>5, <2>1, <2>2 DEF Written
<1>7. Placed(t)'
  BY <1>3, <1>5 DEF Placed, NoOwn, Keys
<1>8. Others(t)
  BY <1>0, <1>1 DEF Others, Same, TypeOK
<1>9. QED
  BY <1>4, <1>6, <1>7, <1>8 DEF TxInv

\* What a step to the next key leaves.
LEMMA UpsertedKey ==
  ASSUME IInv, NEW t \in Txs, key[t] \in Keys, Upserted(t)
  PROVE  /\ key' \in [Txs -> 1..NKeys + 1] /\ pc' \in [Txs -> Statements] /\ pc'[t] = "upsert" /\ key'[t] > key[t]
         /\ key'[t] \in Keys => push[t][key'[t]] # NoCard
         /\ \A i \in Keys : key[t] < i /\ i < key'[t] => push[t][i] = NoCard
         /\ \A u \in Txs \ {t} : key'[u] = key[u] /\ pc'[u] = pc[u]
<1> USE TxAssumption
<1>1. push[t] \in [Keys -> Slot] /\ key[t] \in 0..NKeys /\ key[t] \in Nat
  BY DEF IInv, TypeOK, Keys
<1>2. /\ NextKey(push[t], key[t]) \in key[t] + 1..NKeys + 1
      /\ NextKey(push[t], key[t]) \in Keys => push[t][NextKey(push[t], key[t])] # NoCard
      /\ \A i \in key[t] + 1..NextKey(push[t], key[t]) - 1 : push[t][i] = NoCard
  BY <1>1, NextKeyIs
<1>3. key'[t] = NextKey(push[t], key[t]) /\ pc'[t] = "upsert"
  BY DEF Upserted, IInv, TypeOK
<1>4. \A i \in Keys : key[t] < i /\ i < key'[t] => push[t][i] = NoCard
  BY <1>1, <1>2, <1>3 DEF Keys
<1>5. QED
  BY <1>1, <1>2, <1>3, <1>4 DEF Upserted, IInv, TypeOK, Statements, Keys

\* A clean card's row, if there is one, is locked before it is written.
LEMMA CheckStep == ASSUME IInv, NEW t \in Txs, CheckExists(t) PROVE TypeOK' /\ TxInv(t)' /\ Others(t)
<1> USE TxAssumption
<1>0. TypeOK /\ TxInv(t) /\ pc[t] = "upsert" /\ key[t] \in Keys \ pushDirty[t]
      /\ UNCHANGED <<rows, epochRow, horizon, cut, push, pushDirty, own, todo, out>>
  BY DEF IInv, CheckExists, Checking
<1>1. CASE Upserted(t) /\ UNCHANGED locks
  <2>1. /\ key' \in [Txs -> 1..NKeys + 1] /\ pc' \in [Txs -> Statements] /\ pc'[t] = "upsert" /\ key'[t] > key[t]
        /\ key'[t] \in Keys => push[t][key'[t]] # NoCard
        /\ \A i \in Keys : key[t] < i /\ i < key'[t] => push[t][i] = NoCard
        /\ \A u \in Txs \ {t} : key'[u] = key[u] /\ pc'[u] = pc[u]
    BY <1>0, <1>1, UpsertedKey
  <2>2. key[t] \in Nat /\ key'[t] \in Nat
    BY <1>0, <2>1 DEF TypeOK
  <2>3. TypeOK'
    BY <1>0, <1>1, <2>1 DEF TypeOK
  <2>4. Written(t)'
    <3> SUFFICES ASSUME NEW k \in Keys
                 PROVE  /\ own'[t][k] # Untouched => locks'[k] = t /\ Effect(t, k, own[t][k])'
                        /\ k \in pushDirty'[t] => push'[t][k] # NoCard /\ (k < key'[t] => own'[t][k] # Untouched)
      BY DEF Written
    <3>1. own'[t][k] # Untouched => locks'[k] = t /\ Effect(t, k, own[t][k])'
      BY <1>0, <1>1 DEF TxInv, Written, Effect
    <3>2. k \in Nat
      BY DEF Keys
    <3>3. ASSUME k \in pushDirty'[t] PROVE push'[t][k] # NoCard /\ (k < key'[t] => own'[t][k] # Untouched)
      BY <1>0, <2>1, <2>2, <3>2, <3>3 DEF TxInv, Written
    <3>4. QED
      BY <3>1, <3>3
  <2>5. Placed(t)'
    BY <1>0, <1>1, <2>1, <2>2 DEF TxInv, Placed, Keys
  <2>6. Others(t)
    BY <1>0, <1>1, <2>1 DEF Others, Same
  <2>7. QED
    BY <2>3, <2>4, <2>5, <2>6 DEF TxInv
<1>2. CASE /\ Visible(t, key[t]) # NoCard /\ CanLock(t, key[t]) /\ Lock(t, key[t])
           /\ pc' = [pc EXCEPT ![t] = "write"] /\ UNCHANGED key
  <2>1. /\ locks' \in [Keys -> Txs \cup {NoTx}] /\ locks'[key[t]] = t
        /\ \A u \in Txs \ {t} : \A j \in Keys : locks[j] = u => locks'[j] = u
        /\ \A j \in Keys : locks[j] = t => locks'[j] = t
    BY <1>0, <1>2, LockOthers
  <2>2. TypeOK'
    BY <1>0, <1>2, <2>1 DEF TypeOK, Statements
  <2>3. rows[key[t]] # NoCard
    BY <1>0, <1>2 DEF Visible, TxInv, Placed, Keys
  <2>4. Written(t)'
    BY <1>0, <1>2, <2>1 DEF TxInv, Written, Effect
  <2>5. pc'[t] = "write"
    BY <1>0, <1>2 DEF TypeOK
  <2>6. Placed(t)'
    BY <1>0, <1>2, <2>1, <2>3, <2>5 DEF TxInv, Placed
  <2>7. Others(t)
    BY <1>0, <1>2, <2>1 DEF Others, Same, TypeOK
  <2>8. QED
    BY <2>2, <2>4, <2>6, <2>7 DEF TxInv
<1>3. QED
  BY <1>1, <1>2 DEF CheckExists

\* The row is locked, and what is written is what the request makes of it.
LEMMA WriteStep == ASSUME IInv, NEW t \in Txs, WriteCard(t) PROVE TypeOK' /\ TxInv(t)' /\ Others(t)
<1> USE TxAssumption
<1> DEFINE k == key[t]
           row == IF rows[k] = NoCard THEN push[t][k] ELSE UpsertCard(rows[k], push[t][k])
<1>0. TypeOK /\ TxInv(t) /\ pc[t] \in {"upsert", "write"} /\ Upserted(t) /\ CanLock(t, k) /\ Lock(t, k)
      /\ UNCHANGED <<rows, epochRow, horizon, cut, push, pushDirty, todo, out>>
  BY DEF IInv, WriteCard, Writing
<1>1. k \in Keys /\ (k \in pushDirty[t] \/ rows[k] # NoCard) /\ push[t][k] \in Card /\ rows[k] \in Slot
  <2>1. k \in Keys /\ (k \in pushDirty[t] \/ rows[k] # NoCard)
    BY <1>0 DEF WriteCard, Writing, TxInv, Placed, TypeOK
  <2>2. push[t][k] \in Card /\ rows[k] \in Slot
    BY <1>0, <2>1 DEF TxInv, Placed, TypeOK, Slot
  <2>3. QED
    BY <2>1, <2>2
<1>2. own[t][k] = Untouched /\ k \in Nat
  BY <1>0, <1>1 DEF TxInv, Placed, Keys
<1>3. own' = [own EXCEPT ![t][k] = row]
  BY <1>2 DEF WriteCard, Visible
<1>4. row = Synced(rows[k], push[t][k], k \in pushDirty[t]) /\ row \in Card
  <2>1. rows[k] \in Card => UpsertCard(rows[k], push[t][k]) \in Card
    BY <1>1, UpsertType
  <2>2. QED
    BY <1>1, <2>1 DEF Synced, Slot
<1> HIDE DEF k, row
<1>5. /\ locks' \in [Keys -> Txs \cup {NoTx}] /\ locks'[k] = t
      /\ \A u \in Txs \ {t} : \A j \in Keys : locks[j] = u => locks'[j] = u
      /\ \A j \in Keys : locks[j] = t => locks'[j] = t
  BY <1>0, <1>1, LockOthers
<1>6. /\ key' \in [Txs -> 1..NKeys + 1] /\ pc' \in [Txs -> Statements] /\ pc'[t] = "upsert" /\ key'[t] > k
      /\ key'[t] \in Keys => push[t][key'[t]] # NoCard
      /\ \A i \in Keys : k < i /\ i < key'[t] => push[t][i] = NoCard
      /\ \A u \in Txs \ {t} : key'[u] = key[u] /\ pc'[u] = pc[u]
  BY <1>0, <1>1, UpsertedKey DEF k
<1>7. /\ own' \in [Txs -> [Keys -> Slot \cup {Untouched}]] /\ own'[t][k] = row
      /\ \A j \in Keys \ {k} : own'[t][j] = own[t][j]
      /\ \A u \in Txs \ {t} : own'[u] = own[u]
  BY <1>0, <1>1, <1>3, <1>4 DEF TypeOK, Slot
<1>8. TypeOK'
  BY <1>0, <1>5, <1>6, <1>7 DEF TypeOK
<1>9. key'[t] \in Nat
  BY <1>1, <1>6
<1>10. Written(t)'
  <2> SUFFICES ASSUME NEW j \in Keys
               PROVE  /\ own'[t][j] # Untouched => locks'[j] = t /\ Effect(t, j, own[t][j])'
                      /\ j \in pushDirty'[t] => push'[t][j] # NoCard /\ (j < key'[t] => own'[t][j] # Untouched)
    BY DEF Written
  <2>1. CASE j = k
    BY <1>0, <1>1, <1>4, <1>5, <1>7, <2>1 DEF Effect, Slot
  <2>2. CASE j # k
    <3>1. own'[t][j] # Untouched => locks'[j] = t /\ Effect(t, j, own[t][j])'
      BY <1>0, <1>5, <1>7, <2>2 DEF TxInv, Written, Effect
    <3>2. j \in Nat /\ (j < k \/ k < j)
      BY <1>2, <2>2 DEF Keys
    <3>3. ASSUME j \in pushDirty'[t] PROVE push'[t][j] # NoCard /\ (j < key'[t] => own'[t][j] # Untouched)
      BY <1>0, <1>6, <1>7, <1>9, <2>2, <3>2, <3>3 DEF TxInv, Written, k
    <3>4. QED
      BY <3>1, <3>3
  <2>3. QED
    BY <2>1, <2>2
<1>11. Placed(t)'
  <2>1. \A j \in Keys : j >= key'[t] => own'[t][j] = Untouched
    BY <1>0, <1>2, <1>6, <1>7, <1>9 DEF TxInv, Placed, Keys, k
  <2>2. QED
    BY <1>0, <1>6, <2>1 DEF Placed
<1>12. Others(t)
  BY <1>0, <1>5, <1>6, <1>7 DEF Others, Same
<1>13. QED
  BY <1>8, <1>10, <1>11, <1>12 DEF TxInv

\* A purged row is locked too, and was expired.
LEMMA PurgeStep ==
  ASSUME IInv, NEW t \in Txs, NEW k \in Keys, PurgeRow(t, k) PROVE TypeOK' /\ TxInv(t)' /\ Others(t)
<1> USE TxAssumption
<1>0. TypeOK /\ TxInv(t) /\ pc[t] = "purge" /\ CanLock(t, k) /\ key[t] \notin Keys /\ key[t] \in 1..NKeys + 1
      /\ UNCHANGED <<rows, epochRow, horizon, cut, pc, key, push, pushDirty, out>>
      /\ todo' \in [Txs -> SUBSET Keys]
  BY DEF IInv, PurgeRow, TxInv, Placed, TypeOK
<1>1. locks' = locks \/ Lock(t, k)
  BY DEF PurgeRow
<1>2. /\ locks' \in [Keys -> Txs \cup {NoTx}]
      /\ \A u \in Txs \ {t} : \A j \in Keys : locks[j] = u => locks'[j] = u
      /\ \A j \in Keys : locks[j] = t => locks'[j] = t
  BY <1>0, <1>1, LockOthers DEF TypeOK
<1>3. CASE ~Expired(Visible(t, k), cut[t])
  <2>1. own' = own
    BY <1>3 DEF PurgeRow
  <2>2. TypeOK' /\ Others(t)
    BY <1>0, <1>2, <2>1 DEF TypeOK, Others, Same
  <2>3. Written(t)' /\ Placed(t)'
    BY <1>0, <1>2, <2>1 DEF TxInv, Written, Placed, Effect
  <2>4. QED
    BY <2>2, <2>3 DEF TxInv
<1>4. CASE Expired(Visible(t, k), cut[t])
  <2>1. own' = [own EXCEPT ![t][k] = NoCard] /\ Lock(t, k)
    BY <1>4 DEF PurgeRow, Expired
  <2>2. /\ own' \in [Txs -> [Keys -> Slot \cup {Untouched}]] /\ own'[t][k] = NoCard
        /\ \A j \in Keys \ {k} : own'[t][j] = own[t][j]
        /\ \A u \in Txs \ {t} : own'[u] = own[u]
    BY <1>0, <2>1 DEF TypeOK, Slot
  <2>3. TypeOK' /\ Others(t)
    BY <1>0, <1>2, <2>2 DEF TypeOK, Others, Same
  <2>4. locks'[k] = t
    BY <1>0, <2>1, LockOthers
  <2>5. Effect(t, k, NoCard)
    <3>1. CASE own[t][k] = Untouched
      <4>1. Expired(rows[k], cut[t])
        BY <1>4, <3>1 DEF Visible
      <4>2. k < key[t]
        BY <1>0 DEF Keys
      <4>3. k \notin pushDirty[t]
        BY <1>0, <3>1, <4>2 DEF TxInv, Written
      <4>4. QED
        BY <4>1, <4>3 DEF Effect
    <3>2. CASE own[t][k] # Untouched
      BY <1>0, <1>4, <3>2 DEF TxInv, Written, Effect, Visible, Expired
    <3>3. QED
      BY <3>1, <3>2
  <2>6. Written(t)'
    <3> SUFFICES ASSUME NEW j \in Keys
                 PROVE  /\ own'[t][j] # Untouched => locks'[j] = t /\ Effect(t, j, own[t][j])'
                        /\ j \in pushDirty'[t] => push'[t][j] # NoCard /\ (j < key'[t] => own'[t][j] # Untouched)
      BY DEF Written
    <3>1. CASE j = k
      BY <1>0, <2>2, <2>4, <2>5, <3>1 DEF Effect, TxInv, Written
    <3>2. CASE j # k
      BY <1>0, <1>2, <2>2, <3>2 DEF TxInv, Written, Effect
    <3>3. QED
      BY <3>1, <3>2
  <2>7. Placed(t)'
    BY <1>0 DEF TxInv, Placed
  <2>8. QED
    BY <2>3, <2>6, <2>7 DEF TxInv
<1>5. QED
  BY <1>3, <1>4

\* The statements that write no card; what is read are the rows t wrote.
LEMMA ReadSteps ==
  ASSUME IInv, NEW t \in Txs, StartPurge(t) \/ SyncEpoch(t) \/ ReadState(t)
  PROVE  TypeOK' /\ TxInv(t)' /\ Others(t)
<1> USE TxAssumption
<1>0. TypeOK /\ TxInv(t)
  BY DEF IInv
<1>1. CASE StartPurge(t)
  <2>1. TypeOK' /\ Others(t)
    BY <1>0, <1>1 DEF StartPurge, TypeOK, Statements, Others, Same
  <2>2. Written(t)' /\ Placed(t)'
    BY <1>0, <1>1 DEF StartPurge, TypeOK, TxInv, Written, Placed, Effect
  <2>3. QED
    BY <2>1, <2>2 DEF TxInv
<1>2. CASE SyncEpoch(t)
  <2>1. TypeOK' /\ Others(t)
    BY <1>0, <1>2 DEF SyncEpoch, TypeOK, Statements, Others, Same
  <2>2. Written(t)' /\ Placed(t)'
    BY <1>0, <1>2 DEF SyncEpoch, TypeOK, TxInv, Written, Placed, Effect
  <2>3. QED
    BY <2>1, <2>2 DEF TxInv
<1>3. CASE ReadState(t)
  <2>1. [k \in Keys |-> Visible(t, k)] \in [Keys -> Slot]
    BY <1>0, VisibleType
  <2>2. TypeOK' /\ Others(t)
    BY <1>0, <1>3, <2>1 DEF ReadState, TypeOK, Statements, Others, Same
  <2>3. \A k \in Keys : own'[t][k] # Untouched => out'[t][k] = own'[t][k]
    BY <1>0, <1>3 DEF ReadState, TypeOK, Visible
  <2>4. Written(t)' /\ Placed(t)'
    BY <1>0, <1>3, <2>3 DEF ReadState, TypeOK, TxInv, Written, Placed, Effect
  <2>5. QED
    BY <2>2, <2>4 DEF TxInv
<1>4. QED
  BY <1>1, <1>2, <1>3

\* A transaction that ends leaves the locks of the others.
LEMMA EndKeeps ==
  ASSUME IInv, NEW t \in Txs, End(t)
  PROVE  /\ TypeOK /\ locks' \in [Keys -> Txs \cup {NoTx}] /\ horizon' = horizon
         /\ cut' \in [Txs -> 0..MaxHorizon] /\ pc' \in [Txs -> Statements] /\ key' \in [Txs -> 1..NKeys + 1]
         /\ push' \in [Txs -> [Keys -> Slot]] /\ pushDirty' \in [Txs -> SUBSET Keys]
         /\ own' \in [Txs -> [Keys -> Slot \cup {Untouched}]] /\ todo' \in [Txs -> SUBSET Keys]
         /\ out' \in [Txs -> [Keys -> Slot]]
         /\ TxInv(t)'
         /\ \A u \in Txs \ {t} :
              /\ pc'[u] = pc[u] /\ key'[u] = key[u] /\ push'[u] = push[u] /\ pushDirty'[u] = pushDirty[u]
              /\ own'[u] = own[u] /\ cut'[u] = cut[u] /\ out'[u] = out[u]
              /\ \A k \in Keys : locks[k] = u => locks'[k] = u
<1> USE TxAssumption
<1>1. TypeOK
  BY DEF IInv
<1>2. Nothing \in [Keys -> Slot] /\ NoOwn \in [Keys -> Slot \cup {Untouched}] /\ 1 \in 1..NKeys + 1
  BY DEF Nothing, NoOwn, Slot
<1>3. /\ own'[t] = NoOwn /\ pushDirty'[t] = {} /\ pc'[t] = "idle"
  BY <1>1 DEF End, TypeOK
<1>4. TxInv(t)'
  <2>1. \A k \in Keys : own'[t][k] = Untouched
    BY <1>3 DEF NoOwn
  <2>2. QED
    BY <1>3, <2>1 DEF TxInv, Written, Placed
<1>5. QED
  BY <1>1, <1>2, <1>4 DEF End, TypeOK, Statements

\* A transaction that fails leaves nothing.
LEMMA RollbackStep == ASSUME IInv, NEW t \in Txs, Rollback(t) PROVE TypeOK' /\ TxInv(t)' /\ Others(t)
<1>1. End(t) /\ rows' = rows /\ epochRow' \in {"none", epochRow}
  BY DEF Rollback
<1>2. TypeOK'
  BY <1>1, EndKeeps DEF TypeOK
<1>3. Others(t)
  BY <1>1, EndKeeps DEF Others, Same
<1>4. QED
  BY <1>1, <1>2, <1>3, EndKeeps

\* A row another transaction has locked is not written by this one.
LEMMA CommitStep == ASSUME IInv, NEW t \in Txs, Commit(t) PROVE TypeOK' /\ TxInv(t)' /\ Others(t)
<1>1. TypeOK /\ TxInv(t) /\ End(t) /\ rows' = [k \in Keys |-> Visible(t, k)] /\ epochRow' \in {"made", epochRow}
  BY DEF IInv, Commit
<1>2. rows' \in [Keys -> Slot]
  BY <1>1, VisibleType
<1>3. TypeOK'
  BY <1>1, <1>2, EndKeeps DEF TypeOK
<1>4. \A u \in Txs \ {t} : \A k \in Keys : locks[k] = u => rows'[k] = rows[k]
  BY <1>1 DEF TxInv, Written, Visible
<1>5. Others(t)
  BY <1>1, <1>4, EndKeeps DEF Others, Same
<1>6. QED
  BY <1>1, <1>3, <1>5, EndKeeps

\* No transaction has written anything at first.
LEMMA InitIInv == Init => IInv
<1> USE TxAssumption
<1> SUFFICES ASSUME Init PROVE IInv
  OBVIOUS
<1>1. TypeOK
  BY DEF Init, TypeOK, Nothing, NoOwn, Slot, Statements
<1>2. ASSUME NEW t \in Txs PROVE TxInv(t)
  <2>1. own[t] = NoOwn /\ pushDirty[t] = {} /\ pc[t] = "idle" /\ \A k \in Keys : own[t][k] = Untouched
    BY DEF Init, NoOwn
  <2>2. QED
    BY <2>1 DEF TxInv, Written, Placed
<1>3. QED
  BY <1>1, <1>2 DEF IInv

\* Each action is one transaction's, or no transaction's.
LEMMA StepIInv == IInv /\ [Next]_vars => IInv'
<1> SUFFICES ASSUME IInv, [Next]_vars PROVE IInv'
  OBVIOUS
<1>1. ASSUME NEW t \in Txs, Begin(t) \/ Statement(t) \/ Cancel(t) \/ AbortDeadlock(t) PROVE IInv'
  <2>1. TypeOK' /\ TxInv(t)' /\ Others(t)
    BY <1>1, BeginStep, CheckStep, WriteStep, PurgeStep, ReadSteps, RollbackStep, CommitStep
    DEF Statement, Cancel, AbortDeadlock, RefuseTooMany
  <2>2. \A u \in Txs \ {t} : TxInv(u)'
    BY <2>1, SameKeeps DEF Others, IInv
  <2>3. QED
    BY <2>1, <2>2 DEF IInv
<1>2. CASE AgeTombstones \/ UNCHANGED vars
  <2>1. TypeOK'
    BY <1>2, TxAssumption DEF IInv, TypeOK, AgeTombstones, vars
  <2>2. \A u \in Txs : Same(u)
    BY <1>2 DEF Same, AgeTombstones, vars
  <2>3. QED
    BY <2>1, <2>2, SameKeeps DEF IInv
<1>3. QED
  BY <1>1, <1>2 DEF Next

\* So the invariant holds throughout.
LEMMA Inductive == Spec => []IInv
BY InitIInv, StepIInv, PTL DEF Spec

\* The rows, the locks and every transaction's place and data keep their kinds.
THEOREM TypeCorrect == Spec => []TypeOK
<1>1. IInv => TypeOK
  BY DEF IInv
<1>2. QED
  BY <1>1, Inductive, PTL

\* What a commit makes of a row.
LEMMA CommitEffect ==
  ASSUME IInv, NEW t \in Txs, Commits(t), NEW k \in Keys
  PROVE  Effect(t, k, rows'[k])
<1>1. rows'[k] = Visible(t, k) /\ TxInv(t) /\ TypeOK /\ pc[t] = "commit"
  BY DEF Commits, Commit, IInv
<1>2. CASE own[t][k] # Untouched
  BY <1>1, <1>2 DEF Visible, TxInv, Written
<1>3. CASE own[t][k] = Untouched
  <2>1. k < key[t]
    BY <1>1, TxAssumption DEF TxInv, Placed, TypeOK, Keys
  <2>2. k \notin pushDirty[t]
    BY <1>1, <1>3, <2>1 DEF TxInv, Written
  <2>3. QED
    BY <1>1, <1>3, <2>2 DEF Visible, Effect
<1>4. QED
  BY <1>2, <1>3

\* However syncs overlap, each commit makes of every row what the merge rule
\* makes of it and the pushed card, less what has expired (SyncCards, the purge).
THEOREM CommitsAreSyncs == Spec => CommitIsOneSync
<1>1. IInv /\ [Next]_vars => \A t \in Txs : Commits(t) => \A k \in Keys :
        LET synced == Synced(rows[k], push[t][k], k \in pushDirty[t]) IN
        \/ rows'[k] = synced
        \/ rows'[k] = NoCard /\ Expired(synced, cut[t])
        \/ k \notin pushDirty[t] /\ (rows'[k] = rows[k] \/ (rows'[k] = NoCard /\ Expired(rows[k], cut[t])))
  BY CommitEffect DEF Effect
<1>2. QED
  BY <1>1, Inductive, PTL DEF Spec, CommitIsOneSync

\* What a sync replies of the cards it wrote is what it has committed: the reply
\* is read inside the transaction.
THEOREM RepliesAreCommitted == Spec => ReplyIsCommitted
<1>1. IInv /\ [Next]_vars => \A t \in Txs : Commits(t) => \A k \in Keys :
        k \in pushDirty[t] \/ own[t][k] # Untouched => rows'[k] = out[t][k]
  <2> SUFFICES ASSUME IInv, NEW t \in Txs, Commits(t), NEW k \in Keys, k \in pushDirty[t] \/ own[t][k] # Untouched
               PROVE  rows'[k] = out[t][k]
    OBVIOUS
  <2>1. rows'[k] = Visible(t, k) /\ TxInv(t) /\ TypeOK /\ pc[t] = "commit"
    BY DEF Commits, Commit, IInv
  <2>2. k < key[t]
    BY <2>1, TxAssumption DEF TxInv, Placed, TypeOK, Keys
  <2>3. own[t][k] # Untouched
    BY <2>1, <2>2 DEF TxInv, Written
  <2>4. QED
    BY <2>1, <2>3 DEF Visible, TxInv, Placed
<1>2. QED
  BY <1>1, Inductive, PTL DEF Spec, ReplyIsCommitted

\* A purged card comes back only by a device that pushed it dirty; a sync of
\* clean cards never inserts.
THEOREM PurgesNotUndone == Spec => PurgeNotUndone
<1>1. IInv /\ [Next]_vars => \A k \in Keys : rows[k] = NoCard /\ rows'[k] # NoCard =>
        \E t \in Txs : Commits(t) /\ k \in pushDirty[t]
  <2> SUFFICES ASSUME IInv, [Next]_vars, NEW k \in Keys, rows[k] = NoCard, rows'[k] # NoCard
               PROVE  \E t \in Txs : Commits(t) /\ k \in pushDirty[t]
    OBVIOUS
  <2>1. PICK t \in Txs : Commit(t)
    BY DEF Next, vars, AgeTombstones, Begin, Statement, CheckExists, WriteCard, StartPurge, PurgeRow, SyncEpoch,
           ReadState, RefuseTooMany, Cancel, AbortDeadlock, Rollback
  <2>2. Commits(t)
    BY <2>1 DEF Commits, Commit, End, IInv, TypeOK
  <2>3. Effect(t, k, rows'[k])
    BY <2>2, CommitEffect
  <2>4. k \in pushDirty[t]
    BY <2>3 DEF Effect, Synced
  <2>5. QED
    BY <2>2, <2>4
<1>2. QED
  BY <1>1, Inductive, PTL DEF Spec, PurgeNotUndone
=============================================================================
