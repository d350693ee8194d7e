------------------------- MODULE AuthLimiter_proofs -------------------------
(***************************************************************************)
(* Proofs about AuthLimiter for every number of requests, keys and         *)
(* entries, all limits and all lengths of a window.                        *)
(***************************************************************************)
EXTENDS AuthLimiter, FiniteSetTheorems, TLAPS

-----------------------------------------------------------------------------
(* What the limiter keeps in one of its maps.                              *)

Maps(K) == [K -> Window \cup {NoWindow}]

\* No window is counted past its limit.
Bounded(m, limit) == \A k \in Entries(m) : m[k].count <= limit

Fits(m) == IsFiniteSet(Entries(m)) /\ Cardinality(Entries(m)) <= MaxEntries

Sound(m, K, limit) == m \in Maps(K) /\ Bounded(m, limit) /\ Fits(m)

\* The reservations are those of requests being checked, under the keys they came with.
PairsHeld ==
  \A k \in Entries(pairs) : \A r \in pairs[k].holders : pc[r] = "checking" /\ Key(r) = k
AccountsHeld ==
  \A e \in Entries(accounts) : \A r \in accounts[e].holders : pc[r] = "checking" /\ email[r] = e

Places ==
  /\ now \in Nat
  /\ pc \in [Requests -> {"idle", "counted", "checking", "refused"}]
  /\ from \in [Requests -> IPs \cup {NoKey}]
  /\ email \in [Requests -> Emails \cup {NoKey}]
  /\ \A r \in Requests : pc[r] # "idle" => from[r] \in IPs /\ email[r] \in Emails
  /\ told \in [Requests -> Nat]

(***************************************************************************)
(* The inductive invariant.  SlotsAddUp is not inductive: that a slot is   *)
(* not given back twice rests on who holds it, and GuessesBounded on what  *)
(* a count adds up to.                                                     *)
(***************************************************************************)
IInv ==
  /\ Places
  /\ Sound(ips, IPs, IpLimit)
  /\ Sound(pairs, PairKeys, PairLimit) /\ AddsUp(pairs) /\ PairsHeld
  /\ Sound(accounts, Emails, AccountCap) /\ AddsUp(accounts) /\ AccountsHeld

\* Every reservation of new is one of m.
Inherits(new, m) ==
  \A k \in Entries(new) : \A r \in new[k].holders : k \in Entries(m) /\ r \in m[k].holders

\* new has only windows that began now and what is left of the reservations of m.
From(new, m) == Inherits(new, m) /\ (AddsUp(m) => AddsUp(new))

-----------------------------------------------------------------------------
(* Dropping and admitting windows.                                         *)

\* Dropping entries keeps a map sound and adds no reservation.
LEMMA WithoutSound ==
  ASSUME NEW K, NEW limit \in Nat, NEW m, Sound(m, K, limit), NEW gone
  PROVE  Sound(Without(m, gone), K, limit) /\ From(Without(m, gone), m)
<1> DEFINE new == Without(m, gone)
<1>1. DOMAIN m = K /\ new \in Maps(K)
  BY DEF Sound, Maps, Without
<1>2. \A k \in Entries(new) : k \in Entries(m) /\ new[k] = m[k]
  BY <1>1 DEF Entries, Without
<1>3. Bounded(new, limit) /\ From(new, m)
  BY <1>2 DEF Sound, AddsUp, Bounded, Inherits, From
<1>4. Fits(new)
  <2>1. Entries(new) \in SUBSET Entries(m)
    BY <1>2
  <2>2. IsFiniteSet(Entries(m)) /\ Cardinality(Entries(m)) <= MaxEntries
    BY DEF Sound, Fits
  <2>3. IsFiniteSet(Entries(new)) /\ Cardinality(Entries(new)) <= Cardinality(Entries(m))
    BY <2>1, <2>2, FS_Subset
  <2>4. Cardinality(Entries(new)) \in Nat /\ Cardinality(Entries(m)) \in Nat
    BY <2>2, <2>3, FS_CardinalityType
  <2>5. QED
    BY <2>2, <2>3, <2>4, LimiterAssumption DEF Fits
<1>5. QED
  BY <1>1, <1>3, <1>4 DEF Sound

\* admit keeps the map sound: it adds an empty window only where there is room.
LEMMA AdmitSound ==
  ASSUME now \in Nat, NEW K, NEW limit \in Nat, NEW m, Sound(m, K, limit),
         NEW k \in K, NEW length \in Nat
  PROVE  Sound(Admit(m, k, length), K, limit) /\ From(Admit(m, k, length), m)
<1> DEFINE swept == Swept(m, length)
           new   == [swept EXCEPT ![k] = Fresh]
<1>1. Sound(swept, K, limit) /\ From(swept, m)
  <2>1. From(m, m)
    BY DEF From, Inherits
  <2>2. QED
    BY <2>1, WithoutSound DEF Swept
<1>2. CASE Cardinality(Entries(swept)) >= MaxEntries
  BY <1>1, <1>2 DEF Admit
<1>3. CASE ~(Cardinality(Entries(swept)) >= MaxEntries)
  <2>1. Admit(m, k, length) = new
    BY <1>3 DEF Admit
  <2>2. DOMAIN swept = K /\ swept \in Maps(K)
    BY <1>1 DEF Sound, Maps
  <2>3. Fresh \in Window /\ Fresh # NoWindow
    BY LimiterAssumption DEF Fresh, Window
  <2>4. new \in Maps(K)
    BY <2>2, <2>3 DEF Maps
  <2>5. Entries(new) = Entries(swept) \cup {k}
    BY <2>2, <2>3 DEF Entries
  <2>6. \A j \in Entries(new) : j = k \/ (j \in Entries(swept) /\ new[j] = swept[j])
    BY <2>2, <2>5 DEF Entries
  <2>7. new[k] = Fresh
    BY <2>2
  <2>8. Fresh.count = 0 /\ Fresh.wrong = 0 /\ Fresh.holders = {} /\ Cardinality({}) = 0
    BY FS_EmptySet DEF Fresh
  <2>9. Bounded(new, limit) /\ From(new, swept)
    <3>1. new[k].count = 0 /\ new[k].wrong = 0 /\ new[k].holders = {}
      BY <2>7, <2>8
    <3>2. ASSUME AddsUp(swept) PROVE AddsUp(new)
      <4>2. 0 = 0 + Cardinality({})
        BY <2>8
      <4>3. \A j \in Entries(new) : new[j].count = new[j].wrong + Cardinality(new[j].holders)
        <5> TAKE j \in Entries(new)
        <5>1. CASE j = k
          BY <5>1, <3>1, <4>2
        <5>2. CASE j \in Entries(swept) /\ new[j] = swept[j]
          BY <5>2, <3>2 DEF AddsUp
        <5>3. QED
          BY <5>1, <5>2, <2>6
      <4>4. QED
        BY <4>3 DEF AddsUp
    <3>3. Bounded(new, limit)
      BY <1>1, <2>6, <3>1 DEF Sound, Bounded
    <3>4. Inherits(new, swept)
      BY <2>6, <3>1 DEF Inherits
    <3>5. QED
      BY <3>2, <3>3, <3>4 DEF From
  <2>10. Fits(new)
    <3>1. IsFiniteSet(Entries(swept))
      BY <1>1 DEF Sound, Fits
    <3>2. Cardinality(Entries(swept)) \in Nat
      BY <3>1, FS_CardinalityType
    <3>3. /\ IsFiniteSet(Entries(new))
          /\ \/ Cardinality(Entries(new)) = Cardinality(Entries(swept))
             \/ Cardinality(Entries(new)) = Cardinality(Entries(swept)) + 1
      BY <2>5, <3>1, FS_AddElement
    <3>4. QED
      BY <1>3, <3>2, <3>3, LimiterAssumption DEF Fits
  <2>11. QED
    BY <1>1, <2>1, <2>4, <2>9, <2>10 DEF Sound, From, Inherits
<1>4. QED
  BY <1>2, <1>3

\* live keeps the map sound.
LEMMA LiveSound ==
  ASSUME now \in Nat, NEW K, NEW limit \in Nat, NEW m, Sound(m, K, limit),
         NEW k \in K, NEW length \in Nat
  PROVE  Sound(Live(m, k, length), K, limit) /\ From(Live(m, k, length), m)
<1> DEFINE rest == Current(m, k, length)
<1>1. Sound(rest, K, limit) /\ From(rest, m)
  BY WithoutSound DEF Current
<1>2. Sound(Admit(rest, k, length), K, limit) /\ From(Admit(rest, k, length), rest)
  BY <1>1, AdmitSound
<1>3. QED
  BY <1>1, <1>2 DEF Live, From, Inherits

-----------------------------------------------------------------------------
(* Reserving and returning slots.                                          *)

\* Changing the window of one key leaves the entries as they are.
LEMMA ReplaceSound ==
  ASSUME NEW K, NEW limit \in Nat, NEW m, Sound(m, K, limit), NEW k \in Entries(m),
         NEW w \in Window, w.count <= limit
  PROVE  /\ Sound([m EXCEPT ![k] = w], K, limit)
         /\ Entries([m EXCEPT ![k] = w]) = Entries(m)
         /\ AddsUp(m) /\ w.count = w.wrong + Cardinality(w.holders)
              => AddsUp([m EXCEPT ![k] = w])
<1> DEFINE new == [m EXCEPT ![k] = w]
<1>1. DOMAIN m = K /\ k \in K /\ new \in Maps(K)
  BY DEF Sound, Maps, Entries
<1>2. Entries(new) = Entries(m)
  BY <1>1, LimiterAssumption DEF Entries
<1>3. new[k] = w /\ \A j \in Entries(m) : j # k => new[j] = m[j]
  BY <1>1 DEF Entries
<1>4. Bounded(new, limit)
  BY <1>2, <1>3 DEF Sound, Bounded
<1>5. Fits(new)
  BY <1>2 DEF Sound, Fits
<1>6. AddsUp(m) /\ w.count = w.wrong + Cardinality(w.holders) => AddsUp(new)
  BY <1>2, <1>3, Zenon DEF AddsUp
<1>7. QED
  BY <1>1, <1>2, <1>4, <1>5, <1>6 DEF Sound

\* The fields of a window after each of the three changes.
LEMMA CountedFields ==
  ASSUME NEW w \in Window, NEW holder \in SUBSET Requests
  PROVE  /\ Counted(w, holder) \in Window
         /\ Counted(w, holder).count = w.count + 1
         /\ Counted(w, holder).holders = w.holders \cup holder
         /\ Counted(w, holder).wrong = w.wrong
<1>1. w.count + 1 \in Nat /\ w.holders \cup holder \in SUBSET Requests
  BY DEF Window
<1>2. Counted(w, holder) \in Window
  BY <1>1 DEF Counted, Window
<1>3. QED
  BY <1>2 DEF Counted, Window

\* A returned slot lowers the count and is held no more.
LEMMA ReturnedFields ==
  ASSUME NEW w \in Window, NEW r, w.count > 0
  PROVE  /\ Returned(w, r) \in Window
         /\ Returned(w, r).count = w.count - 1
         /\ Returned(w, r).holders = w.holders \ {r}
         /\ Returned(w, r).wrong = w.wrong
<1>1. w.count - 1 \in Nat /\ w.holders \ {r} \in SUBSET Requests
  BY DEF Window
<1>2. Returned(w, r) \in Window
  BY <1>1 DEF Returned, Window
<1>3. QED
  BY <1>2 DEF Returned, Window

\* A kept slot is a wrong guess, counted as before.
LEMMA KeptFields ==
  ASSUME NEW w \in Window, NEW r
  PROVE  /\ Kept(w, r) \in Window
         /\ Kept(w, r).count = w.count
         /\ Kept(w, r).holders = w.holders \ {r}
         /\ Kept(w, r).wrong = w.wrong + 1
<1>1. w.wrong + 1 \in Nat /\ w.holders \ {r} \in SUBSET Requests
  BY DEF Window
<1>2. Kept(w, r) \in Window
  BY <1>1 DEF Kept, Window
<1>3. QED
  BY <1>2 DEF Kept, Window

\* A window of a sound map.
LEMMA WindowOf ==
  ASSUME NEW K, NEW limit, NEW m, Sound(m, K, limit), NEW k \in K, m[k] # NoWindow
  PROVE  /\ DOMAIN m = K /\ k \in Entries(m) /\ m[k] \in Window
         /\ m[k].count \in Nat /\ m[k].wrong \in Nat /\ m[k].count <= limit
         /\ IsFiniteSet(m[k].holders) /\ Cardinality(m[k].holders) \in Nat
<1>1. DOMAIN m = K /\ k \in Entries(m) /\ m[k] \in Window
  BY DEF Sound, Maps, Entries
<1>2. m[k].count \in Nat /\ m[k].wrong \in Nat /\ m[k].holders \in SUBSET Requests
  BY <1>1 DEF Window
<1>3. IsFiniteSet(m[k].holders) /\ Cardinality(m[k].holders) \in Nat
  BY <1>2, LimiterAssumption, FS_Subset, FS_CardinalityType
<1>4. QED
  BY <1>1, <1>2, <1>3 DEF Sound, Bounded

\* Counting an attempt stays within the limit, and adds up if the holder is new.
LEMMA CountSound ==
  ASSUME NEW K, NEW limit \in Nat, NEW m, Sound(m, K, limit), NEW k \in K,
         ~Full(m, k, limit), NEW holder \in SUBSET Requests
  PROVE  /\ Sound(Count(m, k, holder), K, limit)
         /\ \A r \in Requests :
              AddsUp(m) /\ holder = {r} /\ ~Holds(m, k, r) => AddsUp(Count(m, k, holder))
<1>1. CASE m[k] = NoWindow
  BY <1>1 DEF Count
<1>2. CASE m[k] # NoWindow
  <2> DEFINE w == Counted(m[k], holder)
  <2>1. /\ k \in Entries(m) /\ m[k] \in Window /\ m[k].count \in Nat
        /\ IsFiniteSet(m[k].holders) /\ Cardinality(m[k].holders) \in Nat
        /\ m[k].wrong \in Nat
    BY <1>2, WindowOf
  <2>2. m[k].count < limit
    BY <1>2, <2>1 DEF Full
  <2>3. /\ w \in Window /\ w.count = m[k].count + 1
        /\ w.holders = m[k].holders \cup holder /\ w.wrong = m[k].wrong
    BY <2>1, CountedFields
  <2>4. Count(m, k, holder) = [m EXCEPT ![k] = w]
    BY <1>2 DEF Count
  <2> HIDE DEF w
  <2>5. w.count <= limit
    BY <2>1, <2>2, <2>3
  <2>6. Sound(Count(m, k, holder), K, limit)
    <3>1. Sound([m EXCEPT ![k] = w], K, limit)
      BY <2>1, <2>3, <2>5, ReplaceSound
    <3>2. QED
      BY <2>4, <3>1
  <2>7. ASSUME NEW r \in Requests, AddsUp(m), holder = {r}, ~Holds(m, k, r)
        PROVE  AddsUp(Count(m, k, holder))
    <3>1. Cardinality(w.holders) = Cardinality(m[k].holders) + 1
      BY <1>2, <2>1, <2>3, <2>7, FS_AddElement DEF Holds
    <3>2. m[k].count = m[k].wrong + Cardinality(m[k].holders)
      BY <2>1, <2>7 DEF AddsUp
    <3>3. w.count = w.wrong + Cardinality(w.holders)
      BY <2>1, <2>3, <3>1, <3>2
    <3>4. AddsUp([m EXCEPT ![k] = w])
      BY <2>1, <2>3, <2>5, <2>7, <3>3, ReplaceSound
    <3>5. QED
      BY <2>4, <3>4
  <2>8. QED
    BY <2>6, <2>7
<1>3. QED
  BY <1>1, <1>2

\* Returning a slot.
LEMMA ReturnSlotSound ==
  ASSUME NEW K, NEW limit \in Nat, NEW m, Sound(m, K, limit), NEW k \in K, NEW r
  PROVE  /\ Sound(ReturnSlot(m, k, r), K, limit)
         /\ AddsUp(m) => AddsUp(ReturnSlot(m, k, r))
<1>1. CASE ~(Holds(m, k, r) /\ m[k].count > 0)
  BY <1>1 DEF ReturnSlot
<1>2. CASE Holds(m, k, r) /\ m[k].count > 0
  <2> DEFINE w == Returned(m[k], r)
  <2>1. /\ k \in Entries(m) /\ m[k] \in Window /\ m[k].count \in Nat /\ m[k].count <= limit
        /\ IsFiniteSet(m[k].holders) /\ Cardinality(m[k].holders) \in Nat
        /\ m[k].wrong \in Nat
    BY <1>2, WindowOf DEF Holds
  <2>2. /\ w \in Window /\ w.count = m[k].count - 1
        /\ w.holders = m[k].holders \ {r} /\ w.wrong = m[k].wrong
    BY <1>2, <2>1, ReturnedFields
  <2>3. ReturnSlot(m, k, r) = [m EXCEPT ![k] = w]
    BY <1>2 DEF ReturnSlot
  <2> HIDE DEF w
  <2>4. w.count <= limit
    BY <2>1, <2>2
  <2>5. Cardinality(m[k].holders \ {r}) = Cardinality(m[k].holders) - 1
    BY <1>2, <2>1, FS_RemoveElement DEF Holds
  <2>6. AddsUp(m) => w.count = w.wrong + Cardinality(w.holders)
    BY <2>1, <2>2, <2>5 DEF AddsUp
  <2>7. /\ Sound([m EXCEPT ![k] = w], K, limit)
        /\ AddsUp(m) => AddsUp([m EXCEPT ![k] = w])
    BY <2>1, <2>2, <2>4, <2>6, ReplaceSound
  <2>8. QED
    BY <2>3, <2>7
<1>3. QED
  BY <1>1, <1>2

\* Keeping a slot as a failure.
LEMMA KeepSlotSound ==
  ASSUME NEW K, NEW limit \in Nat, NEW m, Sound(m, K, limit), NEW k \in K, NEW r
  PROVE  /\ Sound(KeepSlot(m, k, r), K, limit)
         /\ AddsUp(m) => AddsUp(KeepSlot(m, k, r))
<1>1. CASE ~Holds(m, k, r)
  BY <1>1 DEF KeepSlot
<1>2. CASE Holds(m, k, r)
  <2> DEFINE w == Kept(m[k], r)
  <2>1. /\ k \in Entries(m) /\ m[k] \in Window /\ m[k].count \in Nat /\ m[k].count <= limit
        /\ IsFiniteSet(m[k].holders) /\ Cardinality(m[k].holders) \in Nat
        /\ m[k].wrong \in Nat
    BY <1>2, WindowOf DEF Holds
  <2>2. /\ w \in Window /\ w.count = m[k].count
        /\ w.holders = m[k].holders \ {r} /\ w.wrong = m[k].wrong + 1
    BY <2>1, KeptFields
  <2>3. KeepSlot(m, k, r) = [m EXCEPT ![k] = w]
    BY <1>2 DEF KeepSlot
  <2> HIDE DEF w
  <2>4. w.count <= limit
    BY <2>1, <2>2
  <2>5. Cardinality(m[k].holders \ {r}) = Cardinality(m[k].holders) - 1
    BY <1>2, <2>1, FS_RemoveElement DEF Holds
  <2>6. AddsUp(m) => w.count = w.wrong + Cardinality(w.holders)
    BY <2>1, <2>2, <2>5 DEF AddsUp
  <2>7. /\ Sound([m EXCEPT ![k] = w], K, limit)
        /\ AddsUp(m) => AddsUp([m EXCEPT ![k] = w])
    BY <2>1, <2>2, <2>4, <2>6, ReplaceSound
  <2>8. QED
    BY <2>3, <2>7
<1>3. QED
  BY <1>1, <1>2

-----------------------------------------------------------------------------
(* Who holds the slots.                                                    *)

\* The reservations of new are those of m and holder's under k.
JoinedBy(new, m, k, holder) ==
  \A j \in Entries(new) : \A q \in new[j].holders :
    (j \in Entries(m) /\ q \in m[j].holders) \/ (j = k /\ q \in holder)

\* Counting gives a reservation to nobody but the holder.
LEMMA CountHolders ==
  ASSUME NEW K, NEW limit \in Nat, NEW m, Sound(m, K, limit), NEW k \in K,
         NEW holder \in SUBSET Requests
  PROVE  JoinedBy(Count(m, k, holder), m, k, holder)
<1> SUFFICES ASSUME NEW j \in Entries(Count(m, k, holder)),
                    NEW q \in Count(m, k, holder)[j].holders
             PROVE  (j \in Entries(m) /\ q \in m[j].holders) \/ (j = k /\ q \in holder)
  BY DEF JoinedBy
<1>1. CASE m[k] = NoWindow
  BY <1>1 DEF Count
<1>2. CASE m[k] # NoWindow
  <2>1. DOMAIN m = K /\ k \in Entries(m) /\ m[k] \in Window
    BY <1>2, WindowOf
  <2>2. Count(m, k, holder) = [m EXCEPT ![k] = Counted(m[k], holder)]
    BY <1>2 DEF Count
  <2>3. CASE j = k
    BY <2>1, <2>2, <2>3, CountedFields
  <2>4. CASE j # k
    BY <2>1, <2>2, <2>4 DEF Entries
  <2>5. QED
    BY <2>3, <2>4
<1>3. QED
  BY <1>1, <1>2

\* Who gives a slot back holds it no more.
LEMMA ReturnSlotHolders ==
  ASSUME NEW K, NEW limit \in Nat, NEW m, Sound(m, K, limit), AddsUp(m), NEW k \in K, NEW r
  PROVE  Inherits(ReturnSlot(m, k, r), m) /\ ~Holds(ReturnSlot(m, k, r), k, r)
<1>1. CASE ~Holds(m, k, r)
  BY <1>1 DEF ReturnSlot, Inherits
<1>2. CASE Holds(m, k, r)
  <2>1. /\ DOMAIN m = K /\ k \in Entries(m) /\ m[k] \in Window
        /\ m[k].count \in Nat /\ m[k].wrong \in Nat
        /\ IsFiniteSet(m[k].holders) /\ Cardinality(m[k].holders) \in Nat
    BY <1>2, WindowOf DEF Holds
  <2>2. Cardinality(m[k].holders) # 0
    BY <1>2, <2>1, FS_EmptySet DEF Holds
  <2>3. m[k].count > 0
    BY <2>1, <2>2 DEF AddsUp
  <2>4. ReturnSlot(m, k, r) = [m EXCEPT ![k] = Returned(m[k], r)]
    BY <1>2, <2>3 DEF ReturnSlot
  <2>5. Returned(m[k], r).holders = m[k].holders \ {r}
    BY <2>1, <2>3, ReturnedFields
  <2>6. QED
    BY <2>1, <2>4, <2>5 DEF Inherits, Holds, Entries
<1>3. QED
  BY <1>1, <1>2

\* Who keeps a slot as a failure holds it no more either.
LEMMA KeepSlotHolders ==
  ASSUME NEW K, NEW limit \in Nat, NEW m, Sound(m, K, limit), NEW k \in K, NEW r
  PROVE  Inherits(KeepSlot(m, k, r), m) /\ ~Holds(KeepSlot(m, k, r), k, r)
<1>1. CASE ~Holds(m, k, r)
  BY <1>1 DEF KeepSlot, Inherits
<1>2. CASE Holds(m, k, r)
  <2>1. DOMAIN m = K /\ k \in Entries(m) /\ m[k] \in Window
    BY <1>2, WindowOf DEF Holds
  <2>2. KeepSlot(m, k, r) = [m EXCEPT ![k] = Kept(m[k], r)]
    BY <1>2 DEF KeepSlot
  <2>3. Kept(m[k], r).holders = m[k].holders \ {r}
    BY <2>1, KeptFields
  <2>4. QED
    BY <2>1, <2>2, <2>3 DEF Inherits, Holds, Entries
<1>3. QED
  BY <1>1, <1>2

\* The step changes nobody's place but r's.
Elsewhere(r) ==
  \A q \in Requests : q # r => pc'[q] = pc[q] /\ from'[q] = from[q] /\ email'[q] = email[q]

\* A step of a request that holds nothing afterwards leaves the others' slots theirs.
LEMMA HeldStays ==
  ASSUME IInv, NEW r \in Requests, Elsewhere(r),
         pairs' \in Maps(PairKeys), accounts' \in Maps(Emails),
         Inherits(pairs', pairs), Inherits(accounts', accounts),
         \A k \in Entries(pairs') : r \notin pairs'[k].holders,
         \A e \in Entries(accounts') : r \notin accounts'[e].holders
  PROVE  PairsHeld' /\ AccountsHeld'
<1>1. ASSUME NEW k \in Entries(pairs'), NEW q \in pairs'[k].holders
      PROVE  pc'[q] = "checking" /\ <<email'[q], from'[q]>> = k
  <2>1. q \in Requests /\ q # r
    BY DEF Maps, Entries, Window
  <2>2. k \in Entries(pairs) /\ q \in pairs[k].holders
    BY DEF Inherits
  <2>3. pc[q] = "checking" /\ <<email[q], from[q]>> = k
    BY <2>2 DEF IInv, PairsHeld, Key
  <2>4. QED
    BY <2>1, <2>3 DEF Elsewhere
<1>2. ASSUME NEW e \in Entries(accounts'), NEW q \in accounts'[e].holders
      PROVE  pc'[q] = "checking" /\ email'[q] = e
  <2>1. q \in Requests /\ q # r
    BY DEF Maps, Entries, Window
  <2>2. e \in Entries(accounts) /\ q \in accounts[e].holders
    BY DEF Inherits
  <2>3. pc[q] = "checking" /\ email[q] = e
    BY <2>2 DEF IInv, AccountsHeld
  <2>4. QED
    BY <2>1, <2>3 DEF Elsewhere
<1>3. QED
  BY <1>1, <1>2 DEF PairsHeld, AccountsHeld, Key

\* A request that is not being checked holds nothing.
LEMMA NothingHeld ==
  ASSUME IInv, NEW r, pc[r] # "checking"
  PROVE  /\ \A k \in Entries(pairs) : r \notin pairs[k].holders
         /\ \A e \in Entries(accounts) : r \notin accounts[e].holders
  BY DEF IInv, PairsHeld, AccountsHeld

\* A window's remaining time, in whole seconds, is a natural number.
LEMMA RetryAfterType ==
  ASSUME NEW ticks \in Int
  PROVE  RetryAfter(ticks) \in Nat
<1>1. (ticks + Second - 1) \div Second \in Int
  BY LimiterAssumption
<1>2. QED
  BY <1>1 DEF RetryAfter

\* Answering and refusing keep every request in its place and touch no other request.
LEMMA FinishPlaces ==
  ASSUME Places, NEW r \in Requests, Finish(r), now' = now
  PROVE  Places' /\ Elsewhere(r)
  BY DEF Places, Finish, Elsewhere

\* Refusing, too, from an address and for an account.
LEMMA RefusePlaces ==
  ASSUME Places, NEW r \in Requests, NEW ticks \in Int, Refuse(r, ticks), now' = now,
         NEW i \in IPs, NEW e \in Emails,
         from' = [from EXCEPT ![r] = i], email' = [email EXCEPT ![r] = e]
  PROVE  Places' /\ Elsewhere(r)
  BY RetryAfterType DEF Places, Refuse, Elsewhere

-----------------------------------------------------------------------------
(* One lemma per action.                                                   *)

\* At first no window is open and no request holds anything.
LEMMA InitIInv == Init => IInv
<1> SUFFICES ASSUME Init PROVE IInv
  OBVIOUS
<1>1. \A K, limit : limit \in Nat => Sound([k \in K |-> NoWindow], K, limit)
  <2> TAKE K, limit
  <2> HAVE limit \in Nat
  <2> DEFINE none == [k \in K |-> NoWindow]
  <2>1. none \in Maps(K) /\ Entries(none) = {}
    BY DEF Maps, Entries
  <2>2. IsFiniteSet({}) /\ Cardinality({}) = 0
    BY FS_EmptySet
  <2>3. QED
    BY <2>1, <2>2, LimiterAssumption DEF Sound, Bounded, Fits
<1>2. /\ Sound(ips, IPs, IpLimit) /\ Sound(pairs, PairKeys, PairLimit)
      /\ Sound(accounts, Emails, AccountCap)
  BY <1>1, LimiterAssumption DEF Init
<1>3. Entries(pairs) = {} /\ Entries(accounts) = {}
  BY DEF Init, Entries
<1>4. AddsUp(pairs) /\ AddsUp(accounts) /\ PairsHeld /\ AccountsHeld
  BY <1>3 DEF AddsUp, PairsHeld, AccountsHeld
<1>5. Places
  BY DEF Init, Places
<1>6. QED
  BY <1>2, <1>4, <1>5 DEF IInv

\* allowIP counts in the map of addresses only, whose slots nobody gives back.
LEMMA AllowIPIInv ==
  ASSUME IInv, NEW r \in Requests, AllowIP(r)
  PROVE  IInv'
<1>1. PICK i \in IPs, e \in Emails :
        LET map == Live(ips, i, IpLength) IN
        /\ from' = [from EXCEPT ![r] = i]
        /\ email' = [email EXCEPT ![r] = e]
        /\ \/ /\ map[i] = NoWindow
              /\ ips' = map
              /\ Refuse(r, IpLength)
           \/ /\ Full(map, i, IpLimit)
              /\ ips' = map
              /\ Refuse(r, map[i].start + IpLength - now)
           \/ /\ map[i] # NoWindow /\ ~Full(map, i, IpLimit)
              /\ ips' = Count(map, i, {})
              /\ pc' = [pc EXCEPT ![r] = "counted"]
              /\ UNCHANGED told
  BY DEF AllowIP
<1> DEFINE map == Live(ips, i, IpLength)
<1>2. now \in Nat /\ now' = now /\ pairs' = pairs /\ accounts' = accounts /\ pc[r] = "idle"
  BY DEF AllowIP, IInv, Places
<1>3. Sound(map, IPs, IpLimit)
  BY <1>2, LiveSound, LimiterAssumption DEF IInv
<1> HIDE DEF map
<1>4. Sound(ips', IPs, IpLimit) /\ Places' /\ Elsewhere(r)
  <2>1. CASE map[i] = NoWindow /\ ips' = map /\ Refuse(r, IpLength)
    <3>1. IpLength \in Int
      BY LimiterAssumption
    <3>2. QED
      BY <1>1, <1>2, <1>3, <2>1, <3>1, RefusePlaces DEF IInv
  <2>2. CASE Full(map, i, IpLimit) /\ ips' = map /\ Refuse(r, map[i].start + IpLength - now)
    <3>1. map[i].start \in Nat
      BY <1>3, <2>2, WindowOf DEF Full, Window
    <3>2. map[i].start + IpLength - now \in Int
      BY <1>2, <3>1, LimiterAssumption
    <3>3. QED
      BY <1>1, <1>2, <1>3, <2>2, <3>2, RefusePlaces DEF IInv
  <2>3. CASE /\ map[i] # NoWindow /\ ~Full(map, i, IpLimit)
             /\ ips' = Count(map, i, {})
             /\ pc' = [pc EXCEPT ![r] = "counted"]
             /\ UNCHANGED told
    <3>1. Sound(ips', IPs, IpLimit)
      BY <1>3, <2>3, CountSound, LimiterAssumption
    <3>2. Places' /\ Elsewhere(r)
      BY <1>1, <1>2, <2>3 DEF IInv, Places, Elsewhere
    <3>3. QED
      BY <3>1, <3>2
  <2>4. \/ map[i] = NoWindow /\ ips' = map /\ Refuse(r, IpLength)
        \/ Full(map, i, IpLimit) /\ ips' = map /\ Refuse(r, map[i].start + IpLength - now)
        \/ /\ map[i] # NoWindow /\ ~Full(map, i, IpLimit)
           /\ ips' = Count(map, i, {})
           /\ pc' = [pc EXCEPT ![r] = "counted"]
           /\ UNCHANGED told
    BY <1>1, Zenon DEF map
  <2>5. QED
    BY <2>1, <2>2, <2>3, <2>4
<1>5. PairsHeld' /\ AccountsHeld'
  <2>1. Inherits(pairs', pairs) /\ Inherits(accounts', accounts)
    BY <1>2 DEF Inherits
  <2>2. /\ \A k \in Entries(pairs') : r \notin pairs'[k].holders
        /\ \A a \in Entries(accounts') : r \notin accounts'[a].holders
    BY <1>2, NothingHeld
  <2>3. pairs' \in Maps(PairKeys) /\ accounts' \in Maps(Emails)
    BY <1>2 DEF IInv, Sound
  <2>4. QED
    BY <1>4, <2>1, <2>2, <2>3, HeldStays
<1>6. QED
  BY <1>2, <1>4, <1>5 DEF IInv

\* A request answered before its login was counted holds nothing.
LEMMA AnswerEarlyIInv ==
  ASSUME IInv, NEW r \in Requests, AnswerEarly(r)
  PROVE  IInv'
<1>1. /\ now' = now /\ ips' = ips /\ pairs' = pairs /\ accounts' = accounts
      /\ Finish(r) /\ pc[r] # "checking"
  BY DEF AnswerEarly, windows
<1>2. Places' /\ Elsewhere(r)
  BY <1>1, FinishPlaces DEF IInv
<1>3. PairsHeld' /\ AccountsHeld'
  <2>1. Inherits(pairs', pairs) /\ Inherits(accounts', accounts)
    BY <1>1 DEF Inherits
  <2>2. /\ \A k \in Entries(pairs') : r \notin pairs'[k].holders
        /\ \A a \in Entries(accounts') : r \notin accounts'[a].holders
    BY <1>1, NothingHeld
  <2>3. pairs' \in Maps(PairKeys) /\ accounts' \in Maps(Emails)
    BY <1>1 DEF IInv, Sound
  <2>4. QED
    BY <1>2, <2>1, <2>2, <2>3, HeldStays
<1>4. QED
  BY <1>1, <1>2, <1>3 DEF IInv

\* allowAccount takes a slot of the pair and one of the account, or neither.
LEMMA AllowAccountIInv ==
  ASSUME IInv, NEW r \in Requests, AllowAccount(r)
  PROVE  IInv'
<1> DEFINE byPair    == Live(pairs, Key(r), Length)
           byAccount == Live(accounts, email[r], Length)
<1>1. /\ pc[r] = "counted" /\ now \in Nat /\ now' = now /\ ips' = ips
      /\ from' = from /\ email' = email
  BY DEF AllowAccount, IInv, Places
<1>2. email[r] \in Emails /\ from[r] \in IPs /\ Key(r) \in PairKeys
  BY <1>1 DEF IInv, Places, Key, PairKeys
<1>3. Sound(byPair, PairKeys, PairLimit) /\ AddsUp(byPair) /\ Inherits(byPair, pairs)
  <2>1. Sound(byPair, PairKeys, PairLimit) /\ From(byPair, pairs)
    BY <1>1, <1>2, LiveSound, LimiterAssumption DEF IInv
  <2>2. QED
    BY <2>1 DEF From, IInv
<1>4. Sound(byAccount, Emails, AccountCap) /\ AddsUp(byAccount) /\ Inherits(byAccount, accounts)
  <2>1. Sound(byAccount, Emails, AccountCap) /\ From(byAccount, accounts)
    BY <1>1, <1>2, LiveSound, LimiterAssumption DEF IInv
  <2>2. QED
    BY <2>1 DEF From, IInv
<1>5. \/ /\ Full(byPair, Key(r), PairLimit)
         /\ Refuse(r, byPair[Key(r)].start + Length - now)
         /\ pairs' = byPair /\ accounts' = byAccount
      \/ /\ Full(byAccount, email[r], AccountCap)
         /\ Refuse(r, byAccount[email[r]].start + Length - now)
         /\ pairs' = byPair /\ accounts' = byAccount
      \/ /\ ~Full(byPair, Key(r), PairLimit) /\ ~Full(byAccount, email[r], AccountCap)
         /\ pc' = [pc EXCEPT ![r] = "checking"]
         /\ pairs' = Count(byPair, Key(r), {r})
         /\ accounts' = Count(byAccount, email[r], {r})
         /\ told' = told
  BY Zenon DEF AllowAccount
<1> HIDE DEF byPair, byAccount
<1>6. ASSUME NEW ticks \in Int, Refuse(r, ticks), pairs' = byPair, accounts' = byAccount
      PROVE  IInv'
  <2>1. Places' /\ Elsewhere(r)
    <3>1. from' = [from EXCEPT ![r] = from[r]] /\ email' = [email EXCEPT ![r] = email[r]]
      BY <1>1 DEF IInv, Places
    <3>2. QED
      BY <1>1, <1>2, <1>6, <3>1, RefusePlaces DEF IInv
  <2>2. /\ \A k \in Entries(pairs') : r \notin pairs'[k].holders
        /\ \A a \in Entries(accounts') : r \notin accounts'[a].holders
    BY <1>1, <1>3, <1>4, <1>6, NothingHeld DEF Inherits
  <2>3. PairsHeld' /\ AccountsHeld'
    BY <1>3, <1>4, <1>6, <2>1, <2>2, HeldStays DEF Sound
  <2>4. QED
    BY <1>1, <1>3, <1>4, <1>6, <2>1, <2>3 DEF IInv
<1>7. CASE /\ Full(byPair, Key(r), PairLimit)
           /\ Refuse(r, byPair[Key(r)].start + Length - now)
           /\ pairs' = byPair /\ accounts' = byAccount
  <2>1. byPair[Key(r)].start \in Nat
    BY <1>2, <1>3, <1>7, WindowOf DEF Full, Window
  <2>2. byPair[Key(r)].start + Length - now \in Int
    BY <1>1, <2>1, LimiterAssumption
  <2>3. QED
    BY <1>6, <1>7, <2>2
<1>8. CASE /\ Full(byAccount, email[r], AccountCap)
           /\ Refuse(r, byAccount[email[r]].start + Length - now)
           /\ pairs' = byPair /\ accounts' = byAccount
  <2>1. byAccount[email[r]].start \in Nat
    BY <1>2, <1>4, <1>8, WindowOf DEF Full, Window
  <2>2. byAccount[email[r]].start + Length - now \in Int
    BY <1>1, <2>1, LimiterAssumption
  <2>3. QED
    BY <1>6, <1>8, <2>2
<1>9. CASE /\ ~Full(byPair, Key(r), PairLimit) /\ ~Full(byAccount, email[r], AccountCap)
           /\ pc' = [pc EXCEPT ![r] = "checking"]
           /\ pairs' = Count(byPair, Key(r), {r})
           /\ accounts' = Count(byAccount, email[r], {r})
           /\ told' = told
  <2>1. ~Holds(byPair, Key(r), r) /\ ~Holds(byAccount, email[r], r)
    <3>1. DOMAIN byPair = PairKeys /\ DOMAIN byAccount = Emails
      BY <1>3, <1>4 DEF Sound, Maps
    <3>2. QED
      BY <1>1, <1>2, <1>3, <1>4, <3>1, NothingHeld DEF Inherits, Holds, Entries
  <2>2. Sound(pairs', PairKeys, PairLimit) /\ AddsUp(pairs')
    BY <1>2, <1>3, <1>9, <2>1, CountSound, LimiterAssumption
  <2>3. Sound(accounts', Emails, AccountCap) /\ AddsUp(accounts')
    BY <1>2, <1>4, <1>9, <2>1, CountSound, LimiterAssumption
  <2>4. Places' /\ Elsewhere(r) /\ pc'[r] = "checking"
    BY <1>1, <1>2, <1>9 DEF IInv, Places, Elsewhere
  <2>5. /\ JoinedBy(pairs', byPair, Key(r), {r})
        /\ JoinedBy(accounts', byAccount, email[r], {r})
    <3>1. {r} \in SUBSET Requests
      OBVIOUS
    <3>2. QED
      BY <1>2, <1>3, <1>4, <1>9, <3>1, CountHolders, LimiterAssumption
  <2>6. PairsHeld'
    <3>1. ASSUME NEW k \in Entries(pairs'), NEW q \in pairs'[k].holders
          PROVE  pc'[q] = "checking" /\ <<email'[q], from'[q]>> = k
      <4>1. q \in Requests
        BY <2>2 DEF Sound, Maps, Entries, Window
      <4>2. (k \in Entries(byPair) /\ q \in byPair[k].holders) \/ (k = Key(r) /\ q \in {r})
        BY <2>5 DEF JoinedBy
      <4>3. CASE k \in Entries(byPair) /\ q \in byPair[k].holders
        <5>1. pc[q] = "checking" /\ Key(q) = k
          BY <1>3, <4>3 DEF Inherits, IInv, PairsHeld
        <5>2. q # r
          BY <1>1, <5>1
        <5>3. QED
          BY <2>4, <4>1, <5>1, <5>2 DEF Elsewhere, Key
      <4>4. CASE k = Key(r) /\ q \in {r}
        BY <1>1, <2>4, <4>4 DEF Key
      <4>5. QED
        BY <4>2, <4>3, <4>4
    <3>2. QED
      BY <3>1 DEF PairsHeld, Key
  <2>7. AccountsHeld'
    <3>1. ASSUME NEW a \in Entries(accounts'), NEW q \in accounts'[a].holders
          PROVE  pc'[q] = "checking" /\ email'[q] = a
      <4>1. q \in Requests
        BY <2>3 DEF Sound, Maps, Entries, Window
      <4>2. \/ a \in Entries(byAccount) /\ q \in byAccount[a].holders
            \/ a = email[r] /\ q \in {r}
        BY <2>5 DEF JoinedBy
      <4>3. CASE a \in Entries(byAccount) /\ q \in byAccount[a].holders
        <5>1. pc[q] = "checking" /\ email[q] = a
          BY <1>4, <4>3 DEF Inherits, IInv, AccountsHeld
        <5>2. q # r
          BY <1>1, <5>1
        <5>3. QED
          BY <2>4, <4>1, <5>1, <5>2 DEF Elsewhere
      <4>4. CASE a = email[r] /\ q \in {r}
        BY <1>1, <2>4, <4>4
      <4>5. QED
        BY <4>2, <4>3, <4>4
    <3>2. QED
      BY <3>1 DEF AccountsHeld
  <2>8. QED
    BY <1>1, <2>2, <2>3, <2>4, <2>6, <2>7 DEF IInv
<1>10. QED
  BY <1>5, <1>7, <1>8, <1>9

\* The three ways to answer a login that was checked: its slots are its own, and gone.
LEMMA AnswerIInv ==
  ASSUME IInv, NEW r \in Requests, pc[r] = "checking", Finish(r), now' = now, ips' = ips,
         Sound(pairs', PairKeys, PairLimit), AddsUp(pairs'), Inherits(pairs', pairs),
         Sound(accounts', Emails, AccountCap), AddsUp(accounts'), Inherits(accounts', accounts),
         Key(r) \in Entries(pairs') => r \notin pairs'[Key(r)].holders,
         email[r] \in Entries(accounts') => r \notin accounts'[email[r]].holders
  PROVE  IInv'
<1>1. Places' /\ Elsewhere(r)
  BY FinishPlaces DEF IInv
<1>2. \A k \in Entries(pairs') : r \notin pairs'[k].holders
  BY DEF Inherits, IInv, PairsHeld
<1>3. \A a \in Entries(accounts') : r \notin accounts'[a].holders
  BY DEF Inherits, IInv, AccountsHeld
<1>4. PairsHeld' /\ AccountsHeld'
  BY <1>1, <1>2, <1>3, HeldStays DEF Sound
<1>5. QED
  BY <1>1, <1>4 DEF IInv

\* A wrong guess keeps both slots as failures.
LEMMA WrongPasswordIInv ==
  ASSUME IInv, NEW r \in Requests, WrongPassword(r)
  PROVE  IInv'
<1>1. /\ pc[r] = "checking" /\ Finish(r) /\ now' = now /\ ips' = ips
      /\ pairs' = KeepSlot(pairs, Key(r), r) /\ accounts' = KeepSlot(accounts, email[r], r)
  BY DEF WrongPassword
<1>2. email[r] \in Emails /\ Key(r) \in PairKeys
  BY <1>1 DEF IInv, Places, Key, PairKeys
<1>3. /\ Sound(pairs', PairKeys, PairLimit) /\ AddsUp(pairs')
      /\ Inherits(pairs', pairs) /\ ~Holds(pairs', Key(r), r)
  BY <1>1, <1>2, KeepSlotSound, KeepSlotHolders, LimiterAssumption DEF IInv
<1>4. /\ Sound(accounts', Emails, AccountCap) /\ AddsUp(accounts')
      /\ Inherits(accounts', accounts) /\ ~Holds(accounts', email[r], r)
  BY <1>1, <1>2, KeepSlotSound, KeepSlotHolders, LimiterAssumption DEF IInv
<1>5. /\ Key(r) \in Entries(pairs') => r \notin pairs'[Key(r)].holders
      /\ email[r] \in Entries(accounts') => r \notin accounts'[email[r]].holders
  BY <1>3, <1>4 DEF Holds, Entries
<1>6. QED
  BY <1>1, <1>3, <1>4, <1>5, AnswerIInv

\* An error returns both slots.
LEMMA ReleaseIInv ==
  ASSUME IInv, NEW r \in Requests, Release(r)
  PROVE  IInv'
<1>1. /\ pc[r] = "checking" /\ Finish(r) /\ now' = now /\ ips' = ips
      /\ pairs' = ReturnSlot(pairs, Key(r), r) /\ accounts' = ReturnSlot(accounts, email[r], r)
  BY DEF Release
<1>2. email[r] \in Emails /\ Key(r) \in PairKeys
  BY <1>1 DEF IInv, Places, Key, PairKeys
<1>3. /\ Sound(pairs', PairKeys, PairLimit) /\ AddsUp(pairs')
      /\ Inherits(pairs', pairs) /\ ~Holds(pairs', Key(r), r)
  BY <1>1, <1>2, ReturnSlotSound, ReturnSlotHolders, LimiterAssumption DEF IInv
<1>4. /\ Sound(accounts', Emails, AccountCap) /\ AddsUp(accounts')
      /\ Inherits(accounts', accounts) /\ ~Holds(accounts', email[r], r)
  BY <1>1, <1>2, ReturnSlotSound, ReturnSlotHolders, LimiterAssumption DEF IInv
<1>5. /\ Key(r) \in Entries(pairs') => r \notin pairs'[Key(r)].holders
      /\ email[r] \in Entries(accounts') => r \notin accounts'[email[r]].holders
  BY <1>3, <1>4 DEF Holds, Entries
<1>6. QED
  BY <1>1, <1>3, <1>4, <1>5, AnswerIInv

\* A right password forgets the pair and returns the slot of the account.
LEMMA ClearFailuresIInv ==
  ASSUME IInv, NEW r \in Requests, ClearFailures(r)
  PROVE  IInv'
<1>1. /\ pc[r] = "checking" /\ Finish(r) /\ now' = now /\ ips' = ips
      /\ pairs' = Without(pairs, {Key(r)}) /\ accounts' = ReturnSlot(accounts, email[r], r)
  BY DEF ClearFailures
<1>2. email[r] \in Emails /\ Key(r) \in PairKeys
  BY <1>1 DEF IInv, Places, Key, PairKeys
<1>3. Sound(pairs', PairKeys, PairLimit) /\ AddsUp(pairs') /\ Inherits(pairs', pairs)
  <2>1. Sound(pairs', PairKeys, PairLimit) /\ From(pairs', pairs)
    BY <1>1, WithoutSound, LimiterAssumption DEF IInv
  <2>2. QED
    BY <2>1 DEF From, IInv
<1>4. Key(r) \notin Entries(pairs')
  BY <1>1 DEF Entries, Without
<1>5. /\ Sound(accounts', Emails, AccountCap) /\ AddsUp(accounts')
      /\ Inherits(accounts', accounts) /\ ~Holds(accounts', email[r], r)
  BY <1>1, <1>2, ReturnSlotSound, ReturnSlotHolders, LimiterAssumption DEF IInv
<1>6. email[r] \in Entries(accounts') => r \notin accounts'[email[r]].holders
  BY <1>5 DEF Holds, Entries
<1>7. QED
  BY <1>1, <1>3, <1>4, <1>5, <1>6, AnswerIInv

-----------------------------------------------------------------------------
\* IInv is inductive.
LEMMA StepIInv == IInv /\ [Next]_vars => IInv'
<1> SUFFICES ASSUME IInv, [Next]_vars PROVE IInv'
  OBVIOUS
<1>1. CASE Tick
  <2>1. now' = now + 1 /\ UNCHANGED <<windows, pc, from, email, told>>
    BY <1>1 DEF Tick
  <2>2. QED
    BY <2>1 DEF IInv, Places, windows, PairsHeld, AccountsHeld, Key
<1>2. ASSUME NEW r \in Requests, Handle(r) PROVE IInv'
  BY <1>2, AllowIPIInv, AnswerEarlyIInv, AllowAccountIInv, WrongPasswordIInv,
     ReleaseIInv, ClearFailuresIInv DEF Handle
<1>3. CASE UNCHANGED vars
  BY <1>3 DEF vars, windows, IInv, Places, PairsHeld, AccountsHeld, Key
<1>4. QED
  BY <1>1, <1>2, <1>3 DEF Next

\* IInv implies the invariants that are checked.
LEMMA IInvImplies == IInv => TypeOK /\ SlotsAddUp /\ GuessesBounded /\ MapsBounded
<1> SUFFICES ASSUME IInv PROVE TypeOK /\ SlotsAddUp /\ GuessesBounded /\ MapsBounded
  OBVIOUS
<1>1. TypeOK
  BY DEF IInv, Places, Sound, Maps, TypeOK
<1>2. SlotsAddUp
  BY DEF IInv, SlotsAddUp
<1>3. GuessesBounded
  BY DEF IInv, Sound, AddsUp, Bounded, GuessesBounded
<1>4. MapsBounded
  BY DEF IInv, Sound, Fits, MapsBounded
<1>5. QED
  BY <1>1, <1>2, <1>3, <1>4

\* The inductive invariant holds.
LEMMA Inductive == Spec => []IInv
  BY InitIInv, StepIInv, PTL DEF Spec

\* Every reachable state of the limiter is well typed.
THEOREM TypeCorrect == Spec => []TypeOK
  BY Inductive, IInvImplies, PTL

\* A count is always the wrong guesses of its window plus the logins still being
\* checked (allowAccount, returnSlot, clearFailures, release).
THEOREM SlotsAlwaysAddUp == Spec => []SlotsAddUp
  BY Inductive, IInvImplies, PTL

\* Parallel guesses never pass a limit (allowAccount).
THEOREM GuessesAlwaysBounded == Spec => []GuessesBounded
  BY Inductive, IInvImplies, PTL

\* No map outgrows limiterMaxEntries (admit).
THEOREM MapsAlwaysBounded == Spec => []MapsBounded
  BY Inductive, IInvImplies, PTL

-----------------------------------------------------------------------------
(* Retry-After.                                                            *)

\* Rounded up to whole seconds, the wait is no shorter than the ticks it is for.
LEMMA RetryAfterCovers ==
  ASSUME NEW ticks \in Int
  PROVE  RetryAfter(ticks) * Second \in Int /\ ticks <= RetryAfter(ticks) * Second
<1> DEFINE seconds == (ticks + Second - 1) \div Second
           rest    == (ticks + Second - 1) % Second
<1>1. seconds \in Int /\ rest \in 0..(Second - 1)
  BY LimiterAssumption
<1>2. ticks + Second - 1 = Second * seconds + rest
  BY LimiterAssumption
<1>3. RetryAfter(ticks) = IF seconds < 1 THEN 1 ELSE seconds
  BY DEF RetryAfter
<1>4. Second \in Nat /\ Second >= 1
  BY LimiterAssumption
<1> HIDE DEF seconds, rest
<1>5. CASE seconds < 1
  <2>1. Second * seconds <= 0
    BY <1>1, <1>4, <1>5
  <2>2. RetryAfter(ticks) * Second = Second
    BY <1>3, <1>4, <1>5
  <2>3. Second * seconds \in Int
    BY <1>1, <1>4
  <2>4. QED
    BY <1>1, <1>2, <1>4, <2>1, <2>2, <2>3
<1>6. CASE ~(seconds < 1)
  <2>1. RetryAfter(ticks) * Second = Second * seconds /\ Second * seconds \in Int
    BY <1>1, <1>3, <1>4, <1>6
  <2>2. QED
    BY <1>1, <1>2, <1>4, <2>1
<1>7. QED
  BY <1>5, <1>6

\* Every window has begun.
Past(m) == \A k \in Entries(m) : m[k].start <= now

\* live starts no window ahead of the clock.
LEMMA LivePast ==
  ASSUME now \in Nat, NEW K, NEW limit \in Nat, NEW m, Sound(m, K, limit), Past(m),
         NEW k \in K, NEW length \in Nat
  PROVE  Past(Live(m, k, length))
<1>1. \A n, gone : Past(n) => Past(Without(n, gone))
  BY DEF Past, Without, Entries
<1> DEFINE rest  == Current(m, k, length)
           swept == Swept(rest, length)
<1>2. Past(rest) /\ Past(swept)
  BY <1>1 DEF Current, Swept
<1>3. rest \in [K -> Window \cup {NoWindow}] /\ swept \in [K -> Window \cup {NoWindow}]
  BY DEF Current, Swept, Without, Sound, Maps
<1> HIDE DEF rest, swept
<1>4. Past([swept EXCEPT ![k] = Fresh])
  <2>1. Fresh.start <= now
    BY DEF Fresh
  <2>2. QED
    BY <1>2, <1>3, <2>1 DEF Past, Entries
<1>5. Past(Admit(rest, k, length))
  BY <1>2, <1>4 DEF Admit, swept
<1>6. QED
  BY <1>2, <1>5 DEF Live, rest

\* Every window of an IP key has begun.
LEMMA IpsPast == Spec => []Past(ips)
<1>1. Init => Past(ips)
  BY DEF Init, Past, Entries
<1>2. IInv /\ Past(ips) /\ [Next]_vars => Past(ips)'
  <2> SUFFICES ASSUME IInv, Past(ips), [Next]_vars PROVE Past(ips)'
    OBVIOUS
  <2>1. CASE now' = now /\ ips' = ips
    BY <2>1 DEF Past
  <2>2. CASE Tick
    <3>1. now' = now + 1 /\ ips' = ips /\ now \in Nat
      BY <2>2 DEF Tick, windows, IInv, Places
    <3>2. \A k \in Entries(ips) : ips[k].start \in Nat
      BY DEF IInv, Sound, Maps, Entries, Window
    <3>3. QED
      BY <3>1, <3>2 DEF Past
  <2>3. ASSUME NEW r \in Requests, AllowIP(r) PROVE Past(ips)'
    <3>1. PICK i \in IPs :
            \/ ips' = Live(ips, i, IpLength)
            \/ ips' = Count(Live(ips, i, IpLength), i, {})
      BY <2>3, Zenon DEF AllowIP
    <3> DEFINE map == Live(ips, i, IpLength)
    <3>2. now \in Nat /\ now' = now
      BY <2>3 DEF AllowIP, IInv, Places
    <3>3. Past(map) /\ Sound(map, IPs, IpLimit)
      BY <3>2, LivePast, LiveSound, LimiterAssumption DEF IInv
    <3> HIDE DEF map
    <3>4. \A k \in Entries(Count(map, i, {})) :
            k \in Entries(map) /\ Count(map, i, {})[k].start = map[k].start
      <4>1. map \in [IPs -> Window \cup {NoWindow}]
        BY <3>3 DEF Sound, Maps
      <4>2. \A w \in Window : Counted(w, {}).start = w.start
        BY DEF Counted, Window
      <4>3. CASE map[i] = NoWindow
        BY <4>3 DEF Count
      <4>4. CASE map[i] # NoWindow
        <5>1. map[i] \in Window
          BY <4>1, <4>4
        <5>2. Count(map, i, {}) = [map EXCEPT ![i] = Counted(map[i], {})]
          BY <4>4 DEF Count
        <5>3. QED
          BY <4>1, <4>2, <4>4, <5>1, <5>2 DEF Entries
      <4>5. QED
        BY <4>3, <4>4
    <3>5. Past(Count(map, i, {}))
      BY <3>3, <3>4 DEF Past
    <3>6. ips' = map \/ ips' = Count(map, i, {})
      BY <3>1 DEF map
    <3>7. \A k \in Entries(ips') : ips'[k].start <= now
      BY <3>3, <3>5, <3>6 DEF Past
    <3>8. QED
      BY <3>2, <3>7 DEF Past
  <2>4. QED
    BY <2>1, <2>2, <2>3 DEF Next, Handle, AnswerEarly, AllowAccount, WrongPassword,
       Release, ClearFailures, vars, windows
<1>3. QED
  BY <1>1, <1>2, Inductive, PTL DEF Spec

\* A refusal of r until a window of some length is over tells r to wait that long.
LEMMA RefuseUntil ==
  ASSUME IInv, NEW r \in Requests, NEW until \in Int, Refuse(r, until - now)
  PROVE  until <= now + told'[r] * Second
<1>1. now \in Nat /\ until - now \in Int
  BY DEF IInv, Places
<1>2. told'[r] = RetryAfter(until - now)
  BY DEF Refuse, IInv, Places
<1>3. RetryAfter(until - now) * Second \in Int /\ until - now <= RetryAfter(until - now) * Second
  BY <1>1, RetryAfterCovers
<1>4. QED
  BY <1>1, <1>2, <1>3

\* The Retry-After of allowIP reaches to the end of the window that refused.
LEMMA RetryAllowIP ==
  ASSUME IInv, Past(ips), NEW r \in Requests, AllowIP(r), pc'[r] = "refused"
  PROVE  LongEnough(r)
<1>1. PICK i \in IPs, e \in Emails :
        LET map == Live(ips, i, IpLength) IN
        /\ from' = [from EXCEPT ![r] = i]
        /\ \/ /\ map[i] = NoWindow
              /\ ips' = map
              /\ Refuse(r, IpLength)
           \/ /\ Full(map, i, IpLimit)
              /\ ips' = map
              /\ Refuse(r, map[i].start + IpLength - now)
           \/ pc' = [pc EXCEPT ![r] = "counted"]
  BY DEF AllowIP
<1> DEFINE map == Live(ips, i, IpLength)
<1>2. pc[r] = "idle" /\ now \in Nat /\ from'[r] = i /\ DOMAIN pc = Requests
  BY <1>1 DEF AllowIP, IInv, Places
<1>3. Sound(map, IPs, IpLimit) /\ Past(map)
  BY <1>2, LiveSound, LivePast, LimiterAssumption DEF IInv
<1>4. \/ map[i] = NoWindow /\ ips' = map /\ Refuse(r, IpLength)
      \/ Full(map, i, IpLimit) /\ ips' = map /\ Refuse(r, map[i].start + IpLength - now)
  <2>1. pc' # [pc EXCEPT ![r] = "counted"]
    BY <1>2
  <2>2. QED
    BY <1>1, <2>1, Zenon DEF map
<1> HIDE DEF map
<1>5. CASE map[i] = NoWindow /\ ips' = map /\ Refuse(r, IpLength)
  <2>1. now + IpLength \in Int /\ (now + IpLength) - now = IpLength
    BY <1>2, LimiterAssumption
  <2>2. now + IpLength <= now + told'[r] * Second
    BY <1>5, <2>1, RefuseUntil
  <2>3. told'[r] * Second \in Int
    <3>1. told'[r] = RetryAfter(IpLength) /\ IpLength \in Int
      BY <1>5, LimiterAssumption DEF Refuse, IInv, Places
    <3>2. QED
      BY <3>1, RetryAfterCovers
  <2>4. \A k \in Entries(ips') : ips'[k].start + IpLength <= now + told'[r] * Second
    <3> TAKE k \in Entries(ips')
    <3>1. ips'[k].start \in Nat /\ ips'[k].start <= now
      BY <1>3, <1>5 DEF Past, Sound, Maps, Entries, Window
    <3>2. QED
      BY <1>2, <2>2, <2>3, <3>1, LimiterAssumption
  <2>5. i \notin Entries(ips')
    BY <1>5 DEF Entries
  <2>6. QED
    BY <1>2, <2>4, <2>5 DEF LongEnough
<1>6. CASE Full(map, i, IpLimit) /\ ips' = map /\ Refuse(r, map[i].start + IpLength - now)
  <2>1. i \in Entries(ips') /\ map[i].start \in Nat
    BY <1>3, <1>6, WindowOf DEF Full, Window
  <2>2. map[i].start + IpLength \in Int
    BY <2>1, LimiterAssumption
  <2>3. ips'[i].start + IpLength <= now + told'[r] * Second
    <3> DEFINE until == map[i].start + IpLength
    <3>1. until \in Int /\ Refuse(r, until - now)
      <4>1. map[i].start + IpLength - now = until - now
        BY <1>1, <1>2, <2>1, LimiterAssumption
      <4>2. QED
        BY <1>6, <2>2, <4>1
    <3> HIDE DEF until
    <3>2. until <= now + told'[r] * Second
      BY <3>1, RefuseUntil
    <3>3. QED
      BY <1>6, <3>2 DEF until
  <2>4. QED
    BY <1>2, <2>1, <2>3 DEF LongEnough
<1>7. QED
  BY <1>4, <1>5, <1>6

\* So does that of allowAccount, the later of its two windows'.
LEMMA RetryAllowAccount ==
  ASSUME IInv, NEW r \in Requests, AllowAccount(r), pc'[r] = "refused"
  PROVE  LongEnough(r)
<1> DEFINE byPair    == Live(pairs, Key(r), Length)
           byAccount == Live(accounts, email[r], Length)
<1>1. pc[r] = "counted" /\ now \in Nat
  BY DEF AllowAccount, IInv, Places
<1>2. email[r] \in Emails /\ Key(r) \in PairKeys
  BY <1>1 DEF IInv, Places, Key, PairKeys
<1>3. Sound(byPair, PairKeys, PairLimit) /\ Sound(byAccount, Emails, AccountCap)
  BY <1>1, <1>2, LiveSound, LimiterAssumption DEF IInv
<1>4. \/ /\ Full(byPair, Key(r), PairLimit)
         /\ Refuse(r, byPair[Key(r)].start + Length - now)
         /\ pairs' = byPair
      \/ /\ Full(byAccount, email[r], AccountCap)
         /\ Refuse(r, byAccount[email[r]].start + Length - now)
         /\ accounts' = byAccount
  <2>1. pc' # [pc EXCEPT ![r] = "checking"]
    BY DEF IInv, Places
  <2>2. QED
    BY <2>1, Zenon DEF AllowAccount
<1> HIDE DEF byPair, byAccount
<1>5. CASE /\ Full(byPair, Key(r), PairLimit)
           /\ Refuse(r, byPair[Key(r)].start + Length - now)
           /\ pairs' = byPair
  <2>1. Key(r) \in Entries(pairs') /\ byPair[Key(r)].start \in Nat
    BY <1>2, <1>3, <1>5, WindowOf DEF Full, Window
  <2>2. byPair[Key(r)].start + Length \in Int
    BY <2>1, LimiterAssumption
  <2>3. pairs'[Key(r)].start + Length <= now + told'[r] * Second
    <3> DEFINE until == byPair[Key(r)].start + Length
    <3>1. until \in Int /\ Refuse(r, until - now)
      <4>1. byPair[Key(r)].start + Length - now = until - now
        BY <1>1, <1>2, <2>1, LimiterAssumption
      <4>2. QED
        BY <1>5, <2>2, <4>1
    <3> HIDE DEF until
    <3>2. until <= now + told'[r] * Second
      BY <3>1, RefuseUntil
    <3>3. QED
      BY <1>5, <3>2 DEF until
  <2>4. Key(r) \in Blocking(pairs', PairLimit)
    BY <1>5, <2>1 DEF Full, Blocking
  <2>5. QED
    BY <1>1, <2>3, <2>4 DEF LongEnough
<1>6. CASE /\ Full(byAccount, email[r], AccountCap)
           /\ Refuse(r, byAccount[email[r]].start + Length - now)
           /\ accounts' = byAccount
  <2>1. email[r] \in Entries(accounts') /\ byAccount[email[r]].start \in Nat
    BY <1>2, <1>3, <1>6, WindowOf DEF Full, Window
  <2>2. byAccount[email[r]].start + Length \in Int
    BY <2>1, LimiterAssumption
  <2>3. accounts'[email[r]].start + Length <= now + told'[r] * Second
    <3> DEFINE until == byAccount[email[r]].start + Length
    <3>1. until \in Int /\ Refuse(r, until - now)
      <4>1. byAccount[email[r]].start + Length - now = until - now
        BY <1>1, <1>2, <2>1, LimiterAssumption
      <4>2. QED
        BY <1>6, <2>2, <4>1
    <3> HIDE DEF until
    <3>2. until <= now + told'[r] * Second
      BY <3>1, RefuseUntil
    <3>3. QED
      BY <1>6, <3>2 DEF until
  <2>4. email[r] \in Blocking(accounts', AccountCap)
    BY <1>6, <2>1 DEF Full, Blocking
  <2>5. QED
    BY <1>1, <2>3, <2>4 DEF LongEnough
<1>7. QED
  BY <1>4, <1>5, <1>6

\* A refused client that waits for Retry-After does not meet the same window again
\* (writeTooManyAttempts).
THEOREM RetryAlwaysLongEnough == Spec => RetryIsLongEnough
<1> DEFINE Step == \A r \in Requests :
                     pc[r] # "refused" /\ pc'[r] = "refused" => LongEnough(r)
<1>1. IInv /\ Past(ips) /\ [Next]_vars => [Step]_vars
  <2> SUFFICES ASSUME IInv, Past(ips), Next, NEW r \in Requests,
                      pc[r] # "refused", pc'[r] = "refused"
               PROVE  LongEnough(r)
    BY DEF Step
  <2>1. ~Tick
    BY DEF Tick
  <2>2. ASSUME NEW q \in Requests, Handle(q) PROVE LongEnough(r)
    <3>1. pc \in [Requests -> {"idle", "counted", "checking", "refused"}]
      BY DEF IInv, Places
    <3>2. q = r
      BY <2>2, <3>1 DEF Handle, AllowIP, AnswerEarly, AllowAccount, WrongPassword,
         Release, ClearFailures, Finish, Refuse
    <3>3. ~Finish(r)
      BY <3>1 DEF Finish
    <3>4. AllowIP(r) \/ AllowAccount(r)
      BY <2>2, <3>2, <3>3 DEF Handle, AnswerEarly, WrongPassword, Release, ClearFailures
    <3>5. QED
      BY <3>4, RetryAllowIP, RetryAllowAccount
  <2>3. QED
    BY <2>1, <2>2 DEF Next
<1>2. QED
  BY <1>1, Inductive, IpsPast, PTL DEF Spec, RetryIsLongEnough

=============================================================================
