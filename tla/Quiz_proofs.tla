---------------------------- MODULE Quiz_proofs ----------------------------
(***************************************************************************)
(* What the recursive definitions of the quizzes compute, for every text   *)
(* and every answer: the table of edits, the walk over it, the folds.  It  *)
(* is proved in three steps: the function that a definition CHOOSEs exists,*)
(* because each value only asks for lower ones; so it has the equations    *)
(* written; and what it computes follows by induction on the same height.  *)
(***************************************************************************)
EXTENDS Quiz, FiniteSetTheorems, TLAPS

WordT == [word : CardWords, sentence : Sentences]

\* Every set of numbers with a number in it has a least one.
LEMMA LeastNumber ==
  ASSUME NEW S \in SUBSET Nat, S # {}
  PROVE  Min(S) \in S /\ \A n \in S : Min(S) <= n
<1> DEFINE T == {1..n : n \in S}
<1>1. T \subseteq FiniteSubsetsOf(Nat) /\ T # {}
  <2>1. \A n \in S : IsFiniteSet(1..n) /\ 1..n \subseteq Nat
    BY FS_Interval
  <2>2. QED
    BY <2>1 DEF FiniteSubsetsOf
<1>2. PICK x \in T : \A y \in T : <<y, x>> \notin StrictSubsetOrdering(Nat)
  <2> HIDE DEF T
  <2>1. QED
    BY <1>1, WFMin, FS_StrictSubsetOrderingWellFounded
<1>3. PICK m \in S : x = 1..m
  OBVIOUS
<1>4. ASSUME NEW n \in S, n < m PROVE FALSE
  <2>1. 1..n \subseteq 1..m /\ 1..n # 1..m
    <3>1. m \in 1..m /\ m \notin 1..n
      BY <1>4
    <3>2. QED
      BY <1>4, <3>1
  <2>2. <<1..n, 1..m>> \in StrictSubsetOrdering(Nat)
    BY <2>1 DEF StrictSubsetOrdering
  <2>3. QED
    BY <1>2, <1>3, <2>2
<1>5. \E k \in S : \A n \in S : k <= n
  BY <1>4
<1>6. QED
  BY <1>5 DEF Min

-----------------------------------------------------------------------------
(* Recursion over data: the diff of two texts, the words it missed.        *)

\* Induction, over a set of numbers.
LEMMA Induction ==
  ASSUME NEW S, 0 \in S, \A n \in Nat : n \in S => n + 1 \in S
  PROVE  \A n \in Nat : n \in S
<1> DEFINE Bad == {n \in Nat : n \notin S}
<1>1. ASSUME Bad # {} PROVE FALSE
  <2>1. PICK n \in Nat : n \notin S /\ \A m \in Nat : m \notin S => n <= m
    <3>1. Bad \in SUBSET Nat
      OBVIOUS
    <3>2. Min(Bad) \in Bad /\ \A m \in Bad : Min(Bad) <= m
      BY <1>1, <3>1, LeastNumber
    <3>3. QED
      BY <3>2
  <2>2. n # 0 /\ n - 1 \in Nat /\ n - 1 < n
    BY <2>1
  <2>3. n - 1 \in S
    BY <2>1, <2>2
  <2>4. (n - 1) + 1 = n
    BY <2>1
  <2>5. QED
    BY <2>1, <2>2, <2>3, <2>4
<1>2. QED
  BY <1>1

\* Induction on a height.
LEMMA HeightInduction ==
  ASSUME NEW D, NEW h \in [D -> Nat], NEW S, \A place \in D : (\A q \in D : h[q] < h[place] => q \in S) => place \in S
  PROVE  D \subseteq S
<1> DEFINE N == {n \in Nat : \A place \in D : h[place] <= n => place \in S}
<1>0. \A place \in D : h[place] \in Nat
  OBVIOUS
<1>1. 0 \in N
  <2>1. ASSUME NEW place \in D, h[place] <= 0 PROVE place \in S
    <3>1. \A q \in D : ~(h[q] < h[place])
      BY <1>0, <2>1
    <3>2. QED
      BY <3>1
  <2>2. QED
    BY <2>1
<1>2. ASSUME NEW n \in Nat, n \in N PROVE n + 1 \in N
  <2>1. ASSUME NEW place \in D, h[place] <= n + 1 PROVE place \in S
    <3>1. \A q \in D : h[q] < h[place] => h[q] <= n
      BY <1>0, <2>1
    <3>2. QED
      BY <1>2, <3>1
  <2>2. QED
    BY <2>1
<1> HIDE DEF N
<1>3. \A n \in Nat : n \in N
  BY <1>1, <1>2, Induction
<1>4. ASSUME NEW place \in D PROVE place \in S
  <2>1. h[place] \in N /\ h[place] <= h[place]
    BY <1>0, <1>3
  <2>2. QED
    BY <2>1 DEF N
<1>5. QED
  BY <1>4

\* The recursions of DiffWords, Entries and Miss, one step each.
CostAt(ref, got, f, place) ==
  LET i == place[1]
      j == place[2] IN
  IF i > Len(ref) THEN Len(got) + 1 - j
  ELSE IF j > Len(got) THEN Len(ref) + 1 - i
  ELSE Min({f[<<i + 1, j + 1>>] + (IF ref[i] = got[j] THEN 0 ELSE 1), f[<<i + 1, j>>] + 1, f[<<i, j + 1>>] + 1})
DiffAt(ref, got, f, place) ==
  LET cost == Cost(ref, got)
      i == place[1]
      j == place[2]
      both == i <= Len(ref) /\ j <= Len(got) IN
  IF i > Len(ref) /\ j > Len(got) THEN <<>>
  ELSE IF both /\ ref[i] = got[j] /\ cost[place] = cost[<<i + 1, j + 1>>]
  THEN <<[kind |-> "correct", word |-> ref[i]]>> \o f[<<i + 1, j + 1>>]
  ELSE IF both /\ ref[i] # got[j] /\ cost[place] = cost[<<i + 1, j + 1>>] + 1
  THEN <<[kind |-> "replaced", word |-> ref[i], typed |-> got[j]]>> \o f[<<i + 1, j + 1>>]
  ELSE IF i <= Len(ref) /\ cost[place] = cost[<<i + 1, j>>] + 1
  THEN <<[kind |-> "missed", word |-> ref[i]]>> \o f[<<i + 1, j>>]
  ELSE <<[kind |-> "extra", typed |-> got[j]]>> \o f[<<i, j + 1>>]
Keep(list, entry, kinds) == IF entry.kind \in kinds THEN Append(list, entry) ELSE list
AddMissed(list, word, s) == IF word \in CardWords \ {entry.word : entry \in ToSet(list)} THEN Append(list, WordOf(word, s)) ELSE list
EntriesAt(diff, kinds, f, place) == IF place = {} THEN <<>> ELSE Keep(f[place \ {Max(place)}], diff[Max(place)], kinds)
MissAt(base, s, words, f, place) == IF place = {} THEN base ELSE AddMissed(f[place \ {Max(place)}], words[Max(place)], s)

Recursion(r, f, place) ==
  CASE r.of = "cost"    -> CostAt(r.ref, r.got, f, place)
    [] r.of = "diff"    -> DiffAt(r.ref, r.got, f, place)
    [] r.of = "entries" -> EntriesAt(r.diff, r.kinds, f, place)
    [] r.of = "miss"    -> MissAt(r.base, r.s, r.words, f, place)

\* A recursion that only asks for what is lower has a function.
LEMMA RecursionExists ==
  ASSUME NEW r, NEW D, NEW h \in [D -> Nat], NEW top \in Nat, \A place \in D : h[place] <= top,
         \A f, g : \A place \in D : (\A q \in D : h[q] < h[place] => f[q] = g[q]) => Recursion(r, f, place) = Recursion(r, g, place)
  PROVE  \E f : f = [place \in D |-> Recursion(r, f, place)]
<1> DEFINE Solves(f, n) == \A place \in D : h[place] <= n => f[place] = Recursion(r, f, place)
           S == {n \in Nat : \E f : Solves(f, n)}
<1>0. \A place \in D : h[place] \in Nat
  OBVIOUS
<1>1. 0 \in S
  <2> DEFINE f == [place \in D |-> Recursion(r, {}, place)]
  <2>1. ASSUME NEW place \in D, h[place] <= 0 PROVE f[place] = Recursion(r, f, place)
    <3>1. \A q \in D : ~(h[q] < h[place])
      BY <1>0, <2>1
    <3>2. Recursion(r, {}, place) = Recursion(r, f, place)
      <4> HIDE DEF f
      <4>1. QED
        BY <3>1
    <3>3. QED
      BY <3>2
  <2> HIDE DEF f
  <2>2. QED
    BY <2>1
<1>2. ASSUME NEW n \in Nat, n \in S PROVE n + 1 \in S
  <2>1. PICK f : Solves(f, n)
    BY <1>2
  <2> DEFINE g == [place \in D |-> IF h[place] <= n THEN f[place] ELSE Recursion(r, f, place)]
  <2>2. \A place \in D : g[place] = IF h[place] <= n THEN f[place] ELSE Recursion(r, f, place)
    OBVIOUS
  <2> HIDE DEF g
  <2>3. ASSUME NEW place \in D, h[place] <= n + 1 PROVE g[place] = Recursion(r, g, place)
    <3>1. \A q \in D : h[q] < h[place] => g[q] = f[q]
      BY <1>0, <2>2, <2>3
    <3>2. Recursion(r, g, place) = Recursion(r, f, place)
      BY <3>1
    <3>3. QED
      BY <2>1, <2>2, <3>2
  <2>4. QED
    BY <2>3
<1> HIDE DEF S
<1>3. top \in S
  BY <1>1, <1>2, Induction
<1>4. PICK f : \A place \in D : f[place] = Recursion(r, f, place)
  BY <1>3 DEF S
<1> DEFINE g == [place \in D |-> f[place]]
<1>5. \A place \in D : g[place] = f[place]
  OBVIOUS
<1>6. g = [place \in D |-> f[place]]
  OBVIOUS
<1> HIDE DEF g
<1>7. \A place \in D : Recursion(r, g, place) = f[place]
  BY <1>4, <1>5
<1>8. g = [place \in D |-> Recursion(r, g, place)]
  BY <1>6, <1>7
<1>9. QED
  BY <1>8

\* The places of the table, and how much is ahead of each.
Places(ref, got) == (1..Len(ref) + 1) \X (1..Len(got) + 1)
Ahead(ref, got) == [place \in Places(ref, got) |-> (Len(ref) + 1 - place[1]) + (Len(got) + 1 - place[2])]

\* The places of the table, and how much of both texts is ahead of each.
LEMMA PlacesIs ==
  ASSUME NEW ref \in Seq(Words), NEW got \in Seq(Words)
  PROVE  /\ Len(ref) \in Nat /\ Len(got) \in Nat /\ Len(ref) + Len(got) \in Nat
         /\ \A i \in 1..Len(ref) + 1, j \in 1..Len(got) + 1 :
              /\ <<i, j>> \in Places(ref, got)
              /\ Ahead(ref, got)[<<i, j>>] = (Len(ref) + 1 - i) + (Len(got) + 1 - j)
         /\ \A place \in Places(ref, got) :
              /\ place = <<place[1], place[2]>> /\ place[1] \in 1..Len(ref) + 1 /\ place[2] \in 1..Len(got) + 1
              /\ Ahead(ref, got)[place] \in Nat /\ Ahead(ref, got)[place] <= Len(ref) + Len(got)
         /\ Ahead(ref, got) \in [Places(ref, got) -> Nat]
<1>1. Len(ref) \in Nat /\ Len(got) \in Nat /\ Len(ref) + Len(got) \in Nat
  OBVIOUS
<1>2. \A i \in 1..Len(ref) + 1, j \in 1..Len(got) + 1 :
        <<i, j>> \in Places(ref, got) /\ Ahead(ref, got)[<<i, j>>] = (Len(ref) + 1 - i) + (Len(got) + 1 - j)
  BY DEF Places, Ahead
<1>3. \A place \in Places(ref, got) : place = <<place[1], place[2]>> /\ place[1] \in 1..Len(ref) + 1 /\ place[2] \in 1..Len(got) + 1
  BY DEF Places
<1>4. ASSUME NEW place \in Places(ref, got)
      PROVE  Ahead(ref, got)[place] \in Nat /\ Ahead(ref, got)[place] <= Len(ref) + Len(got)
  <2> DEFINE i == place[1]
             j == place[2]
  <2>1. i \in 1..Len(ref) + 1 /\ j \in 1..Len(got) + 1
    BY <1>3
  <2>2. Ahead(ref, got)[place] = (Len(ref) + 1 - i) + (Len(got) + 1 - j)
    BY DEF Ahead
  <2> HIDE DEF i, j
  <2>3. QED
    BY <1>1, <2>1, <2>2
<1>5. Ahead(ref, got) \in [Places(ref, got) -> Nat]
  <2>1. DOMAIN Ahead(ref, got) = Places(ref, got) /\ Ahead(ref, got) = [place \in Places(ref, got) |-> Ahead(ref, got)[place]]
    BY DEF Ahead
  <2>2. QED
    BY <1>4, <2>1
<1>6. QED
  BY <1>1, <1>2, <1>3, <1>4, <1>5

\* The next places are in the table, and have less ahead.
LEMMA PlacesNext ==
  ASSUME NEW ref \in Seq(Words), NEW got \in Seq(Words), NEW i \in 1..Len(ref) + 1, NEW j \in 1..Len(got) + 1
  PROVE  LET h == Ahead(ref, got) IN
         /\ i <= Len(ref) => <<i + 1, j>> \in Places(ref, got) /\ h[<<i + 1, j>>] < h[<<i, j>>]
         /\ j <= Len(got) => <<i, j + 1>> \in Places(ref, got) /\ h[<<i, j + 1>>] < h[<<i, j>>]
         /\ i <= Len(ref) /\ j <= Len(got) => <<i + 1, j + 1>> \in Places(ref, got) /\ h[<<i + 1, j + 1>>] < h[<<i, j>>]
<1> DEFINE h == Ahead(ref, got)
<1>1. Len(ref) \in Nat /\ Len(got) \in Nat
  BY PlacesIs
<1>2. /\ i <= Len(ref) => i + 1 \in 1..Len(ref) + 1
      /\ j <= Len(got) => j + 1 \in 1..Len(got) + 1
  BY <1>1
<1>3. h[<<i, j>>] = (Len(ref) + 1 - i) + (Len(got) + 1 - j)
  BY PlacesIs
<1>4. i <= Len(ref) => <<i + 1, j>> \in Places(ref, got) /\ h[<<i + 1, j>>] = (Len(ref) + 1 - (i + 1)) + (Len(got) + 1 - j)
  BY <1>2, PlacesIs
<1>5. j <= Len(got) => <<i, j + 1>> \in Places(ref, got) /\ h[<<i, j + 1>>] = (Len(ref) + 1 - i) + (Len(got) + 1 - (j + 1))
  BY <1>2, PlacesIs
<1>6. i <= Len(ref) /\ j <= Len(got) =>
        <<i + 1, j + 1>> \in Places(ref, got) /\ h[<<i + 1, j + 1>>] = (Len(ref) + 1 - (i + 1)) + (Len(got) + 1 - (j + 1))
  BY <1>2, PlacesIs
<1> HIDE DEF h
<1>7. QED
  BY <1>1, <1>3, <1>4, <1>5, <1>6 DEF h

\* The table is the one that diffWords fills.
LEMMA CostIs ==
  ASSUME NEW ref \in Seq(Words), NEW got \in Seq(Words)
  PROVE  Cost(ref, got) = [place \in Places(ref, got) |-> CostAt(ref, got, Cost(ref, got), place)]
<1> DEFINE r == [of |-> "cost", ref |-> ref, got |-> got]
           D == Places(ref, got)
           h == Ahead(ref, got)
<1>1. \A f, place : Recursion(r, f, place) = CostAt(ref, got, f, place)
  BY DEF Recursion
<1>2. ASSUME NEW f, NEW g, NEW place \in D, \A q \in D : h[q] < h[place] => f[q] = g[q]
      PROVE  CostAt(ref, got, f, place) = CostAt(ref, got, g, place)
  <2>1. place = <<place[1], place[2]>> /\ place[1] \in 1..Len(ref) + 1 /\ place[2] \in 1..Len(got) + 1 /\ Len(ref) \in Nat /\ Len(got) \in Nat
    BY PlacesIs
  <2>2. CASE place[1] > Len(ref)
    BY <2>2 DEF CostAt
  <2>3. CASE place[1] <= Len(ref) /\ place[2] > Len(got)
    BY <2>1, <2>3 DEF CostAt
  <2>4. CASE place[1] <= Len(ref) /\ place[2] <= Len(got)
    <3>1. /\ f[<<place[1] + 1, place[2] + 1>>] = g[<<place[1] + 1, place[2] + 1>>]
          /\ f[<<place[1] + 1, place[2]>>] = g[<<place[1] + 1, place[2]>>]
          /\ f[<<place[1], place[2] + 1>>] = g[<<place[1], place[2] + 1>>]
      BY <1>2, <2>1, <2>4, PlacesNext
    <3>2. QED
      BY <2>1, <2>4, <3>1 DEF CostAt
  <2>5. QED
    BY <2>1, <2>2, <2>3, <2>4
<1>3. \A f, g : \A place \in D : (\A q \in D : h[q] < h[place] => f[q] = g[q]) => Recursion(r, f, place) = Recursion(r, g, place)
  BY <1>1, <1>2
<1> HIDE DEF r, D, h
<1>4. h \in [D -> Nat] /\ Len(ref) + Len(got) \in Nat /\ \A place \in D : h[place] <= Len(ref) + Len(got)
  BY PlacesIs DEF D, h
<1>5. PICK f : f = [place \in D |-> Recursion(r, f, place)]
  BY <1>3, <1>4, RecursionExists
<1>6. f = [place \in Places(ref, got) |-> CostAt(ref, got, f, place)]
  BY <1>1, <1>5 DEF D
<1>7. Cost(ref, got) = CHOOSE g : g = [place \in Places(ref, got) |-> CostAt(ref, got, g, place)]
  BY DEF Cost, Places, CostAt
<1>8. QED
  BY <1>6, <1>7

\* What an entry of the table is made of.
CostCase(ref, got, i, j) ==
  LET cost == Cost(ref, got) IN
  /\ i > Len(ref) => cost[<<i, j>>] = Len(got) + 1 - j
  /\ i <= Len(ref) /\ j > Len(got) => cost[<<i, j>>] = Len(ref) + 1 - i
  /\ i <= Len(ref) /\ j <= Len(got) =>
       cost[<<i, j>>] = Min({cost[<<i + 1, j + 1>>] + (IF ref[i] = got[j] THEN 0 ELSE 1),
                             cost[<<i + 1, j>>] + 1, cost[<<i, j + 1>>] + 1})

\* The table's entry in each case, where neither, one or both texts have ended.
LEMMA CostCases ==
  ASSUME NEW ref \in Seq(Words), NEW got \in Seq(Words), NEW i \in 1..Len(ref) + 1, NEW j \in 1..Len(got) + 1
  PROVE  CostCase(ref, got, i, j)
<1> DEFINE cost == Cost(ref, got)
<1>1. <<i, j>> \in Places(ref, got) /\ Len(ref) \in Nat /\ Len(got) \in Nat /\ i \in Nat /\ j \in Nat
  BY PlacesIs
<1>2. cost[<<i, j>>] = CostAt(ref, got, cost, <<i, j>>)
  <2>1. cost = [place \in Places(ref, got) |-> CostAt(ref, got, cost, place)]
    BY CostIs
  <2> HIDE DEF cost
  <2>2. QED
    BY <1>1, <2>1
<1> HIDE DEF cost
<1>3. CostAt(ref, got, cost, <<i, j>>) =
        IF i > Len(ref) THEN Len(got) + 1 - j
        ELSE IF j > Len(got) THEN Len(ref) + 1 - i
        ELSE Min({cost[<<i + 1, j + 1>>] + (IF ref[i] = got[j] THEN 0 ELSE 1), cost[<<i + 1, j>>] + 1, cost[<<i, j + 1>>] + 1})
  BY DEF CostAt
<1>4. (i <= Len(ref) => ~(i > Len(ref))) /\ (j <= Len(got) => ~(j > Len(got)))
  BY <1>1
<1>5. QED
  BY <1>2, <1>3, <1>4 DEF cost, CostCase

\* Every entry of the table is a number.
LEMMA CostNat ==
  ASSUME NEW ref \in Seq(Words), NEW got \in Seq(Words)
  PROVE  \A place \in Places(ref, got) : Cost(ref, got)[place] \in Nat
<1> DEFINE cost == Cost(ref, got)
           D == Places(ref, got)
           h == Ahead(ref, got)
           S == {place \in D : cost[place] \in Nat}
<1>0. \A place \in D : /\ place = <<place[1], place[2]>> /\ place[1] \in 1..Len(ref) + 1 /\ place[2] \in 1..Len(got) + 1
                    /\ h[place] \in Nat /\ h[place] <= Len(ref) + Len(got)
                    /\ h[place] = (Len(ref) + 1 - place[1]) + (Len(got) + 1 - place[2])
  BY PlacesIs
<1>00. Len(ref) \in Nat /\ Len(got) \in Nat /\ Len(ref) + Len(got) \in Nat
  BY PlacesIs
<1>1. ASSUME NEW place \in D, \A q \in D : h[q] < h[place] => cost[q] \in Nat PROVE cost[place] \in Nat
  <2>1. PICK i \in 1..Len(ref) + 1, j \in 1..Len(got) + 1 : place = <<i, j>>
    BY <1>0
  <2>0. CostCase(ref, got, i, j)
    BY CostCases
  <2>2. CASE i > Len(ref)
    <3>1. cost[<<i, j>>] = Len(got) + 1 - j
      BY <2>2, <2>0 DEF CostCase
    <3> HIDE DEF cost
    <3>2. QED
      BY <1>00, <2>1, <3>1
  <2>3. CASE i <= Len(ref) /\ j > Len(got)
    <3>1. cost[<<i, j>>] = Len(ref) + 1 - i
      BY <2>3, <2>0 DEF CostCase
    <3> HIDE DEF cost
    <3>2. QED
      BY <1>00, <2>1, <3>1
  <2>4. CASE i <= Len(ref) /\ j <= Len(got)
    <3> DEFINE T == {cost[<<i + 1, j + 1>>] + (IF ref[i] = got[j] THEN 0 ELSE 1), cost[<<i + 1, j>>] + 1, cost[<<i, j + 1>>] + 1}
    <3>1. cost[<<i + 1, j + 1>>] \in Nat /\ cost[<<i + 1, j>>] \in Nat /\ cost[<<i, j + 1>>] \in Nat
      BY <1>1, <2>1, <2>4, PlacesNext
    <3>2. cost[<<i, j>>] = Min(T)
      BY <2>4, <2>0 DEF CostCase
    <3>3. T \in SUBSET Nat /\ T # {}
      <4> HIDE DEF cost
      <4>1. QED
        BY <3>1
    <3>4. QED
      <4> HIDE DEF T, cost
      <4>1. QED
        BY <2>1, <3>2, <3>3, LeastNumber
  <2>5. QED
    BY <1>00, <2>2, <2>3, <2>4
<1> HIDE DEF cost, D, h
<1>2. h \in [D -> Nat]
  BY PlacesIs DEF D, h
<1>3. \A place \in D : (\A q \in D : h[q] < h[place] => q \in S) => place \in S
  BY <1>1
<1> HIDE DEF S
<1>4. D \subseteq S
  BY <1>2, <1>3, HeightInduction
<1>5. QED
  BY <1>4 DEF S, cost, D

\* An edit costs one: the table never asks more than any next place with its edit, and as much as one of them.
CostStep(ref, got, i, j) ==
  LET cost == Cost(ref, got)
      edit == IF ref[i] = got[j] THEN 0 ELSE 1
      c == cost[<<i, j>>]
      missed == cost[<<i + 1, j>>]
      extra  == cost[<<i, j + 1>>]
      both   == cost[<<i + 1, j + 1>>] IN
  /\ c \in Nat
  /\ i > Len(ref) => c = Len(got) + 1 - j
  /\ j > Len(got) => c = Len(ref) + 1 - i
  /\ i <= Len(ref) => missed \in Nat /\ c <= missed + 1
  /\ j <= Len(got) => extra \in Nat /\ c <= extra + 1
  /\ i <= Len(ref) /\ j <= Len(got) =>
       both \in Nat /\ c <= both + edit /\ (c = both + edit \/ c = missed + 1 \/ c = extra + 1)
  /\ i <= Len(ref) /\ j > Len(got) => c = missed + 1
  /\ i > Len(ref) /\ j <= Len(got) => c = extra + 1

\* An entry is no more than each next one with its edit, and as much as one of them.
LEMMA CostSteps ==
  ASSUME NEW ref \in Seq(Words), NEW got \in Seq(Words), NEW i \in 1..Len(ref) + 1, NEW j \in 1..Len(got) + 1
  PROVE  CostStep(ref, got, i, j)
<1> DEFINE cost == Cost(ref, got)
           edit == IF ref[i] = got[j] THEN 0 ELSE 1
           c == cost[<<i, j>>]
           missed == cost[<<i + 1, j>>]
           extra  == cost[<<i, j + 1>>]
           both   == cost[<<i + 1, j + 1>>]
           T == {both + edit, missed + 1, extra + 1}
<1>1. Len(ref) \in Nat /\ Len(got) \in Nat /\ <<i, j>> \in Places(ref, got)
  BY PlacesIs
<1>2. /\ i <= Len(ref) => i + 1 \in 1..Len(ref) + 1
      /\ j <= Len(got) => j + 1 \in 1..Len(got) + 1
  BY <1>1
<1>3. /\ c \in Nat /\ edit \in {0, 1}
      /\ i <= Len(ref) => missed \in Nat
      /\ j <= Len(got) => extra \in Nat
      /\ i <= Len(ref) /\ j <= Len(got) => both \in Nat
  BY <1>1, <1>2, PlacesIs, CostNat
<1>4. /\ i > Len(ref) => c = Len(got) + 1 - j
      /\ i <= Len(ref) /\ j > Len(got) => c = Len(ref) + 1 - i
      /\ i <= Len(ref) /\ j <= Len(got) => c = Min(T)
  <2>1. CostCase(ref, got, i, j)
    BY CostCases
  <2>2. QED
    BY <2>1 DEF CostCase
<1>5. ASSUME i <= Len(ref), j > Len(got) PROVE missed = Len(ref) + 1 - (i + 1)
  <2>1. CostCase(ref, got, i + 1, j)
    BY <1>2, <1>5, CostCases
  <2>2. i + 1 > Len(ref) => missed = Len(got) + 1 - j
    BY <2>1 DEF CostCase
  <2>3. i + 1 <= Len(ref) => missed = Len(ref) + 1 - (i + 1)
    BY <1>5, <2>1 DEF CostCase
  <2> HIDE DEF missed
  <2>4. QED
    BY <1>1, <1>5, <2>2, <2>3
<1>6. ASSUME i > Len(ref), j <= Len(got) PROVE extra = Len(got) + 1 - (j + 1)
  <2>1. CostCase(ref, got, i, j + 1)
    BY <1>2, <1>6, CostCases
  <2>2. QED
    BY <1>6, <2>1 DEF CostCase
<1> HIDE DEF c, missed, extra, both, edit
<1>7. ASSUME i <= Len(ref), j <= Len(got)
      PROVE  c \in T /\ \A n \in T : c <= n
  <2>1. T \in SUBSET Nat /\ T # {}
    BY <1>3, <1>7
  <2>2. c = Min(T)
    BY <1>4, <1>7
  <2> HIDE DEF T
  <2>3. QED
    BY <2>1, <2>2, LeastNumber
<1>8. i > Len(ref) /\ j > Len(got) => i = Len(ref) + 1 /\ j = Len(got) + 1
  BY <1>1
<1>9. i > Len(ref) => c = Len(got) + 1 - j
  BY <1>4
<1>10. j > Len(got) => c = Len(ref) + 1 - i
  BY <1>1, <1>4, <1>8
<1>11. i <= Len(ref) /\ j <= Len(got) =>
         c <= both + edit /\ c <= missed + 1 /\ c <= extra + 1 /\ (c = both + edit \/ c = missed + 1 \/ c = extra + 1)
  BY <1>7
<1>12. i <= Len(ref) /\ j > Len(got) => c = missed + 1
  BY <1>1, <1>5, <1>10
<1>13. i > Len(ref) /\ j <= Len(got) => c = extra + 1
  BY <1>1, <1>6, <1>9
<1>14. (i <= Len(ref) => c <= missed + 1) /\ (j <= Len(got) => c <= extra + 1)
  BY <1>1, <1>3, <1>11, <1>12, <1>13
<1>15. QED
  BY <1>3, <1>9, <1>10, <1>11, <1>12, <1>13, <1>14 DEF CostStep, c, missed, extra, both, edit

-----------------------------------------------------------------------------
(* The walk.                                                               *)

IsDiff(ref, got, f) == f = [place \in Places(ref, got) |-> DiffAt(ref, got, f, place)]
Diff(ref, got) == CHOOSE f : IsDiff(ref, got, f)

\* Which way the walk goes from a place, and what it writes.
Correct(ref, got, i, j) ==
  /\ i <= Len(ref) /\ j <= Len(got) /\ ref[i] = got[j] /\ Cost(ref, got)[<<i, j>>] = Cost(ref, got)[<<i + 1, j + 1>>]
Replaced(ref, got, i, j) ==
  /\ i <= Len(ref) /\ j <= Len(got) /\ ref[i] # got[j] /\ Cost(ref, got)[<<i, j>>] = Cost(ref, got)[<<i + 1, j + 1>>] + 1
Missed(ref, got, i, j) == i <= Len(ref) /\ Cost(ref, got)[<<i, j>>] = Cost(ref, got)[<<i + 1, j>>] + 1
Extra(ref, got, i, j) == j <= Len(got) /\ Cost(ref, got)[<<i, j>>] = Cost(ref, got)[<<i, j + 1>>] + 1

\* w is what the walk f writes from there on.
Writes(ref, got, f, w, i, j) ==
  \/ i = Len(ref) + 1 /\ j = Len(got) + 1 /\ w = <<>> /\ Cost(ref, got)[<<i, j>>] = 0
  \/ Correct(ref, got, i, j) /\ w = <<[kind |-> "correct", word |-> ref[i]]>> \o f[<<i + 1, j + 1>>]
  \/ Replaced(ref, got, i, j) /\ w = <<[kind |-> "replaced", word |-> ref[i], typed |-> got[j]]>> \o f[<<i + 1, j + 1>>]
  \/ Missed(ref, got, i, j) /\ w = <<[kind |-> "missed", word |-> ref[i]]>> \o f[<<i + 1, j>>]
  \/ Extra(ref, got, i, j) /\ w = <<[kind |-> "extra", typed |-> got[j]]>> \o f[<<i, j + 1>>]

\* What the walk writes at a place, one of four entries in front of what it writes next.
LEMMA DiffAtIs ==
  ASSUME NEW ref \in Seq(Words), NEW got \in Seq(Words), NEW i \in 1..Len(ref) + 1, NEW j \in 1..Len(got) + 1, NEW f
  PROVE  Writes(ref, got, f, DiffAt(ref, got, f, <<i, j>>), i, j)
<1> DEFINE cost == Cost(ref, got)
           w == DiffAt(ref, got, f, <<i, j>>)
<1>0. CostStep(ref, got, i, j)
  BY CostSteps
<1>1. w = IF i > Len(ref) /\ j > Len(got) THEN <<>>
          ELSE IF Correct(ref, got, i, j) THEN <<[kind |-> "correct", word |-> ref[i]]>> \o f[<<i + 1, j + 1>>]
          ELSE IF Replaced(ref, got, i, j) THEN <<[kind |-> "replaced", word |-> ref[i], typed |-> got[j]]>> \o f[<<i + 1, j + 1>>]
          ELSE IF Missed(ref, got, i, j) THEN <<[kind |-> "missed", word |-> ref[i]]>> \o f[<<i + 1, j>>]
          ELSE <<[kind |-> "extra", typed |-> got[j]]>> \o f[<<i, j + 1>>]
  BY DEF DiffAt, Correct, Replaced, Missed
<1>2. Len(ref) \in Nat /\ Len(got) \in Nat
  BY PlacesIs
<1>3. CASE i > Len(ref) /\ j > Len(got)
  <2>1. i = Len(ref) + 1 /\ j = Len(got) + 1 /\ w = <<>>
    BY <1>1, <1>2, <1>3
  <2>2. cost[<<i, j>>] = Len(got) + 1 - j
    BY <1>3, <1>0 DEF CostStep
  <2> HIDE DEF cost, w
  <2>3. cost[<<i, j>>] = 0
    BY <1>2, <2>1, <2>2
  <2>4. QED
    BY <2>1, <2>3 DEF cost, w, Writes
<1>4. ASSUME ~(i > Len(ref) /\ j > Len(got)), ~Correct(ref, got, i, j), ~Replaced(ref, got, i, j), ~Missed(ref, got, i, j)
      PROVE  Extra(ref, got, i, j)
  <2>1. CASE i <= Len(ref) /\ j <= Len(got)
    <3>1. /\ cost[<<i, j>>] \in Nat /\ cost[<<i + 1, j + 1>>] \in Nat
          /\ \/ cost[<<i, j>>] = cost[<<i + 1, j + 1>>] + (IF ref[i] = got[j] THEN 0 ELSE 1)
             \/ cost[<<i, j>>] = cost[<<i + 1, j>>] + 1
             \/ cost[<<i, j>>] = cost[<<i, j + 1>>] + 1
      BY <2>1, <1>0 DEF CostStep
    <3>2. cost[<<i, j>>] # cost[<<i + 1, j>>] + 1
      BY <1>4, <2>1 DEF Missed
    <3>3. cost[<<i, j>>] # cost[<<i + 1, j + 1>>] + (IF ref[i] = got[j] THEN 0 ELSE 1)
      <4>1. ref[i] = got[j] => cost[<<i, j>>] # cost[<<i + 1, j + 1>>]
        BY <1>4, <2>1 DEF Correct
      <4>2. ref[i] # got[j] => cost[<<i, j>>] # cost[<<i + 1, j + 1>>] + 1
        BY <1>4, <2>1 DEF Replaced
      <4> HIDE DEF cost
      <4>3. QED
        BY <3>1, <4>1, <4>2
    <3>4. QED
      BY <2>1, <3>1, <3>2, <3>3 DEF Extra
  <2>2. CASE i <= Len(ref) /\ j > Len(got)
    <3>1. cost[<<i, j>>] = cost[<<i + 1, j>>] + 1
      BY <2>2, <1>0 DEF CostStep
    <3>2. QED
      BY <1>4, <2>2, <3>1 DEF Missed
  <2>3. CASE i > Len(ref) /\ j <= Len(got)
    <3>1. cost[<<i, j>>] = cost[<<i, j + 1>>] + 1
      BY <2>3, <1>0 DEF CostStep
    <3>2. QED
      BY <2>3, <3>1 DEF Extra
  <2>4. QED
    BY <1>2, <1>4, <2>1, <2>2, <2>3
<1> HIDE DEF w, cost
<1>5. QED
  BY <1>1, <1>3, <1>4 DEF w, Writes

\* Two walks write the same further on.
AgreeAhead(ref, got, f, g, i, j) ==
  \A q \in Places(ref, got) : Ahead(ref, got)[q] < Ahead(ref, got)[<<i, j>>] => f[q] = g[q]

\* Which way it goes does not depend on what is written further on.
LEMMA DiffAtNext ==
  ASSUME NEW ref \in Seq(Words), NEW got \in Seq(Words), NEW i \in 1..Len(ref) + 1, NEW j \in 1..Len(got) + 1,
         NEW f, NEW g, AgreeAhead(ref, got, f, g, i, j)
  PROVE  DiffAt(ref, got, f, <<i, j>>) = DiffAt(ref, got, g, <<i, j>>)
<1> DEFINE cost == Cost(ref, got)
           F(e) == IF i > Len(ref) /\ j > Len(got) THEN <<>>
                   ELSE IF Correct(ref, got, i, j) THEN <<[kind |-> "correct", word |-> ref[i]]>> \o e[<<i + 1, j + 1>>]
                   ELSE IF Replaced(ref, got, i, j) THEN <<[kind |-> "replaced", word |-> ref[i], typed |-> got[j]]>> \o e[<<i + 1, j + 1>>]
                   ELSE IF Missed(ref, got, i, j) THEN <<[kind |-> "missed", word |-> ref[i]]>> \o e[<<i + 1, j>>]
                   ELSE <<[kind |-> "extra", typed |-> got[j]]>> \o e[<<i, j + 1>>]
<1>1. DiffAt(ref, got, f, <<i, j>>) = F(f) /\ DiffAt(ref, got, g, <<i, j>>) = F(g)
  BY DEF DiffAt, Correct, Replaced, Missed
<1>2. /\ i <= Len(ref) => f[<<i + 1, j>>] = g[<<i + 1, j>>]
      /\ j <= Len(got) => f[<<i, j + 1>>] = g[<<i, j + 1>>]
      /\ i <= Len(ref) /\ j <= Len(got) => f[<<i + 1, j + 1>>] = g[<<i + 1, j + 1>>]
  BY PlacesNext DEF AgreeAhead
<1>3. \/ i > Len(ref) /\ j > Len(got)
      \/ Correct(ref, got, i, j) \/ Replaced(ref, got, i, j) \/ Missed(ref, got, i, j)
      \/ Extra(ref, got, i, j)
  <2>1. Writes(ref, got, f, DiffAt(ref, got, f, <<i, j>>), i, j)
    BY DiffAtIs
  <2>2. i = Len(ref) + 1 /\ j = Len(got) + 1 => i > Len(ref) /\ j > Len(got)
    BY PlacesIs
  <2>3. QED
    BY <2>1, <2>2 DEF Writes
<1>4. CASE i > Len(ref) /\ j > Len(got)
  BY <1>1, <1>4
<1>5. CASE ~(i > Len(ref) /\ j > Len(got)) /\ Correct(ref, got, i, j)
  <2>1. f[<<i + 1, j + 1>>] = g[<<i + 1, j + 1>>]
    BY <1>2, <1>5 DEF Correct
  <2>2. QED
    BY <1>1, <1>5, <2>1
<1>6. CASE ~(i > Len(ref) /\ j > Len(got)) /\ ~Correct(ref, got, i, j) /\ Replaced(ref, got, i, j)
  <2>1. f[<<i + 1, j + 1>>] = g[<<i + 1, j + 1>>]
    BY <1>2, <1>6 DEF Replaced
  <2>2. QED
    BY <1>1, <1>6, <2>1
<1>7. CASE ~(i > Len(ref) /\ j > Len(got)) /\ ~Correct(ref, got, i, j) /\ ~Replaced(ref, got, i, j) /\ Missed(ref, got, i, j)
  <2>1. f[<<i + 1, j>>] = g[<<i + 1, j>>]
    BY <1>2, <1>7 DEF Missed
  <2>2. QED
    BY <1>1, <1>7, <2>1
<1>8. CASE ~(i > Len(ref) /\ j > Len(got)) /\ ~Correct(ref, got, i, j) /\ ~Replaced(ref, got, i, j) /\ ~Missed(ref, got, i, j)
  <2>1. f[<<i, j + 1>>] = g[<<i, j + 1>>]
    BY <1>2, <1>3, <1>8 DEF Extra
  <2>2. QED
    BY <1>1, <1>8, <2>1
<1>9. QED
  BY <1>4, <1>5, <1>6, <1>7, <1>8

\* diffWords is the walk from the start: the recursive function exists.
LEMMA DiffIs ==
  ASSUME NEW ref \in Seq(Words), NEW got \in Seq(Words)
  PROVE  IsDiff(ref, got, Diff(ref, got)) /\ DiffWords(got, ref) = Diff(ref, got)[<<1, 1>>]
<1> DEFINE r == [of |-> "diff", ref |-> ref, got |-> got]
           D == Places(ref, got)
           h == Ahead(ref, got)
<1>1. \A f, place : Recursion(r, f, place) = DiffAt(ref, got, f, place)
  BY DEF Recursion
<1>2. ASSUME NEW f, NEW g, NEW place \in D, \A q \in D : h[q] < h[place] => f[q] = g[q]
      PROVE  DiffAt(ref, got, f, place) = DiffAt(ref, got, g, place)
  <2>1. PICK i \in 1..Len(ref) + 1, j \in 1..Len(got) + 1 : place = <<i, j>>
    BY PlacesIs
  <2>2. AgreeAhead(ref, got, f, g, i, j)
    BY <1>2, <2>1 DEF AgreeAhead
  <2>3. DiffAt(ref, got, f, <<i, j>>) = DiffAt(ref, got, g, <<i, j>>)
    BY <2>2, DiffAtNext
  <2>4. QED
    BY <2>1, <2>3
<1>3. \A f, g : \A place \in D : (\A q \in D : h[q] < h[place] => f[q] = g[q]) => Recursion(r, f, place) = Recursion(r, g, place)
  BY <1>1, <1>2
<1> HIDE DEF r, D, h
<1>4. h \in [D -> Nat] /\ Len(ref) + Len(got) \in Nat /\ \A place \in D : h[place] <= Len(ref) + Len(got)
  BY PlacesIs DEF D, h
<1>5. PICK f : f = [place \in D |-> Recursion(r, f, place)]
  BY <1>3, <1>4, RecursionExists
<1>6. IsDiff(ref, got, f)
  BY <1>1, <1>5 DEF D, IsDiff
<1>7. DiffWords(got, ref) = Diff(ref, got)[<<1, 1>>]
  BY Zenon DEF DiffWords, Diff, IsDiff, DiffAt, Places
<1>8. QED
  BY <1>6, <1>7 DEF Diff

\* What the walk writes from a place on.
LEMMA DiffSteps ==
  ASSUME NEW ref \in Seq(Words), NEW got \in Seq(Words), NEW i \in 1..Len(ref) + 1, NEW j \in 1..Len(got) + 1
  PROVE  Writes(ref, got, Diff(ref, got), Diff(ref, got)[<<i, j>>], i, j)
<1> DEFINE w == Diff(ref, got)
<1>1. w = [place \in Places(ref, got) |-> DiffAt(ref, got, w, place)]
  BY DiffIs DEF IsDiff
<1> HIDE DEF w
<1>2. w[<<i, j>>] = DiffAt(ref, got, w, <<i, j>>)
  BY <1>1, PlacesIs
<1>3. QED
  BY <1>2, DiffAtIs DEF w

-----------------------------------------------------------------------------
(* Folds.                                                                  *)

\* A bounded set of numbers has its greatest.
LEMMA GreatestNumber ==
  ASSUME NEW k \in Nat, NEW S \in SUBSET (1..k), S # {}
  PROVE  Max(S) \in S /\ \A n \in S : n <= Max(S)
<1> DEFINE T == {k - n : n \in S}
<1>0. \A n \in S : n \in Nat /\ n <= k /\ k - n \in Nat
  OBVIOUS
<1>1. T \in SUBSET Nat /\ T # {}
  BY <1>0
<1>2. PICK t \in T : \A u \in T : t <= u
  <2> HIDE DEF T
  <2>1. QED
    BY <1>1, LeastNumber
<1>3. PICK m \in S : t = k - m
  OBVIOUS
<1>4. \A n \in S : k - m <= k - n
  BY <1>2, <1>3
<1>5. \A n \in S : n <= m
  <2> TAKE n \in S
  <2>1. k - m <= k - n /\ n \in Nat /\ m \in Nat
    BY <1>0, <1>4
  <2>2. QED
    BY <2>1
<1>6. \E m_1 \in S : \A n \in S : m_1 >= n
  BY <1>5
<1>7. QED
  BY <1>6 DEF Max

\* The positions of a sequence up to one, as folds take them.
UptoMax(S) == IF S = {} THEN 0 ELSE Max(S)

\* Folds take numbers away from the greatest down: each set of the first numbers has its greatest, and less without it.
LEMMA UptoIs ==
  ASSUME NEW k \in Nat
  PROVE  /\ [S \in SUBSET (1..k) |-> UptoMax(S)] \in [SUBSET (1..k) -> Nat]
         /\ \A S \in SUBSET (1..k) :
              UptoMax(S) <= k /\ (S # {} => Max(S) \in S /\ S \ {Max(S)} \in SUBSET (1..k) /\ UptoMax(S \ {Max(S)}) < UptoMax(S))
         /\ \A i \in 0..k : 1..i \in SUBSET (1..k)
         /\ \A i \in 0..k : i < k => i + 1 \in 1..k /\ 1..i + 1 # {} /\ Max(1..i + 1) = i + 1 /\ (1..i + 1) \ {i + 1} = 1..i
<1>1. ASSUME NEW S \in SUBSET (1..k)
      PROVE  /\ UptoMax(S) \in Nat /\ UptoMax(S) <= k
             /\ S # {} => Max(S) \in S /\ S \ {Max(S)} \in SUBSET (1..k) /\ UptoMax(S \ {Max(S)}) < UptoMax(S)
  <2>1. CASE S = {}
    BY <2>1 DEF UptoMax
  <2>2. CASE S # {}
    <3> DEFINE m == Max(S)
               R == S \ {m}
    <3>1. m \in S /\ \A n \in S : n <= m
      BY <2>2, GreatestNumber
    <3>2. R \in SUBSET (1..k) /\ m \in 1..k
      BY <3>1
    <3>3. R # {} => Max(R) \in R
      BY <3>2, GreatestNumber
    <3> HIDE DEF m
    <3>4. \A n \in R : n < m /\ n \in Nat
      BY <3>1
    <3>5. UptoMax(R) < m
      <4>1. CASE R = {}
        BY <3>2, <4>1 DEF UptoMax
      <4>2. CASE R # {}
        <5>1. UptoMax(R) = Max(R) /\ Max(R) \in R
          BY <3>3, <4>2 DEF UptoMax
        <5> HIDE DEF R
        <5>2. QED
          BY <3>4, <5>1
      <4>3. QED
        BY <4>1, <4>2
    <3>6. UptoMax(S) = m
      BY <2>2 DEF UptoMax, m
    <3>7. QED
      BY <2>2, <3>1, <3>2, <3>5, <3>6 DEF m
  <2>3. QED
    BY <2>1, <2>2
<1>2. ASSUME NEW i \in 0..k, i < k
      PROVE  i + 1 \in 1..k /\ 1..i + 1 # {} /\ Max(1..i + 1) = i + 1 /\ (1..i + 1) \ {i + 1} = 1..i
  <2>1. i + 1 \in 1..k /\ 1..i + 1 \in SUBSET (1..k) /\ i + 1 \in 1..i + 1
    BY <1>2
  <2>2. Max(1..i + 1) \in 1..i + 1 /\ i + 1 <= Max(1..i + 1)
    BY <2>1, GreatestNumber
  <2>3. Max(1..i + 1) = i + 1
    BY <2>1, <2>2
  <2>4. QED
    BY <2>1, <2>3
<1>3. \A i \in 0..k : 1..i \in SUBSET (1..k)
  OBVIOUS
<1>4. QED
  BY <1>1, <1>2, <1>3

\* Entries goes through the entries one by one.
KeepsOne(e, k, diff, kinds) ==
  /\ e[0] = <<>> /\ e[k] = Entries(diff, kinds)
  /\ \A i \in 0..k : i < k => e[i + 1] = Keep(e[i], diff[i + 1], kinds)

\* The fold of a list's entries exists, and keeps one entry or none at each.
LEMMA EntriesFold ==
  ASSUME NEW k \in Nat, NEW diff, DOMAIN diff = 1..k, NEW kinds
  PROVE  \E e : KeepsOne(e, k, diff, kinds)
<1> DEFINE r == [of |-> "entries", diff |-> diff, kinds |-> kinds]
           D == SUBSET (1..k)
           h == [S \in D |-> UptoMax(S)]
<1>1. \A f, place : Recursion(r, f, place) = EntriesAt(diff, kinds, f, place)
  BY DEF Recursion
<1>2. ASSUME NEW f, NEW g, NEW place \in D, \A q \in D : h[q] < h[place] => f[q] = g[q]
      PROVE  EntriesAt(diff, kinds, f, place) = EntriesAt(diff, kinds, g, place)
  <2>1. CASE place = {}
    BY <2>1 DEF EntriesAt
  <2>2. CASE place # {}
    <3>1. place \ {Max(place)} \in D /\ UptoMax(place \ {Max(place)}) < UptoMax(place)
      BY <2>2, UptoIs
    <3>2. f[place \ {Max(place)}] = g[place \ {Max(place)}]
      BY <1>2, <3>1
    <3>3. QED
      BY <2>2, <3>2 DEF EntriesAt
  <2>3. QED
    BY <2>1, <2>2
<1>3. h \in [D -> Nat] /\ \A place \in D : h[place] <= k
  BY UptoIs
<1> HIDE DEF r, h, D
<1>4. \A f, g : \A place \in D : (\A q \in D : h[q] < h[place] => f[q] = g[q]) => Recursion(r, f, place) = Recursion(r, g, place)
  BY <1>1, <1>2
<1>5. \E f : f = [place \in D |-> Recursion(r, f, place)]
  BY <1>3, <1>4, RecursionExists
<1> DEFINE IsFold(f) == f = [place \in D |-> EntriesAt(diff, kinds, f, place)]
<1>6. \E f : IsFold(f)
  BY <1>1, <1>5
<1> DEFINE fold == CHOOSE f : IsFold(f)
<1>7. Entries(diff, kinds) = fold[1..k]
  <2>1. Entries(diff, kinds) = fold[DOMAIN diff]
    BY Zenon DEF Entries, FoldLeft, MapThenFoldSet, EntriesAt, Keep, D
  <2>2. QED
    BY <2>1
<1>8. IsFold(fold)
  BY <1>6
<1> HIDE DEF fold
<1> DEFINE e == [i \in 0..k |-> fold[1..i]]
<1>9. \A place \in D : fold[place] = EntriesAt(diff, kinds, fold, place)
  BY <1>8
<1>10. e[0] = <<>>
  <2>1. 0 \in 0..k /\ 1..0 = {} /\ {} \in D
    BY DEF D
  <2>2. fold[{}] = <<>>
    BY <1>9, <2>1 DEF EntriesAt
  <2>3. QED
    BY <2>1, <2>2
<1>11. e[k] = Entries(diff, kinds)
  BY <1>7
<1>12. ASSUME NEW i \in 0..k, i < k PROVE e[i + 1] = Keep(e[i], diff[i + 1], kinds)
  <2>1. i + 1 \in 0..k /\ 1..i + 1 \in D /\ 1..i + 1 # {} /\ Max(1..i + 1) = i + 1 /\ (1..i + 1) \ {i + 1} = 1..i
    BY <1>12, UptoIs DEF D
  <2>2. fold[1..i + 1] = Keep(fold[1..i], diff[i + 1], kinds)
    BY <1>9, <2>1 DEF EntriesAt
  <2>3. QED
    BY <2>1, <2>2
<1> HIDE DEF e
<1>13. QED
  BY <1>10, <1>11, <1>12 DEF KeepsOne

\* So does miss with the words.
AddsOne(e, k, v, s, words) ==
  /\ e[0] = v.missed /\ Miss(v, s, words) = [v EXCEPT !.missed = e[k]]
  /\ \A i \in 0..k : i < k => e[i + 1] = AddMissed(e[i], words[i + 1], s)

\* The fold of the missed words exists, and adds one word or none at each.
LEMMA MissFold ==
  ASSUME NEW k \in Nat, NEW words, DOMAIN words = 1..k, NEW v, NEW s
  PROVE  \E e : AddsOne(e, k, v, s, words)
<1> DEFINE base == v.missed
           r == [of |-> "miss", base |-> base, s |-> s, words |-> words]
           D == SUBSET (1..k)
           h == [S \in D |-> UptoMax(S)]
<1> HIDE DEF base
<1>1. \A f, place : Recursion(r, f, place) = MissAt(base, s, words, f, place)
  BY DEF Recursion
<1>2. ASSUME NEW f, NEW g, NEW place \in D, \A q \in D : h[q] < h[place] => f[q] = g[q]
      PROVE  MissAt(base, s, words, f, place) = MissAt(base, s, words, g, place)
  <2>1. CASE place = {}
    BY <2>1 DEF MissAt
  <2>2. CASE place # {}
    <3>1. place \ {Max(place)} \in D /\ UptoMax(place \ {Max(place)}) < UptoMax(place)
      BY <2>2, UptoIs
    <3>2. f[place \ {Max(place)}] = g[place \ {Max(place)}]
      BY <1>2, <3>1
    <3>3. QED
      BY <2>2, <3>2 DEF MissAt
  <2>3. QED
    BY <2>1, <2>2
<1>3. h \in [D -> Nat] /\ \A place \in D : h[place] <= k
  BY UptoIs
<1> HIDE DEF r, h, D
<1>4. \A f, g : \A place \in D : (\A q \in D : h[q] < h[place] => f[q] = g[q]) => Recursion(r, f, place) = Recursion(r, g, place)
  BY <1>1, <1>2
<1>5. \E f : f = [place \in D |-> Recursion(r, f, place)]
  BY <1>3, <1>4, RecursionExists
<1> DEFINE IsFold(f) == f = [place \in D |-> MissAt(base, s, words, f, place)]
<1>6. \E f : IsFold(f)
  BY <1>1, <1>5
<1> DEFINE fold == CHOOSE f : IsFold(f)
<1>7. Miss(v, s, words) = [v EXCEPT !.missed = fold[1..k]]
  <2>1. Miss(v, s, words) = [v EXCEPT !.missed = fold[DOMAIN words]]
    BY Zenon DEF Miss, FoldLeft, MapThenFoldSet, MissAt, AddMissed, D, base
  <2>2. QED
    BY <2>1
<1>8. IsFold(fold)
  BY <1>6
<1> HIDE DEF fold
<1> DEFINE e == [i \in 0..k |-> fold[1..i]]
<1>9. \A place \in D : fold[place] = MissAt(base, s, words, fold, place)
  BY <1>8
<1>10. e[0] = v.missed
  <2>1. 0 \in 0..k /\ 1..0 = {} /\ {} \in D
    BY DEF D
  <2>2. fold[{}] = base
    BY <1>9, <2>1 DEF MissAt
  <2>3. QED
    BY <2>1, <2>2 DEF base
<1>11. Miss(v, s, words) = [v EXCEPT !.missed = e[k]]
  BY <1>7
<1>12. ASSUME NEW i \in 0..k, i < k PROVE e[i + 1] = AddMissed(e[i], words[i + 1], s)
  <2>1. i + 1 \in 0..k /\ 1..i + 1 \in D /\ 1..i + 1 # {} /\ Max(1..i + 1) = i + 1 /\ (1..i + 1) \ {i + 1} = 1..i
    BY <1>12, UptoIs DEF D
  <2>2. fold[1..i + 1] = AddMissed(fold[1..i], words[i + 1], s)
    BY <1>9, <2>1 DEF MissAt
  <2>3. QED
    BY <2>1, <2>2
<1> HIDE DEF e
<1>13. QED
  BY <1>10, <1>11, <1>12 DEF AddsOne

\* No entries of an empty list.
LEMMA EntriesNone == ASSUME NEW kinds PROVE Entries(<<>>, kinds) = <<>>
<1>1. DOMAIN <<>> = 1..0 /\ 0 \in Nat
  OBVIOUS
<1>2. PICK e : KeepsOne(e, 0, <<>>, kinds)
  BY <1>1, EntriesFold
<1>3. QED
  BY <1>2 DEF KeepsOne

\* The entries of some kinds are entries of those kinds.
LEMMA EntriesType ==
  ASSUME NEW X, NEW diff \in Seq(X), NEW kinds
  PROVE  Entries(diff, kinds) \in Seq({x \in X : x.kind \in kinds})
<1> DEFINE Y == {x \in X : x.kind \in kinds}
           k == Len(diff)
<1>1. k \in Nat /\ DOMAIN diff = 1..k /\ \A n \in 1..k : diff[n] \in X
  OBVIOUS
<1> HIDE DEF k, Y
<1>2. PICK e : KeepsOne(e, k, diff, kinds)
  BY <1>1, EntriesFold
<1> DEFINE S == {i \in Nat : i <= k => e[i] \in Seq(Y)}
<1>3. 0 \in S
  <2>1. <<>> \in Seq(Y)
    OBVIOUS
  <2>2. QED
    BY <1>2, <2>1 DEF KeepsOne
<1>4. ASSUME NEW i \in Nat, i \in S PROVE i + 1 \in S
  <2>1. ASSUME i + 1 <= k PROVE e[i + 1] \in Seq(Y)
    <3>1. i \in 0..k /\ i < k /\ i + 1 \in 1..k /\ i <= k
      BY <1>1, <2>1
    <3>2. e[i] \in Seq(Y) /\ diff[i + 1] \in X
      BY <1>1, <1>4, <3>1
    <3>3. e[i + 1] = Keep(e[i], diff[i + 1], kinds)
      BY <1>2, <3>1 DEF KeepsOne
    <3>4. CASE diff[i + 1].kind \in kinds
      <4>1. diff[i + 1] \in Y
        BY <3>2, <3>4 DEF Y
      <4>2. QED
        BY <3>2, <3>3, <3>4, <4>1 DEF Keep
    <3>5. CASE diff[i + 1].kind \notin kinds
      BY <3>2, <3>3, <3>5 DEF Keep
    <3>6. QED
      BY <3>4, <3>5
  <2>2. QED
    BY <2>1
<1> HIDE DEF S
<1>5. k \in S
  BY <1>1, <1>3, <1>4, Induction
<1>6. e[k] \in Seq(Y)
  BY <1>1, <1>5 DEF S
<1>7. QED
  BY <1>2, <1>6 DEF Y, KeepsOne

\* An entry in front of others.
LEMMA EntriesCons ==
  ASSUME NEW X, NEW diff \in Seq(X), NEW x \in X, NEW kinds
  PROVE  Entries(<<x>> \o diff, kinds) = IF x.kind \in kinds THEN <<x>> \o Entries(diff, kinds) ELSE Entries(diff, kinds)
<1> DEFINE k == Len(diff)
           more == <<x>> \o diff
           head == IF x.kind \in kinds THEN <<x>> ELSE <<>>
<1>1. k \in Nat /\ DOMAIN diff = 1..k /\ \A n \in 1..k : diff[n] \in X
  OBVIOUS
<1>2. k + 1 \in Nat /\ DOMAIN more = 1..k + 1 /\ more[1] = x /\ \A n \in 1..k : more[n + 1] = diff[n]
  OBVIOUS
<1>3. head \in Seq(X)
  OBVIOUS
<1> HIDE DEF k, more
<1>4. PICK e : KeepsOne(e, k, diff, kinds)
  BY <1>1, EntriesFold
<1>5. PICK f : KeepsOne(f, k + 1, more, kinds)
  BY <1>2, EntriesFold
<1>6. f[1] = head
  <2>1. 0 \in 0..k + 1 /\ 0 < k + 1 /\ 0 + 1 = 1
    BY <1>1
  <2>2. f[1] = Keep(<<>>, x, kinds)
    BY <1>2, <1>5, <2>1 DEF KeepsOne
  <2>3. QED
    BY <2>2 DEF Keep
<1> HIDE DEF head
<1> DEFINE S == {i \in Nat : i <= k => e[i] \in Seq(X) /\ f[i + 1] = head \o e[i]}
<1>7. 0 \in S
  <2>1. head \o <<>> = head /\ <<>> \in Seq(X) /\ 0 + 1 = 1
    BY <1>3
  <2>2. QED
    BY <1>4, <1>6, <2>1 DEF KeepsOne
<1>8. ASSUME NEW i \in Nat, i \in S PROVE i + 1 \in S
  <2>1. ASSUME i + 1 <= k PROVE e[i + 1] \in Seq(X) /\ f[(i + 1) + 1] = head \o e[i + 1]
    <3>1. /\ i \in 0..k /\ i < k /\ i + 1 \in 1..k /\ i <= k
          /\ i + 1 \in 0..k + 1 /\ i + 1 < k + 1
      BY <1>1, <2>1
    <3>2. e[i] \in Seq(X) /\ diff[i + 1] \in X /\ f[i + 1] = head \o e[i]
      BY <1>1, <1>8, <3>1
    <3>3. e[i + 1] = Keep(e[i], diff[i + 1], kinds)
      BY <1>4, <3>1 DEF KeepsOne
    <3>4. f[(i + 1) + 1] = Keep(f[i + 1], diff[i + 1], kinds)
      <4>1. more[(i + 1) + 1] = diff[i + 1]
        BY <1>2, <3>1
      <4>2. QED
        BY <1>5, <3>1, <4>1 DEF KeepsOne
    <3>5. \A t \in Seq(X), z \in X : head \o Append(t, z) = Append(head \o t, z) /\ Append(t, z) \in Seq(X)
      BY <1>3
    <3>6. head \o Append(e[i], diff[i + 1]) = Append(head \o e[i], diff[i + 1]) /\ Append(e[i], diff[i + 1]) \in Seq(X)
      BY <3>2, <3>5
    <3>7. CASE diff[i + 1].kind \in kinds
      <4>1. e[i + 1] = Append(e[i], diff[i + 1]) /\ f[(i + 1) + 1] = Append(head \o e[i], diff[i + 1])
        BY <3>2, <3>3, <3>4, <3>7 DEF Keep
      <4>2. QED
        BY <3>6, <4>1
    <3>8. CASE diff[i + 1].kind \notin kinds
      <4>1. e[i + 1] = e[i] /\ f[(i + 1) + 1] = head \o e[i]
        BY <3>2, <3>3, <3>4, <3>8 DEF Keep
      <4>2. QED
        BY <3>2, <4>1
    <3>9. QED
      BY <3>7, <3>8
  <2>2. QED
    BY <2>1
<1> HIDE DEF S
<1>9. k \in S
  BY <1>1, <1>7, <1>8, Induction
<1>10. Entries(more, kinds) = head \o Entries(diff, kinds) /\ Entries(diff, kinds) \in Seq(X)
  <2>1. e[k] \in Seq(X) /\ f[k + 1] = head \o e[k]
    BY <1>1, <1>9 DEF S
  <2>2. QED
    BY <1>4, <1>5, <2>1 DEF KeepsOne
<1>11. <<>> \o Entries(diff, kinds) = Entries(diff, kinds)
  BY <1>10
<1>12. QED
  BY <1>10, <1>11 DEF head, more

\* The words of a list, each once.
WordsOf(list) == {entry.word : entry \in ToSet(list)}
Distinct(list) == \A i, j \in DOMAIN list : list[i].word = list[j].word => i = j

\* One word more.
LEMMA AddMissedIs ==
  ASSUME NEW list, list \in Seq(WordT), Distinct(list), NEW word, NEW s \in Sentences
  PROVE  LET l == AddMissed(list, word, s) IN
         /\ l \in Seq(WordT) /\ Distinct(l) /\ WordsOf(list) \subseteq WordsOf(l)
         /\ word \in CardWords => word \in WordsOf(l)
         /\ \A entry \in ToSet(l) : entry \in ToSet(list) \/ (entry.word = word /\ entry.sentence = s)
<1> DEFINE l == AddMissed(list, word, s)
           entry == WordOf(word, s)
<1>1. CASE word \in CardWords \ WordsOf(list)
  <2>1. l = Append(list, entry)
    BY <1>1 DEF AddMissed, WordsOf
  <2>2. entry \in WordT /\ entry.word = word /\ entry.sentence = s
    BY <1>1 DEF WordOf, WordT
  <2> HIDE DEF l, entry
  <2>3. /\ l \in Seq(WordT) /\ Len(list) \in Nat /\ DOMAIN list = 1..Len(list) /\ DOMAIN l = 1..Len(list) + 1
        /\ l[Len(list) + 1] = entry /\ \A i \in 1..Len(list) : l[i] = list[i]
    BY <2>1, <2>2
  <2>4. \A i \in DOMAIN list : list[i] \in ToSet(list)
    BY DEF ToSet
  <2>5. \A i \in 1..Len(list) : l[i].word # word
    BY <1>1, <2>3, <2>4 DEF WordsOf
  <2>6. \A i \in DOMAIN l : i \in 1..Len(list) \/ i = Len(list) + 1
    BY <2>3
  <2>7. Distinct(l)
    <3>1. ASSUME NEW i \in DOMAIN l, NEW j \in DOMAIN l, l[i].word = l[j].word PROVE i = j
      <4>1. CASE i \in 1..Len(list) /\ j \in 1..Len(list)
        BY <2>3, <3>1, <4>1 DEF Distinct
      <4>2. CASE i = Len(list) + 1 \/ j = Len(list) + 1
        BY <2>2, <2>3, <2>5, <2>6, <3>1, <4>2
      <4>3. QED
        BY <2>6, <4>1, <4>2
    <3>2. QED
      BY <3>1 DEF Distinct
  <2>8. ToSet(l) = ToSet(list) \cup {entry}
    <3>1. \A e : e \in ToSet(l) <=> \E i \in DOMAIN l : l[i] = e
      BY DEF ToSet
    <3>2. \A e : e \in ToSet(list) <=> \E i \in DOMAIN list : list[i] = e
      BY DEF ToSet
    <3>3. \A i \in 1..Len(list) : i \in DOMAIN l
      BY <2>3
    <3>4. Len(list) + 1 \in DOMAIN l
      BY <2>3
    <3>5. QED
      BY <2>3, <2>6, <3>1, <3>2, <3>3, <3>4
  <2>9. QED
    BY <2>2, <2>3, <2>7, <2>8 DEF l, WordsOf
<1>2. CASE word \notin CardWords \ WordsOf(list)
  <2>1. l = list
    BY <1>2 DEF AddMissed, WordsOf
  <2>2. QED
    BY <1>2, <2>1
<1>3. QED
  BY <1>1, <1>2

\* A list is not of its words and one more for each of some others that are card words.
Extends(l, list, words, s) ==
  /\ l \in Seq(WordT) /\ Distinct(l) /\ WordsOf(list) \subseteq WordsOf(l)
  /\ words \cap CardWords \subseteq WordsOf(l)
  /\ \A entry \in ToSet(l) : entry \in ToSet(list) \/ (entry.word \in words /\ entry.sentence = s)

\* miss() lists card words of the sentence only, each once, and keeps what was listed.
LEMMA MissIs ==
  ASSUME NEW v, v.missed \in Seq(WordT), Distinct(v.missed), NEW X, NEW words \in Seq(X), NEW s \in Sentences
  PROVE  \E l : Miss(v, s, words) = [v EXCEPT !.missed = l] /\ Extends(l, v.missed, ToSet(words), s)
<1> DEFINE k == Len(words)
           list == v.missed
           Some(i) == {words[n] : n \in 1..i}
<1>1. k \in Nat /\ DOMAIN words = 1..k /\ ToSet(words) = Some(k)
  BY DEF ToSet
<1> HIDE DEF k
<1>2. PICK e : AddsOne(e, k, v, s, words)
  BY <1>1, MissFold
<1> HIDE DEF list
<1> DEFINE S == {i \in Nat : i <= k => Extends(e[i], list, Some(i), s)}
<1>3. 0 \in S
  <2>1. e[0] = list /\ Some(0) = {} /\ list \in Seq(WordT) /\ Distinct(list)
    BY <1>2 DEF list, AddsOne
  <2> HIDE DEF Some
  <2>2. Extends(e[0], list, Some(0), s)
    BY <2>1 DEF Extends
  <2>3. QED
    BY <2>2
<1>4. ASSUME NEW i \in Nat, i \in S PROVE i + 1 \in S
  <2>1. ASSUME i + 1 <= k PROVE Extends(e[i + 1], list, Some(i + 1), s)
    <3>1. i \in 0..k /\ i < k /\ i + 1 \in 1..k /\ i <= k
      BY <1>1, <2>1
    <3>2. Extends(e[i], list, Some(i), s)
      BY <1>4, <3>1
    <3>3. e[i + 1] = AddMissed(e[i], words[i + 1], s)
      BY <1>2, <3>1 DEF AddsOne
    <3>4. Some(i + 1) = Some(i) \cup {words[i + 1]}
      <4>1. 1..i + 1 = 1..i \cup {i + 1}
        OBVIOUS
      <4>2. QED
        BY <4>1
    <3> HIDE DEF Some
    <3> DEFINE l == AddMissed(e[i], words[i + 1], s)
    <3>5. /\ l \in Seq(WordT) /\ Distinct(l) /\ WordsOf(e[i]) \subseteq WordsOf(l)
          /\ words[i + 1] \in CardWords => words[i + 1] \in WordsOf(l)
          /\ \A entry \in ToSet(l) : entry \in ToSet(e[i]) \/ (entry.word = words[i + 1] /\ entry.sentence = s)
      BY <3>2, AddMissedIs DEF Extends
    <3> HIDE DEF l
    <3>6. QED
      BY <3>2, <3>3, <3>4, <3>5 DEF l, Extends
  <2>2. QED
    BY <2>1
<1> HIDE DEF S, Some
<1>5. k \in S
  BY <1>1, <1>3, <1>4, Induction
<1>6. Extends(e[k], list, ToSet(words), s)
  BY <1>1, <1>5 DEF S
<1>7. QED
  BY <1>2, <1>6 DEF list, AddsOne

\* The entries of a diff.
EntryT(ref, got) ==
  [kind : {"correct", "missed"}, word : ToSet(ref)]
  \cup [kind : {"replaced"}, word : ToSet(ref), typed : ToSet(got)]
  \cup [kind : {"extra"}, typed : ToSet(got)]

\* The four entries the walk can write are entries.
LEMMA EntryIs ==
  ASSUME NEW ref \in Seq(Words), NEW got \in Seq(Words), NEW i \in 1..Len(ref) + 1, NEW j \in 1..Len(got) + 1
  PROVE  LET E == EntryT(ref, got) IN
         /\ i <= Len(ref) => [kind |-> "correct", word |-> ref[i]] \in E /\ [kind |-> "missed", word |-> ref[i]] \in E
         /\ j <= Len(got) => [kind |-> "extra", typed |-> got[j]] \in E
         /\ i <= Len(ref) /\ j <= Len(got) => [kind |-> "replaced", word |-> ref[i], typed |-> got[j]] \in E
<1>1. Len(ref) \in Nat /\ Len(got) \in Nat /\ DOMAIN ref = 1..Len(ref) /\ DOMAIN got = 1..Len(got)
  OBVIOUS
<1>2. i <= Len(ref) => ref[i] \in ToSet(ref)
  BY <1>1 DEF ToSet
<1>3. j <= Len(got) => got[j] \in ToSet(got)
  BY <1>1 DEF ToSet
<1>4. QED
  BY <1>2, <1>3 DEF EntryT

\* The walk writes entries from every place on.
LEMMA DiffType ==
  ASSUME NEW ref \in Seq(Words), NEW got \in Seq(Words)
  PROVE  \A place \in Places(ref, got) : Diff(ref, got)[place] \in Seq(EntryT(ref, got))
<1> DEFINE w == Diff(ref, got)
           E == EntryT(ref, got)
           D == Places(ref, got)
           h == Ahead(ref, got)
           S == {place \in D : w[place] \in Seq(E)}
<1>1. ASSUME NEW place \in D, \A q \in D : h[q] < h[place] => q \in S PROVE place \in S
  <2>1. PICK i \in 1..Len(ref) + 1, j \in 1..Len(got) + 1 : place = <<i, j>>
    BY PlacesIs
  <2>2. /\ i <= Len(ref) => <<i + 1, j>> \in S
        /\ j <= Len(got) => <<i, j + 1>> \in S
        /\ i <= Len(ref) /\ j <= Len(got) => <<i + 1, j + 1>> \in S
    BY <1>1, <2>1, PlacesNext
  <2>3. /\ i <= Len(ref) => w[<<i + 1, j>>] \in Seq(E)
        /\ j <= Len(got) => w[<<i, j + 1>>] \in Seq(E)
        /\ i <= Len(ref) /\ j <= Len(got) => w[<<i + 1, j + 1>>] \in Seq(E)
    BY <2>2
  <2>4. <<>> \in Seq(E) /\ \A x \in E, t \in Seq(E) : <<x>> \o t \in Seq(E)
    <3> HIDE DEF E
    <3>1. QED
      OBVIOUS
  <2>5. Writes(ref, got, w, w[<<i, j>>], i, j)
    BY DiffSteps
  <2>6. /\ i <= Len(ref) => [kind |-> "correct", word |-> ref[i]] \in E /\ [kind |-> "missed", word |-> ref[i]] \in E
        /\ j <= Len(got) => [kind |-> "extra", typed |-> got[j]] \in E
        /\ i <= Len(ref) /\ j <= Len(got) => [kind |-> "replaced", word |-> ref[i], typed |-> got[j]] \in E
    BY EntryIs
  <2> HIDE DEF w, E
  <2>7. CASE w[<<i, j>>] = <<>>
    BY <2>1, <2>4, <2>7
  <2>8. CASE w[<<i, j>>] # <<>>
    <3>1. w[<<i, j>>] \in Seq(E)
      BY <2>3, <2>4, <2>5, <2>6, <2>8 DEF Writes, Correct, Replaced, Missed, Extra
    <3>2. QED
      BY <2>1, <3>1
  <2>9. QED
    BY <2>7, <2>8
<1> HIDE DEF S
<1>2. h \in [D -> Nat]
  BY PlacesIs
<1> HIDE DEF D, h
<1>3. D \subseteq S
  BY <1>1, <1>2, HeightInduction
<1>4. QED
  BY <1>3 DEF S, D

\* So does diffWords.
LEMMA DiffWordsType ==
  ASSUME NEW ref \in Seq(Words), NEW got \in Seq(Words)
  PROVE  DiffWords(got, ref) \in Seq(EntryT(ref, got))
<1>1. 1 \in 1..Len(ref) + 1 /\ 1 \in 1..Len(got) + 1
  OBVIOUS
<1>2. <<1, 1>> \in Places(ref, got)
  BY <1>1, PlacesIs
<1>3. QED
  BY <1>2, DiffIs, DiffType

\* The missed words are of the sentence.
LEMMA MissedWordsType ==
  ASSUME NEW ref \in Seq(Words), NEW got \in Seq(Words)
  PROVE  MissedWords(got, ref) \in Seq(ToSet(ref))
<1> DEFINE kinds == {"missed", "replaced"}
           es == Entries(DiffWords(got, ref), kinds)
           Y == {x \in EntryT(ref, got) : x.kind \in kinds}
<1>1. es \in Seq(Y)
  BY DiffWordsType, EntriesType
<1>2. \A x \in Y : x.word \in ToSet(ref)
  BY DEF EntryT
<1>3. MissedWords(got, ref) = [i \in DOMAIN es |-> es[i].word]
  BY DEF MissedWords
<1> HIDE DEF es, Y, kinds
<1>4. DOMAIN es = 1..Len(es) /\ Len(es) \in Nat /\ \A i \in 1..Len(es) : es[i] \in Y
  BY <1>1
<1>5. MissedWords(got, ref) = [i \in 1..Len(es) |-> es[i].word] /\ \A i \in 1..Len(es) : es[i].word \in ToSet(ref)
  BY <1>2, <1>3, <1>4
<1>6. QED
  BY <1>4, <1>5

\* The word that a blank leaves out is one of the sentence.
LEMMA BlankForIs ==
  ASSUME NEW ref \in Seq(Words), BlankFor(ref) # 0
  PROVE  BlankFor(ref) \in DOMAIN ref
<1> DEFINE k == Len(ref)
           C == {i \in DOMAIN ref : ref[i] \in CardWords}
           len(i) == Length(ref[i])
           Longest(i, n) == i \in C /\ \A j \in 1..n : j \in C => len(j) <= len(i)
           S == {n \in Nat : \A c \in 1..n : c \in C => \E i \in 1..n : Longest(i, n)}
           W == {i \in C : \A j \in C : len(j) <= len(i)}
<1>1. k \in Nat /\ DOMAIN ref = 1..k /\ C \subseteq 1..k /\ \A i \in C : len(i) \in Nat
  BY QuizAssumption
<1>2. C # {} /\ BlankFor(ref) = Min(W)
  BY DEF BlankFor
<1> HIDE DEF k, C, len
<1>3. 0 \in S
  OBVIOUS
<1>4. ASSUME NEW n \in Nat, n \in S PROVE n + 1 \in S
  <2>1. \A j \in 1..n + 1 : j \in 1..n \/ j = n + 1
    OBVIOUS
  <2>2. ASSUME NEW c \in 1..n + 1, c \in C PROVE \E i \in 1..n + 1 : Longest(i, n + 1)
    <3>1. CASE \A j \in 1..n : j \notin C
      <4>1. c = n + 1 /\ len(c) <= len(c)
        BY <1>1, <2>1, <2>2, <3>1
      <4>2. Longest(c, n + 1)
        BY <2>1, <2>2, <3>1, <4>1
      <4>3. QED
        BY <4>2
    <3>2. CASE \E j \in 1..n : j \in C
      <4>1. PICK i \in 1..n : Longest(i, n)
        BY <1>4, <3>2
      <4>2. len(i) \in Nat /\ i \in 1..n + 1 /\ n + 1 \in 1..n + 1
        BY <1>1, <4>1
      <4>3. CASE n + 1 \in C /\ ~(len(n + 1) <= len(i))
        <5>1. \A j \in 1..n + 1 : j \in C => len(j) <= len(n + 1)
          BY <1>1, <2>1, <4>1, <4>2, <4>3
        <5>2. QED
          BY <4>2, <4>3, <5>1
      <4>4. CASE n + 1 \in C => len(n + 1) <= len(i)
        <5>1. Longest(i, n + 1)
          BY <2>1, <4>1, <4>4
        <5>2. QED
          BY <4>2, <5>1
      <4>5. QED
        BY <4>3, <4>4
    <3>3. QED
      BY <3>1, <3>2
  <2>3. n + 1 \in Nat
    OBVIOUS
  <2>4. QED
    BY <2>2, <2>3
<1>5. k \in S
  <2> HIDE DEF S
  <2>1. \A n \in Nat : n \in S
    BY <1>3, <1>4, Induction
  <2>2. QED
    BY <1>1, <2>1
<1>6. PICK i \in 1..k : Longest(i, k)
  <2>1. PICK c \in 1..k : c \in C
    BY <1>1, <1>2
  <2>2. QED
    BY <1>5, <2>1
<1>7. i \in W /\ W \in SUBSET Nat
  <2>1. i \in W
    BY <1>1, <1>6
  <2>2. W \subseteq C /\ C \subseteq Nat
    BY <1>1
  <2>3. QED
    BY <2>1, <2>2
<1>8. Min(W) \in W
  <2> HIDE DEF W
  <2>1. QED
    BY <1>7, LeastNumber
<1>9. QED
  BY <1>1, <1>2, <1>8

\* The word of a blank is a word of its sentence.
LEMMA BlankIs ==
  ASSUME NEW s \in Sentences, BlankFor(Text[s]) # 0
  PROVE  Text[s] \in Seq(Words) /\ Blank(s) \in ToSet(Text[s])
<1>1. Text[s] \in Seq(Words)
  BY QuizAssumption
<1>2. BlankFor(Text[s]) \in DOMAIN Text[s]
  BY <1>1, BlankForIs
<1>3. QED
  BY <1>1, <1>2 DEF Blank, ToSet

-----------------------------------------------------------------------------
(* The table has the least number of wrong words.                          *)

\* The alignments of what is left of two texts, and the words they get wrong.
Aligned(pairs) == \A p, q \in pairs : p = q \/ (p[1] < q[1] /\ p[2] < q[2]) \/ (q[1] < p[1] /\ q[2] < p[2])
AlignedFrom(pairs, ref, got, i, j) == pairs \in SUBSET ((i..Len(ref)) \X (j..Len(got))) /\ Aligned(pairs)
Differing(pairs, ref, got) == {p \in pairs : ref[p[1]] # got[p[2]]}
WrongFrom(pairs, ref, got, i, j) ==
  (Len(ref) + 1 - i) + (Len(got) + 1 - j) - 2 * Cardinality(pairs) + Cardinality(Differing(pairs, ref, got))

\* Texts have lengths.
LEMMA LengthsNat ==
  ASSUME NEW ref \in Seq(Words), NEW got \in Seq(Words)
  PROVE  Len(ref) \in Nat /\ Len(got) \in Nat
OBVIOUS

\* The pairs of an alignment.
PairsIn(pairs, ref, got, i, j) ==
  /\ \A p \in pairs : p = <<p[1], p[2]>> /\ p[1] \in i..Len(ref) /\ p[2] \in j..Len(got)
  /\ IsFiniteSet(pairs) /\ IsFiniteSet(Differing(pairs, ref, got))
  /\ Cardinality(pairs) \in Nat /\ Cardinality(Differing(pairs, ref, got)) \in Nat
  /\ WrongFrom(pairs, ref, got, i, j) \in Int

\* An alignment is a finite set of pairs of positions.
LEMMA PairsAre ==
  ASSUME NEW ref \in Seq(Words), NEW got \in Seq(Words), NEW i \in Nat, NEW j \in Nat,
         NEW pairs, AlignedFrom(pairs, ref, got, i, j)
  PROVE  PairsIn(pairs, ref, got, i, j)
<1> DEFINE m == Len(ref)
           n == Len(got)
           R == i..m
           T == j..n
           D == Differing(pairs, ref, got)
<1>1. m \in Nat /\ n \in Nat
  BY LengthsNat
<1>2. pairs \in SUBSET (R \X T)
  BY DEF AlignedFrom
<1> HIDE DEF m, n
<1>3. IsFiniteSet(R) /\ IsFiniteSet(T)
  BY <1>1, FS_Interval
<1> HIDE DEF R, T
<1>4. IsFiniteSet(R \X T)
  BY <1>3, FS_Product
<1>5. IsFiniteSet(pairs)
  BY <1>2, <1>4, FS_Subset
<1>6. D \in SUBSET pairs
  BY DEF Differing
<1> HIDE DEF D
<1>7. IsFiniteSet(D)
  BY <1>5, <1>6, FS_Subset
<1>8. Cardinality(pairs) \in Nat /\ Cardinality(D) \in Nat
  BY <1>5, <1>7, FS_CardinalityType
<1>9. \A p \in pairs : p = <<p[1], p[2]>> /\ p[1] \in R /\ p[2] \in T
  BY <1>2
<1>10. WrongFrom(pairs, ref, got, i, j) = (m + 1 - i) + (n + 1 - j) - 2 * Cardinality(pairs) + Cardinality(D)
  BY DEF WrongFrom, m, n, D
<1>11. (m + 1 - i) + (n + 1 - j) - 2 * Cardinality(pairs) + Cardinality(D) \in Int
  BY <1>1, <1>8
<1>12. QED
  BY <1>5, <1>7, <1>8, <1>9, <1>10, <1>11 DEF PairsIn, D, R, T, m, n

\* A pair in front of an alignment.
LEMMA PairMore ==
  ASSUME NEW ref \in Seq(Words), NEW got \in Seq(Words), NEW i \in Nat, NEW j \in Nat, i <= Len(ref), j <= Len(got),
         NEW pairs, AlignedFrom(pairs, ref, got, i + 1, j + 1)
  PROVE  /\ AlignedFrom(pairs \cup {<<i, j>>}, ref, got, i, j)
         /\ WrongFrom(pairs \cup {<<i, j>>}, ref, got, i, j) =
              WrongFrom(pairs, ref, got, i + 1, j + 1) + (IF ref[i] = got[j] THEN 0 ELSE 1)
<1> DEFINE m == Len(ref)
           n == Len(got)
           x == <<i, j>>
           more == pairs \cup {x}
           D == Differing(pairs, ref, got)
           E == Differing(more, ref, got)
<1>1. m \in Nat /\ n \in Nat /\ i <= m /\ j <= n
  BY LengthsNat
<1>2. PairsIn(pairs, ref, got, i + 1, j + 1)
  BY PairsAre
<1>3. x[1] = i /\ x[2] = j
  OBVIOUS
<1>4. \A p \in pairs : p[1] \in i + 1..m /\ p[2] \in j + 1..n /\ p = <<p[1], p[2]>>
  BY <1>2 DEF PairsIn
<1> HIDE DEF m, n
<1>5. \A p \in pairs : p[1] \in Nat /\ p[2] \in Nat /\ i < p[1] /\ j < p[2]
  BY <1>1, <1>4
<1>6. x \notin pairs
  BY <1>3, <1>5
<1>7. more \in SUBSET ((i..m) \X (j..n))
  <2>1. x \in (i..m) \X (j..n)
    BY <1>1
  <2>2. \A p \in pairs : p[1] \in i..m /\ p[2] \in j..n
    BY <1>1, <1>4
  <2>3. \A p \in pairs : p \in (i..m) \X (j..n)
    BY <1>4, <2>2
  <2>4. QED
    BY <2>1, <2>3
<1>8. Aligned(more)
  <2>1. Aligned(pairs)
    BY DEF AlignedFrom
  <2> HIDE DEF x
  <2>2. ASSUME NEW p \in more, NEW q \in more PROVE p = q \/ (p[1] < q[1] /\ p[2] < q[2]) \/ (q[1] < p[1] /\ q[2] < p[2])
    BY <1>3, <1>5, <2>1 DEF Aligned
  <2> HIDE DEF more
  <2>3. QED
    BY <2>2 DEF Aligned
<1>9. Cardinality(more) = Cardinality(pairs) + 1
  <2> HIDE DEF x
  <2>1. QED
    BY <1>2, <1>6, FS_AddElement DEF PairsIn
<1>10. E = IF ref[i] = got[j] THEN D ELSE D \cup {x}
  <2>1. ref[x[1]] = ref[i] /\ got[x[2]] = got[j]
    BY <1>3
  <2> HIDE DEF x
  <2>2. QED
    BY <2>1 DEF Differing
<1>11. Cardinality(E) = Cardinality(D) + (IF ref[i] = got[j] THEN 0 ELSE 1)
  <2>1. x \notin D /\ IsFiniteSet(D) /\ Cardinality(D) \in Nat
    BY <1>2, <1>6 DEF PairsIn, Differing
  <2> HIDE DEF x, E, D
  <2>2. Cardinality(D \cup {x}) = Cardinality(D) + 1
    BY <2>1, FS_AddElement
  <2>3. QED
    BY <1>10, <2>1, <2>2
<1>12. Cardinality(pairs) \in Nat /\ Cardinality(D) \in Nat
  BY <1>2 DEF PairsIn
<1>13. WrongFrom(more, ref, got, i, j) = (m + 1 - i) + (n + 1 - j) - 2 * Cardinality(more) + Cardinality(E)
  BY DEF WrongFrom, m, n
<1>14. WrongFrom(pairs, ref, got, i + 1, j + 1) = (m + 1 - (i + 1)) + (n + 1 - (j + 1)) - 2 * Cardinality(pairs) + Cardinality(D)
  BY DEF WrongFrom, m, n
<1> HIDE DEF more, x, D, E
<1>15. WrongFrom(more, ref, got, i, j) = WrongFrom(pairs, ref, got, i + 1, j + 1) + (IF ref[i] = got[j] THEN 0 ELSE 1)
  <2> DEFINE c == Cardinality(pairs)
             d == Cardinality(D)
             e == IF ref[i] = got[j] THEN 0 ELSE 1
  <2>1. c \in Nat /\ d \in Nat /\ e \in Nat /\ Cardinality(more) = c + 1 /\ Cardinality(E) = d + e
    BY <1>9, <1>11, <1>12
  <2> HIDE DEF c, d, e
  <2>2. (m + 1 - i) + (n + 1 - j) - 2 * (c + 1) + (d + e) = ((m + 1 - (i + 1)) + (n + 1 - (j + 1)) - 2 * c + d) + e
    BY <1>1, <2>1
  <2>3. QED
    BY <1>13, <1>14, <2>1, <2>2 DEF c, d, e
<1>16. QED
  BY <1>7, <1>8, <1>15 DEF AlignedFrom, more, x, m, n

\* An alignment of less, and one that leaves a word out.
LEMMA PairsWiden ==
  ASSUME NEW ref \in Seq(Words), NEW got \in Seq(Words), NEW i \in Nat, NEW j \in Nat, NEW pairs
  PROVE  /\ AlignedFrom(pairs, ref, got, i + 1, j) =>
              AlignedFrom(pairs, ref, got, i, j) /\ WrongFrom(pairs, ref, got, i, j) = WrongFrom(pairs, ref, got, i + 1, j) + 1
         /\ AlignedFrom(pairs, ref, got, i, j + 1) =>
              AlignedFrom(pairs, ref, got, i, j) /\ WrongFrom(pairs, ref, got, i, j) = WrongFrom(pairs, ref, got, i, j + 1) + 1
<1> DEFINE m == Len(ref)
           n == Len(got)
<1>1. m \in Nat /\ n \in Nat
  BY LengthsNat
<1> HIDE DEF m, n
<1>2. (i + 1..m) \X (j..n) \subseteq (i..m) \X (j..n) /\ (i..m) \X (j + 1..n) \subseteq (i..m) \X (j..n)
  <2>1. i + 1..m \subseteq i..m /\ j + 1..n \subseteq j..n
    BY <1>1
  <2>2. \A A, B, C : A \subseteq B => A \X C \subseteq B \X C /\ C \X A \subseteq C \X B
    OBVIOUS
  <2>3. QED
    BY <2>1, <2>2
<1>3. ASSUME PairsIn(pairs, ref, got, i + 1, j)
      PROVE  WrongFrom(pairs, ref, got, i, j) = WrongFrom(pairs, ref, got, i + 1, j) + 1
  <2> DEFINE c == Cardinality(pairs)
             d == Cardinality(Differing(pairs, ref, got))
  <2>1. c \in Nat /\ d \in Nat
    BY <1>3 DEF PairsIn
  <2>2. /\ WrongFrom(pairs, ref, got, i, j) = (m + 1 - i) + (n + 1 - j) - 2 * c + d
        /\ WrongFrom(pairs, ref, got, i + 1, j) = (m + 1 - (i + 1)) + (n + 1 - j) - 2 * c + d
    BY DEF WrongFrom, m, n
  <2> HIDE DEF c, d
  <2>3. QED
    BY <1>1, <2>1, <2>2
<1>4. ASSUME PairsIn(pairs, ref, got, i, j + 1)
      PROVE  WrongFrom(pairs, ref, got, i, j) = WrongFrom(pairs, ref, got, i, j + 1) + 1
  <2> DEFINE c == Cardinality(pairs)
             d == Cardinality(Differing(pairs, ref, got))
  <2>1. c \in Nat /\ d \in Nat
    BY <1>4 DEF PairsIn
  <2>2. /\ WrongFrom(pairs, ref, got, i, j) = (m + 1 - i) + (n + 1 - j) - 2 * c + d
        /\ WrongFrom(pairs, ref, got, i, j + 1) = (m + 1 - i) + (n + 1 - (j + 1)) - 2 * c + d
    BY DEF WrongFrom, m, n
  <2> HIDE DEF c, d
  <2>3. QED
    BY <1>1, <2>1, <2>2
<1>5. ASSUME AlignedFrom(pairs, ref, got, i + 1, j) PROVE AlignedFrom(pairs, ref, got, i, j) /\ PairsIn(pairs, ref, got, i + 1, j)
  <2>1. i + 1 \in Nat
    OBVIOUS
  <2>2. QED
    BY <1>2, <1>5, <2>1, PairsAre DEF AlignedFrom, m, n
<1>6. ASSUME AlignedFrom(pairs, ref, got, i, j + 1) PROVE AlignedFrom(pairs, ref, got, i, j) /\ PairsIn(pairs, ref, got, i, j + 1)
  <2>1. j + 1 \in Nat
    OBVIOUS
  <2>2. QED
    BY <1>2, <1>6, <2>1, PairsAre DEF AlignedFrom, m, n
<1>7. QED
  BY <1>3, <1>4, <1>5, <1>6

\* An alignment keeps the first words of both together, or leaves one of them out.
LEMMA PairsSplit ==
  ASSUME NEW ref \in Seq(Words), NEW got \in Seq(Words), NEW i \in Nat, NEW j \in Nat,
         NEW pairs, AlignedFrom(pairs, ref, got, i, j)
  PROVE  \/ AlignedFrom(pairs, ref, got, i + 1, j) \/ AlignedFrom(pairs, ref, got, i, j + 1)
         \/ \E rest : AlignedFrom(rest, ref, got, i + 1, j + 1) /\ pairs = rest \cup {<<i, j>>}
<1> DEFINE m == Len(ref)
           n == Len(got)
           x == <<i, j>>
<1>1. m \in Nat /\ n \in Nat
  BY LengthsNat
<1> HIDE DEF m, n
<1>2. Aligned(pairs) /\ \A p \in pairs : p = <<p[1], p[2]>> /\ p[1] \in i..m /\ p[2] \in j..n
  BY PairsAre DEF AlignedFrom, PairsIn, m, n
<1>3. \A p \in pairs : p[1] \in Nat /\ p[2] \in Nat /\ i <= p[1] /\ j <= p[2] /\ p[1] <= m /\ p[2] <= n
  BY <1>1, <1>2
<1>4. CASE x \in pairs
  <2> DEFINE rest == pairs \ {x}
  <2>1. x[1] = i /\ x[2] = j
    OBVIOUS
  <2>2. \A q \in rest : (q[1] < i /\ q[2] < j) \/ (i < q[1] /\ j < q[2])
    <3> HIDE DEF x
    <3>1. QED
      BY <1>2, <1>4, <2>1 DEF Aligned
  <2>3. \A q \in rest : q[1] \in i + 1..m /\ q[2] \in j + 1..n
    <3> HIDE DEF x
    <3>1. QED
      BY <1>1, <1>3, <2>2
  <2>4. rest \in SUBSET ((i + 1..m) \X (j + 1..n))
    BY <1>2, <2>3
  <2>5. Aligned(rest)
    BY <1>2 DEF Aligned
  <2>6. pairs = rest \cup {x}
    BY <1>4
  <2>7. QED
    BY <2>4, <2>5, <2>6 DEF AlignedFrom, m, n
<1>5. CASE \A p \in pairs : p[1] # i
  <2>1. \A p \in pairs : p[1] \in i + 1..m
    BY <1>1, <1>3, <1>5
  <2>2. pairs \in SUBSET ((i + 1..m) \X (j..n))
    BY <1>2, <2>1
  <2>3. QED
    BY <1>2, <2>2 DEF AlignedFrom, m, n
<1>6. CASE \A p \in pairs : p[2] # j
  <2>1. \A p \in pairs : p[2] \in j + 1..n
    BY <1>1, <1>3, <1>6
  <2>2. pairs \in SUBSET ((i..m) \X (j + 1..n))
    BY <1>2, <2>1
  <2>3. QED
    BY <1>2, <2>2 DEF AlignedFrom, m, n
<1>7. ASSUME NEW p \in pairs, NEW q \in pairs, p[1] = i, q[2] = j PROVE x \in pairs
  <2>1. p = q \/ (p[1] < q[1] /\ p[2] < q[2]) \/ (q[1] < p[1] /\ q[2] < p[2])
    BY <1>2 DEF Aligned
  <2>2. p = q
    BY <1>3, <1>7, <2>1
  <2>3. QED
    BY <1>2, <1>7, <2>2
<1>8. QED
  BY <1>4, <1>5, <1>6, <1>7

\* Nothing is left of one of them.
LEMMA PairsNone ==
  ASSUME NEW ref \in Seq(Words), NEW got \in Seq(Words), NEW i \in Nat, NEW j \in Nat,
         i > Len(ref) \/ j > Len(got), NEW pairs
  PROVE  /\ AlignedFrom(pairs, ref, got, i, j) <=> pairs = {}
         /\ WrongFrom({}, ref, got, i, j) = (Len(ref) + 1 - i) + (Len(got) + 1 - j)
<1> DEFINE m == Len(ref)
           n == Len(got)
<1>1. m \in Nat /\ n \in Nat
  BY LengthsNat
<1>2. i > m \/ j > n
  OBVIOUS
<1> HIDE DEF m, n
<1>3. i..m = {} \/ j..n = {}
  BY <1>1, <1>2
<1>4. (i..m) \X (j..n) = {}
  BY <1>3
<1>5. Aligned({}) /\ Differing({}, ref, got) = {} /\ Cardinality({}) = 0
  BY FS_EmptySet DEF Aligned, Differing
<1>6. WrongFrom({}, ref, got, i, j) = (m + 1 - i) + (n + 1 - j) - 2 * 0 + 0
  BY <1>5 DEF WrongFrom, m, n
<1>7. (m + 1 - i) + (n + 1 - j) - 2 * 0 + 0 = (m + 1 - i) + (n + 1 - j)
  BY <1>1
<1>8. AlignedFrom(pairs, ref, got, i, j) <=> pairs = {}
  BY <1>4, <1>5 DEF AlignedFrom, m, n
<1>9. QED
  BY <1>6, <1>7, <1>8 DEF m, n

\* The table's entry is the least number of wrong words.
Best(ref, got, i, j) ==
  /\ \A pairs : AlignedFrom(pairs, ref, got, i, j) => Cost(ref, got)[<<i, j>>] <= WrongFrom(pairs, ref, got, i, j)
  /\ \E pairs : AlignedFrom(pairs, ref, got, i, j) /\ Cost(ref, got)[<<i, j>>] = WrongFrom(pairs, ref, got, i, j)

\* An entry of the table is the best of what is left when the entries after it are.
LEMMA BestStep ==
  ASSUME NEW ref \in Seq(Words), NEW got \in Seq(Words), NEW i \in 1..Len(ref) + 1, NEW j \in 1..Len(got) + 1,
         i <= Len(ref) => Best(ref, got, i + 1, j),
         j <= Len(got) => Best(ref, got, i, j + 1),
         i <= Len(ref) /\ j <= Len(got) => Best(ref, got, i + 1, j + 1)
  PROVE  Best(ref, got, i, j)
<1> DEFINE c == Cost(ref, got)[<<i, j>>]
           edit == IF ref[i] = got[j] THEN 0 ELSE 1
           Of(pairs) == AlignedFrom(pairs, ref, got, i, j)
           Wr(pairs) == WrongFrom(pairs, ref, got, i, j)
<1>1. i \in Nat /\ j \in Nat /\ Len(ref) \in Nat /\ Len(got) \in Nat /\ i <= Len(ref) + 1 /\ j <= Len(got) + 1
  BY LengthsNat
<1>2. CostStep(ref, got, i, j)
  BY CostSteps
<1>3. SUFFICES (\A pairs : Of(pairs) => c <= Wr(pairs)) /\ \E pairs : Of(pairs) /\ c = Wr(pairs)
  BY DEF Best
<1>4. CASE i > Len(ref) \/ j > Len(got)
  <2>1. (\A pairs : Of(pairs) <=> pairs = {}) /\ Wr({}) = (Len(ref) + 1 - i) + (Len(got) + 1 - j)
    BY <1>1, <1>4, PairsNone
  <2>2. c = (Len(ref) + 1 - i) + (Len(got) + 1 - j)
    <3>1. (i > Len(ref) => c = Len(got) + 1 - j) /\ (j > Len(got) => c = Len(ref) + 1 - i)
      BY <1>2 DEF CostStep
    <3> HIDE DEF c
    <3>2. CASE i > Len(ref)
      BY <1>1, <3>1, <3>2
    <3>3. CASE j > Len(got)
      BY <1>1, <3>1, <3>3
    <3>4. QED
      BY <1>4, <3>2, <3>3
  <2>3. (Len(ref) + 1 - i) + (Len(got) + 1 - j) \in Int
    BY <1>1
  <2>4. c = Wr({}) /\ c <= c
    <3> HIDE DEF c, Wr
    <3>1. QED
      BY <2>1, <2>2, <2>3
  <2>5. ASSUME NEW pairs, Of(pairs) PROVE c <= Wr(pairs)
    <3>1. pairs = {}
      BY <2>1, <2>5
    <3>2. QED
      BY <2>4, <3>1
  <2>6. Of({})
    BY <2>1
  <2> HIDE DEF c, Of, Wr
  <2>7. QED
    BY <2>4, <2>5, <2>6
<1>5. CASE i <= Len(ref) /\ j <= Len(got)
  <2> DEFINE missed == Cost(ref, got)[<<i + 1, j>>]
             extra  == Cost(ref, got)[<<i, j + 1>>]
             both   == Cost(ref, got)[<<i + 1, j + 1>>]
  <2>1. /\ c \in Nat /\ missed \in Nat /\ extra \in Nat /\ both \in Nat
        /\ c <= missed + 1 /\ c <= extra + 1 /\ c <= both + edit
        /\ c = both + edit \/ c = missed + 1 \/ c = extra + 1
    BY <1>2, <1>5 DEF CostStep
  <2>2. /\ \A pairs : AlignedFrom(pairs, ref, got, i + 1, j) =>
             Of(pairs) /\ missed <= WrongFrom(pairs, ref, got, i + 1, j) /\ Wr(pairs) = WrongFrom(pairs, ref, got, i + 1, j) + 1
                       /\ WrongFrom(pairs, ref, got, i + 1, j) \in Int
        /\ \E pairs : AlignedFrom(pairs, ref, got, i + 1, j) /\ missed = WrongFrom(pairs, ref, got, i + 1, j)
    <3>1. Best(ref, got, i + 1, j) /\ i + 1 \in Nat
      BY <1>1, <1>5
    <3>2. \A pairs : AlignedFrom(pairs, ref, got, i + 1, j) => WrongFrom(pairs, ref, got, i + 1, j) \in Int
      BY <1>1, <3>1, PairsAre DEF PairsIn
    <3>3. QED
      BY <1>1, <3>1, <3>2, PairsWiden DEF Best
  <2>3. /\ \A pairs : AlignedFrom(pairs, ref, got, i, j + 1) =>
             Of(pairs) /\ extra <= WrongFrom(pairs, ref, got, i, j + 1) /\ Wr(pairs) = WrongFrom(pairs, ref, got, i, j + 1) + 1
                       /\ WrongFrom(pairs, ref, got, i, j + 1) \in Int
        /\ \E pairs : AlignedFrom(pairs, ref, got, i, j + 1) /\ extra = WrongFrom(pairs, ref, got, i, j + 1)
    <3>1. Best(ref, got, i, j + 1) /\ j + 1 \in Nat
      BY <1>1, <1>5
    <3>2. \A pairs : AlignedFrom(pairs, ref, got, i, j + 1) => WrongFrom(pairs, ref, got, i, j + 1) \in Int
      BY <1>1, <3>1, PairsAre DEF PairsIn
    <3>3. QED
      BY <1>1, <3>1, <3>2, PairsWiden DEF Best
  <2> DEFINE More(pairs) == pairs \cup {<<i, j>>}
             Less(pairs) == WrongFrom(pairs, ref, got, i + 1, j + 1)
  <2>4. /\ \A pairs : AlignedFrom(pairs, ref, got, i + 1, j + 1) =>
             Of(More(pairs)) /\ Wr(More(pairs)) = Less(pairs) + edit /\ both <= Less(pairs) /\ Less(pairs) \in Int
        /\ \E pairs : AlignedFrom(pairs, ref, got, i + 1, j + 1) /\ both = Less(pairs)
    <3>1. Best(ref, got, i + 1, j + 1) /\ i + 1 \in Nat /\ j + 1 \in Nat
      BY <1>1, <1>5
    <3>2. \A pairs : AlignedFrom(pairs, ref, got, i + 1, j + 1) => Less(pairs) \in Int
      BY <1>1, <3>1, PairsAre DEF PairsIn
    <3>3. \A pairs : AlignedFrom(pairs, ref, got, i + 1, j + 1) => Of(More(pairs)) /\ Wr(More(pairs)) = Less(pairs) + edit
      BY <1>1, <1>5, PairMore
    <3>4. /\ \A pairs : AlignedFrom(pairs, ref, got, i + 1, j + 1) => both <= Less(pairs)
          /\ \E pairs : AlignedFrom(pairs, ref, got, i + 1, j + 1) /\ both = Less(pairs)
      BY <3>1 DEF Best
    <3> HIDE DEF More, Less, Of, Wr, both, edit
    <3>5. QED
      BY <3>2, <3>3, <3>4
  <2>5. edit \in Nat
    OBVIOUS
  <2>6. ASSUME NEW pairs, Of(pairs) PROVE c <= Wr(pairs)
    <3>1. \/ AlignedFrom(pairs, ref, got, i + 1, j) \/ AlignedFrom(pairs, ref, got, i, j + 1)
          \/ \E rest : AlignedFrom(rest, ref, got, i + 1, j + 1) /\ pairs = rest \cup {<<i, j>>}
      BY <1>1, <2>6, PairsSplit
    <3> HIDE DEF c, missed, extra, both, edit, Of, Wr
    <3>2. CASE AlignedFrom(pairs, ref, got, i + 1, j)
      BY <2>1, <2>2, <3>2
    <3>3. CASE AlignedFrom(pairs, ref, got, i, j + 1)
      BY <2>1, <2>3, <3>3
    <3>4. ASSUME NEW rest, AlignedFrom(rest, ref, got, i + 1, j + 1), pairs = More(rest) PROVE c <= Wr(pairs)
      <4>1. Wr(pairs) = Less(rest) + edit /\ both <= Less(rest) /\ Less(rest) \in Int
        <5> HIDE DEF More, Less
        <5>1. QED
          BY <2>4, <3>4
      <4> HIDE DEF Less
      <4>2. QED
        BY <2>1, <2>5, <4>1
    <3>5. QED
      BY <3>1, <3>2, <3>3, <3>4
  <2>7. \E pairs : Of(pairs) /\ c = Wr(pairs)
    <3> HIDE DEF c, missed, extra, both, edit, Of, Wr, More, Less
    <3>1. CASE c = both + edit
      BY <2>4, <3>1
    <3>2. CASE c = missed + 1
      BY <2>2, <3>2
    <3>3. CASE c = extra + 1
      BY <2>3, <3>3
    <3>4. QED
      BY <2>1, <3>1, <3>2, <3>3
  <2>8. QED
    BY <2>6, <2>7
<1>6. (i > Len(ref) \/ j > Len(got)) \/ (i <= Len(ref) /\ j <= Len(got))
  BY <1>1
<1> HIDE DEF c, Of, Wr
<1>7. QED
  BY <1>4, <1>5, <1>6

\* So the first entry is the best of both texts.
LEMMA CostIsBest ==
  ASSUME NEW ref \in Seq(Words), NEW got \in Seq(Words)
  PROVE  Best(ref, got, 1, 1)
<1> DEFINE D == Places(ref, got)
           h == Ahead(ref, got)
           S == {place \in D : Best(ref, got, place[1], place[2])}
<1>1. ASSUME NEW place \in D, \A q \in D : h[q] < h[place] => q \in S PROVE place \in S
  <2>1. PICK i \in 1..Len(ref) + 1, j \in 1..Len(got) + 1 : place = <<i, j>>
    BY PlacesIs
  <2>2. /\ i <= Len(ref) => <<i + 1, j>> \in S
        /\ j <= Len(got) => <<i, j + 1>> \in S
        /\ i <= Len(ref) /\ j <= Len(got) => <<i + 1, j + 1>> \in S
    BY <1>1, <2>1, PlacesNext
  <2>3. \A k, l : <<k, l>> \in S => Best(ref, got, k, l)
    OBVIOUS
  <2> HIDE DEF S
  <2>4. Best(ref, got, i, j)
    BY <2>2, <2>3, BestStep
  <2>5. QED
    BY <2>1, <2>4 DEF S
<1> HIDE DEF S
<1>2. h \in [D -> Nat]
  BY PlacesIs
<1>3. <<1, 1>> \in D
  BY LengthsNat DEF Places
<1> HIDE DEF D, h
<1>4. D \subseteq S
  BY <1>1, <1>2, HeightInduction
<1>5. <<1, 1>> \in S
  BY <1>3, <1>4
<1>6. QED
  BY <1>5 DEF S

-----------------------------------------------------------------------------
(* What the walk writes.                                                   *)

\* A function of the entries of a list, and what is left of a text.
Mapped(list, g) == [k \in DOMAIN list |-> g[list[k]]]
Rest(text, i) == [k \in 1..Len(text) + 1 - i |-> text[i + k - 1]]

MapsCons(x, list, g) == Mapped(<<x>> \o list, g) = <<g[x]>> \o Mapped(list, g)

\* A function of the entries, with one entry more in front.
LEMMA MappedCons ==
  ASSUME NEW X, NEW Y, NEW list \in Seq(X), NEW x \in X, NEW g \in [X -> Y]
  PROVE  MapsCons(x, list, g)
<1> DEFINE n == Len(list)
           l == <<x>> \o list
<1>1. n \in Nat /\ DOMAIN list = 1..n /\ \A k \in 1..n : list[k] \in X
  OBVIOUS
<1>2. l \in Seq(X) /\ Len(l) = n + 1 /\ DOMAIN l = 1..n + 1 /\ l[1] = x /\ \A k \in 2..n + 1 : l[k] = list[k - 1]
  OBVIOUS
<1> HIDE DEF n, l
<1>3. Mapped(list, g) = [k \in 1..n |-> g[list[k]]] /\ Mapped(l, g) = [k \in 1..n + 1 |-> g[l[k]]]
  BY <1>1, <1>2 DEF Mapped
<1>4. Mapped(list, g) \in Seq(Y) /\ Len(Mapped(list, g)) = n /\ \A k \in 1..n : Mapped(list, g)[k] = g[list[k]]
  BY <1>1, <1>3
<1>5. Mapped(l, g) \in Seq(Y) /\ Len(Mapped(l, g)) = n + 1 /\ \A k \in 1..n + 1 : Mapped(l, g)[k] = g[l[k]]
  <2>1. \A k \in 1..n + 1 : g[l[k]] \in Y
    BY <1>2
  <2>2. QED
    BY <1>1, <1>3, <2>1
<1>6. Mapped(l, g) = <<g[x]>> \o Mapped(list, g)
  <2> DEFINE a == Mapped(l, g)
             b == Mapped(list, g)
             y == g[x]
  <2>1. y \in Y
    OBVIOUS
  <2>2. \A k \in 1..n + 1 : a[k] = IF k = 1 THEN y ELSE b[k - 1]
    <3>1. ASSUME NEW k \in 1..n + 1 PROVE a[k] = IF k = 1 THEN y ELSE b[k - 1]
      <4>1. CASE k = 1
        BY <1>1, <1>2, <1>5, <4>1
      <4>2. CASE k # 1
        <5>1. k \in 2..n + 1 /\ k - 1 \in 1..n
          BY <1>1, <4>2
        <5>2. a[k] = g[l[k]] /\ l[k] = list[k - 1] /\ b[k - 1] = g[list[k - 1]]
          BY <1>2, <1>4, <1>5, <5>1
        <5>3. QED
          BY <4>2, <5>2
      <4>3. QED
        BY <4>1, <4>2
    <3>2. QED
      BY <3>1
  <2> HIDE DEF a, b, y
  <2>3. a \in Seq(Y) /\ b \in Seq(Y) /\ Len(a) = n + 1 /\ Len(b) = n
    BY <1>4, <1>5 DEF a, b
  <2>4. a = <<y>> \o b
    BY <1>1, <2>1, <2>2, <2>3
  <2>5. QED
    BY <2>4 DEF a, b, y
<1>7. QED
  BY <1>6 DEF l, MapsCons

\* A function of the first numbers is a sequence.
LEMMA FunctionIsSeq ==
  ASSUME NEW X, NEW n \in Nat, NEW f \in [1..n -> X]
  PROVE  f \in Seq(X) /\ Len(f) = n
OBVIOUS

\* What is left of a text: all of it, nothing, and one word in front of the rest.
LEMMA RestIs ==
  ASSUME NEW text \in Seq(Words)
  PROVE  /\ Rest(text, 1) = text /\ Rest(text, Len(text) + 1) = <<>>
         /\ \A i \in 1..Len(text) : Rest(text, i) = <<text[i]>> \o Rest(text, i + 1)
<1> DEFINE n == Len(text)
<1>1. n \in Nat /\ DOMAIN text = 1..n /\ \A k \in 1..n : text[k] \in Words
  OBVIOUS
<1>2. text = [k \in 1..n |-> text[k]]
  BY <1>1
<1> HIDE DEF n
<1>3. Rest(text, 1) = [k \in 1..n |-> text[k]]
  <2>1. Rest(text, 1) = [k \in 1..n + 1 - 1 |-> text[1 + k - 1]]
    BY DEF Rest, n
  <2>2. n + 1 - 1 = n /\ \A k \in 1..n : 1 + k - 1 = k
    BY <1>1
  <2>3. QED
    BY <2>1, <2>2
<1>4. Rest(text, n + 1) = <<>>
  <2>1. Rest(text, n + 1) = [k \in 1..n + 1 - (n + 1) |-> text[n + 1 + k - 1]]
    BY DEF Rest, n
  <2>2. n + 1 - (n + 1) = 0
    BY <1>1
  <2>3. Rest(text, n + 1) = [k \in 1..0 |-> text[n + 1 + k - 1]]
    BY <2>1, <2>2
  <2>4. QED
    BY <2>3
<1>5. ASSUME NEW i \in 1..n PROVE Rest(text, i) = <<text[i]>> \o Rest(text, i + 1)
  <2> DEFINE a == Rest(text, i)
             b == Rest(text, i + 1)
  <2>1. a = [k \in 1..n + 1 - i |-> text[i + k - 1]] /\ b = [k \in 1..n + 1 - (i + 1) |-> text[i + 1 + k - 1]]
    BY DEF Rest, n
  <2>2. n + 1 - (i + 1) = n - i /\ n + 1 - i \in Nat /\ n - i \in Nat /\ i \in 1..n
    BY <1>1
  <2> HIDE DEF a, b
  <2>3. \A k \in 1..n + 1 - i : i + k - 1 \in 1..n /\ a[k] = text[i + k - 1] /\ text[i + k - 1] \in Words
    BY <1>1, <2>1, <2>2
  <2>4. \A k \in 1..n - i : i + 1 + k - 1 \in 1..n /\ b[k] = text[i + 1 + k - 1] /\ text[i + 1 + k - 1] \in Words
    BY <1>1, <2>1, <2>2
  <2>5. a \in Seq(Words) /\ Len(a) = n + 1 - i /\ b \in Seq(Words) /\ Len(b) = n - i
    <3>1. a \in [1..n + 1 - i -> Words]
      BY <2>1, <2>3
    <3>2. b = [k \in 1..n - i |-> text[i + 1 + k - 1]]
      BY <2>1, <2>2
    <3>3. b \in [1..n - i -> Words]
      BY <2>4, <3>2
    <3>4. QED
      BY <2>2, <3>1, <3>3, FunctionIsSeq
  <2>6. a[1] = text[i] /\ text[i] \in Words
    <3>1. 1 \in 1..n + 1 - i /\ i + 1 - 1 = i
      BY <1>1, <2>2
    <3>2. QED
      BY <2>3, <3>1
  <2>7. \A k \in 2..n + 1 - i : a[k] = b[k - 1]
    <3>1. ASSUME NEW k \in 2..n + 1 - i PROVE a[k] = b[k - 1]
      <4>1. k \in 1..n + 1 - i /\ k - 1 \in 1..n - i /\ i + 1 + (k - 1) - 1 = i + k - 1
        BY <1>1, <2>2
      <4>2. QED
        BY <2>3, <2>4, <4>1
    <3>2. QED
      BY <3>1
  <2> DEFINE y == text[i]
  <2> HIDE DEF y
  <2>8. a = <<y>> \o b
    BY <1>1, <2>2, <2>5, <2>6, <2>7 DEF y
  <2>9. QED
    BY <2>8 DEF a, b, y
<1>6. QED
  BY <1>2, <1>3, <1>4, <1>5 DEF n

\* The entries that show a word of the sentence, those that show one typed, and the wrong ones.
OfText  == {"correct", "replaced", "missed"}
OfTyped == {"correct", "replaced", "extra"}
OfWrong == {"replaced", "missed", "extra"}

TypedOf(entry) == IF entry.kind = "correct" THEN entry.word ELSE entry.typed
Only(ref, got, kinds) == {x \in EntryT(ref, got) : x.kind \in kinds}
TextOf(ref, got, w) == Mapped(Entries(w, OfText), [x \in Only(ref, got, OfText) |-> x.word])
AnswerOf(ref, got, w) == Mapped(Entries(w, OfTyped), [x \in Only(ref, got, OfTyped) |-> TypedOf(x)])

\* The words that the entries show are words.
LEMMA FieldsAre ==
  ASSUME NEW ref \in Seq(Words), NEW got \in Seq(Words)
  PROVE  /\ [x \in Only(ref, got, OfText) |-> x.word] \in [Only(ref, got, OfText) -> Words]
         /\ [x \in Only(ref, got, OfTyped) |-> TypedOf(x)] \in [Only(ref, got, OfTyped) -> Words]
<1>1. ToSet(ref) \subseteq Words /\ ToSet(got) \subseteq Words
  BY DEF ToSet
<1>2. \A x \in Only(ref, got, OfText) : x.word \in Words
  BY <1>1 DEF Only, EntryT, OfText
<1>3. \A x \in Only(ref, got, OfTyped) : TypedOf(x) \in Words
  BY <1>1 DEF Only, EntryT, OfTyped, TypedOf
<1>4. QED
  BY <1>2, <1>3

\* What one entry more shows.
ShowsOne(ref, got, x, d) ==
  LET w == <<x>> \o d IN
  /\ TextOf(ref, got, w) = (IF x.kind \in OfText THEN <<x.word>> \o TextOf(ref, got, d) ELSE TextOf(ref, got, d))
  /\ AnswerOf(ref, got, w) = (IF x.kind \in OfTyped THEN <<TypedOf(x)>> \o AnswerOf(ref, got, d) ELSE AnswerOf(ref, got, d))
  /\ Len(Entries(d, OfWrong)) \in Nat
  /\ Len(Entries(w, OfWrong)) = Len(Entries(d, OfWrong)) + (IF x.kind \in OfWrong THEN 1 ELSE 0)

\* What a diff shows with one entry more in front.
LEMMA EntryMore ==
  ASSUME NEW ref \in Seq(Words), NEW got \in Seq(Words), NEW d \in Seq(EntryT(ref, got)), NEW x \in EntryT(ref, got)
  PROVE  ShowsOne(ref, got, x, d)
<1> DEFINE E == EntryT(ref, got)
           w == <<x>> \o d
           word == [e \in Only(ref, got, OfText) |-> e.word]
           typed == [e \in Only(ref, got, OfTyped) |-> TypedOf(e)]
<1>1. \A kinds : Entries(d, kinds) \in Seq(Only(ref, got, kinds))
  <2> HIDE DEF E
  <2>1. \A kinds : Entries(d, kinds) \in Seq({e \in E : e.kind \in kinds})
    <3>1. d \in Seq(E)
      BY DEF E
    <3>2. QED
      BY <3>1, EntriesType
  <2>2. QED
    BY <2>1 DEF E, Only
<1>2. \A kinds : Entries(w, kinds) = IF x.kind \in kinds THEN <<x>> \o Entries(d, kinds) ELSE Entries(d, kinds)
  <2> HIDE DEF E
  <2>1. d \in Seq(E) /\ x \in E
    BY DEF E
  <2>2. QED
    BY <2>1, EntriesCons
<1>3. \A kinds : x.kind \in kinds => x \in Only(ref, got, kinds)
  BY DEF Only
<1>4. word \in [Only(ref, got, OfText) -> Words] /\ typed \in [Only(ref, got, OfTyped) -> Words]
  BY FieldsAre
<1>5. (x.kind \in OfText => word[x] = x.word) /\ (x.kind \in OfTyped => typed[x] = TypedOf(x))
  BY <1>3
<1> HIDE DEF word, typed, w
<1>6. TextOf(ref, got, w) = (IF x.kind \in OfText THEN <<x.word>> \o TextOf(ref, got, d) ELSE TextOf(ref, got, d))
  <2>1. TextOf(ref, got, w) = Mapped(Entries(w, OfText), word) /\ TextOf(ref, got, d) = Mapped(Entries(d, OfText), word)
    BY DEF TextOf, word
  <2>2. CASE x.kind \in OfText
    <3>1. Mapped(<<x>> \o Entries(d, OfText), word) = <<word[x]>> \o Mapped(Entries(d, OfText), word)
      <4> DEFINE list == Entries(d, OfText)
                 X == Only(ref, got, OfText)
      <4>1. list \in Seq(X) /\ x \in X /\ word \in [X -> Words]
        BY <1>1, <1>3, <1>4, <2>2
      <4> HIDE DEF list, X, E
      <4>2. MapsCons(x, list, word)
        BY <4>1, MappedCons
      <4>3. QED
        BY <4>2 DEF list, MapsCons
    <3>2. QED
      BY <1>2, <1>5, <2>1, <2>2, <3>1
  <2>3. CASE x.kind \notin OfText
    BY <1>2, <2>1, <2>3
  <2>4. QED
    BY <2>2, <2>3
<1>7. AnswerOf(ref, got, w) = (IF x.kind \in OfTyped THEN <<TypedOf(x)>> \o AnswerOf(ref, got, d) ELSE AnswerOf(ref, got, d))
  <2>1. AnswerOf(ref, got, w) = Mapped(Entries(w, OfTyped), typed) /\ AnswerOf(ref, got, d) = Mapped(Entries(d, OfTyped), typed)
    BY DEF AnswerOf, typed
  <2>2. CASE x.kind \in OfTyped
    <3>1. Mapped(<<x>> \o Entries(d, OfTyped), typed) = <<typed[x]>> \o Mapped(Entries(d, OfTyped), typed)
      <4> DEFINE list == Entries(d, OfTyped)
                 X == Only(ref, got, OfTyped)
      <4>1. list \in Seq(X) /\ x \in X /\ typed \in [X -> Words]
        BY <1>1, <1>3, <1>4, <2>2
      <4> HIDE DEF list, X, E
      <4>2. MapsCons(x, list, typed)
        BY <4>1, MappedCons
      <4>3. QED
        BY <4>2 DEF list, MapsCons
    <3>2. QED
      BY <1>2, <1>5, <2>1, <2>2, <3>1
  <2>3. CASE x.kind \notin OfTyped
    BY <1>2, <2>1, <2>3
  <2>4. QED
    BY <2>2, <2>3
<1>8. /\ Len(Entries(d, OfWrong)) \in Nat
      /\ Len(Entries(w, OfWrong)) = Len(Entries(d, OfWrong)) + (IF x.kind \in OfWrong THEN 1 ELSE 0)
  <2> DEFINE list == Entries(d, OfWrong)
             X == Only(ref, got, OfWrong)
  <2>1. list \in Seq(X)
    BY <1>1
  <2> HIDE DEF list, X
  <2>2. Len(list) \in Nat /\ (x \in X => Len(<<x>> \o list) = Len(list) + 1)
    BY <2>1
  <2>3. Len(list) = Len(list) + 0
    BY <2>2
  <2>4. QED
    BY <1>2, <1>3, <2>2, <2>3 DEF list, X
<1>9. QED
  BY <1>6, <1>7, <1>8 DEF w, ShowsOne

\* w shows what is left of both texts, and as many wrong words as the table says.
ShowsRest(ref, got, w, i, j) ==
  /\ w \in Seq(EntryT(ref, got))
  /\ TextOf(ref, got, w) = Rest(ref, i) /\ AnswerOf(ref, got, w) = Rest(got, j)
  /\ Len(Entries(w, OfWrong)) = Cost(ref, got)[<<i, j>>]

\* What the walk writes shows what is left of both texts when what it writes next does.
LEMMA WritesShow ==
  ASSUME NEW ref \in Seq(Words), NEW got \in Seq(Words), NEW i \in 1..Len(ref) + 1, NEW j \in 1..Len(got) + 1,
         NEW f, NEW w \in Seq(EntryT(ref, got)), Writes(ref, got, f, w, i, j),
         i <= Len(ref) => ShowsRest(ref, got, f[<<i + 1, j>>], i + 1, j),
         j <= Len(got) => ShowsRest(ref, got, f[<<i, j + 1>>], i, j + 1),
         i <= Len(ref) /\ j <= Len(got) => ShowsRest(ref, got, f[<<i + 1, j + 1>>], i + 1, j + 1)
  PROVE  ShowsRest(ref, got, w, i, j)
<1> DEFINE E == EntryT(ref, got)
           cost == Cost(ref, got)
<1>1. i \in Nat /\ j \in Nat /\ Len(ref) \in Nat /\ Len(got) \in Nat /\ i <= Len(ref) + 1 /\ j <= Len(got) + 1 /\ i >= 1 /\ j >= 1
  BY LengthsNat
<1>2. /\ i <= Len(ref) => Rest(ref, i) = <<ref[i]>> \o Rest(ref, i + 1)
      /\ j <= Len(got) => Rest(got, j) = <<got[j]>> \o Rest(got, j + 1)
  <2>1. (i <= Len(ref) => i \in 1..Len(ref)) /\ (j <= Len(got) => j \in 1..Len(got))
    BY <1>1
  <2>2. QED
    BY <2>1, RestIs
<1>3. /\ i <= Len(ref) => [kind |-> "correct", word |-> ref[i]] \in E /\ [kind |-> "missed", word |-> ref[i]] \in E
      /\ j <= Len(got) => [kind |-> "extra", typed |-> got[j]] \in E
      /\ i <= Len(ref) /\ j <= Len(got) => [kind |-> "replaced", word |-> ref[i], typed |-> got[j]] \in E
  BY EntryIs
<1>4. ASSUME NEW d, d \in Seq(E), NEW x \in E PROVE ShowsOne(ref, got, x, d)
  BY <1>4, EntryMore
<1> HIDE DEF E, cost
<1>5. CASE i = Len(ref) + 1 /\ j = Len(got) + 1 /\ w = <<>> /\ cost[<<i, j>>] = 0
  <2>1. Rest(ref, i) = <<>> /\ Rest(got, j) = <<>>
    BY <1>5, RestIs
  <2>2. \A g : Mapped(<<>>, g) = <<>>
    BY DEF Mapped
  <2>3. TextOf(ref, got, w) = <<>> /\ AnswerOf(ref, got, w) = <<>> /\ Entries(w, OfWrong) = <<>> /\ Len(<<>>) = 0
    BY <1>5, <2>2, EntriesNone DEF TextOf, AnswerOf
  <2>4. QED
    BY <1>5, <2>1, <2>3 DEF ShowsRest, cost
<1>6. CASE Correct(ref, got, i, j) /\ w = <<[kind |-> "correct", word |-> ref[i]]>> \o f[<<i + 1, j + 1>>]
  <2> DEFINE x == [kind |-> "correct", word |-> ref[i]]
             d == f[<<i + 1, j + 1>>]
  <2>1. i <= Len(ref) /\ j <= Len(got) /\ ref[i] = got[j] /\ cost[<<i, j>>] = cost[<<i + 1, j + 1>>]
    BY <1>6 DEF Correct, cost
  <2>2. x \in E /\ x.kind \in OfText /\ x.kind \in OfTyped /\ x.kind \notin OfWrong /\ x.word = ref[i] /\ TypedOf(x) = got[j]
    BY <1>3, <2>1 DEF OfText, OfTyped, OfWrong, TypedOf
  <2>3. w = <<x>> \o d /\ ShowsRest(ref, got, d, i + 1, j + 1)
    BY <1>6, <2>1
  <2> HIDE DEF x, d
  <2>4. ShowsOne(ref, got, x, d)
    BY <1>4, <2>2, <2>3 DEF ShowsRest, E
  <2>5. /\ TextOf(ref, got, w) = <<x.word>> \o TextOf(ref, got, d) /\ AnswerOf(ref, got, w) = <<TypedOf(x)>> \o AnswerOf(ref, got, d)
        /\ Len(Entries(w, OfWrong)) = Len(Entries(d, OfWrong))
    <3> DEFINE more == Len(Entries(w, OfWrong))
               less == Len(Entries(d, OfWrong))
    <3>1. /\ TextOf(ref, got, w) = <<x.word>> \o TextOf(ref, got, d) /\ AnswerOf(ref, got, w) = <<TypedOf(x)>> \o AnswerOf(ref, got, d)
          /\ less \in Nat /\ more = less + 0
      BY <2>2, <2>3, <2>4 DEF ShowsOne
    <3> HIDE DEF more, less
    <3>2. more = less
      BY <3>1
    <3>3. QED
      BY <3>1, <3>2 DEF more, less
  <2>6. QED
    BY <1>2, <2>1, <2>2, <2>3, <2>5 DEF ShowsRest, cost
<1>7. CASE Replaced(ref, got, i, j) /\ w = <<[kind |-> "replaced", word |-> ref[i], typed |-> got[j]]>> \o f[<<i + 1, j + 1>>]
  <2> DEFINE x == [kind |-> "replaced", word |-> ref[i], typed |-> got[j]]
             d == f[<<i + 1, j + 1>>]
  <2>1. i <= Len(ref) /\ j <= Len(got) /\ cost[<<i, j>>] = cost[<<i + 1, j + 1>>] + 1
    BY <1>7 DEF Replaced, cost
  <2>2. x \in E /\ x.kind \in OfText /\ x.kind \in OfTyped /\ x.kind \in OfWrong /\ x.word = ref[i] /\ TypedOf(x) = got[j]
    BY <1>3, <2>1 DEF OfText, OfTyped, OfWrong, TypedOf
  <2>3. w = <<x>> \o d /\ ShowsRest(ref, got, d, i + 1, j + 1)
    BY <1>7, <2>1
  <2> HIDE DEF x, d
  <2>4. ShowsOne(ref, got, x, d)
    BY <1>4, <2>2, <2>3 DEF ShowsRest, E
  <2>5. /\ TextOf(ref, got, w) = <<x.word>> \o TextOf(ref, got, d) /\ AnswerOf(ref, got, w) = <<TypedOf(x)>> \o AnswerOf(ref, got, d)
        /\ Len(Entries(w, OfWrong)) = Len(Entries(d, OfWrong)) + 1
    BY <2>2, <2>3, <2>4 DEF ShowsOne
  <2>6. QED
    BY <1>2, <2>1, <2>2, <2>3, <2>5 DEF ShowsRest, cost
<1>8. CASE Missed(ref, got, i, j) /\ w = <<[kind |-> "missed", word |-> ref[i]]>> \o f[<<i + 1, j>>]
  <2> DEFINE x == [kind |-> "missed", word |-> ref[i]]
             d == f[<<i + 1, j>>]
  <2>1. i <= Len(ref) /\ cost[<<i, j>>] = cost[<<i + 1, j>>] + 1
    BY <1>8 DEF Missed, cost
  <2>2. x \in E /\ x.kind \in OfText /\ x.kind \notin OfTyped /\ x.kind \in OfWrong /\ x.word = ref[i]
    BY <1>3, <2>1 DEF OfText, OfTyped, OfWrong
  <2>3. w = <<x>> \o d /\ ShowsRest(ref, got, d, i + 1, j)
    BY <1>8, <2>1
  <2> HIDE DEF x, d
  <2>4. ShowsOne(ref, got, x, d)
    BY <1>4, <2>2, <2>3 DEF ShowsRest, E
  <2>5. /\ TextOf(ref, got, w) = <<x.word>> \o TextOf(ref, got, d) /\ AnswerOf(ref, got, w) = AnswerOf(ref, got, d)
        /\ Len(Entries(w, OfWrong)) = Len(Entries(d, OfWrong)) + 1
    BY <2>2, <2>3, <2>4 DEF ShowsOne
  <2>6. QED
    BY <1>2, <2>1, <2>2, <2>3, <2>5 DEF ShowsRest, cost
<1>9. CASE Extra(ref, got, i, j) /\ w = <<[kind |-> "extra", typed |-> got[j]]>> \o f[<<i, j + 1>>]
  <2> DEFINE x == [kind |-> "extra", typed |-> got[j]]
             d == f[<<i, j + 1>>]
  <2>1. j <= Len(got) /\ cost[<<i, j>>] = cost[<<i, j + 1>>] + 1
    BY <1>9 DEF Extra, cost
  <2>2. x \in E /\ x.kind \notin OfText /\ x.kind \in OfTyped /\ x.kind \in OfWrong /\ TypedOf(x) = got[j]
    BY <1>3, <2>1 DEF OfText, OfTyped, OfWrong, TypedOf
  <2>3. w = <<x>> \o d /\ ShowsRest(ref, got, d, i, j + 1)
    BY <1>9, <2>1
  <2> HIDE DEF x, d
  <2>4. ShowsOne(ref, got, x, d)
    BY <1>4, <2>2, <2>3 DEF ShowsRest, E
  <2>5. /\ TextOf(ref, got, w) = TextOf(ref, got, d) /\ AnswerOf(ref, got, w) = <<TypedOf(x)>> \o AnswerOf(ref, got, d)
        /\ Len(Entries(w, OfWrong)) = Len(Entries(d, OfWrong)) + 1
    BY <2>2, <2>3, <2>4 DEF ShowsOne
  <2>6. QED
    BY <1>2, <2>1, <2>2, <2>3, <2>5 DEF ShowsRest, cost
<1>10. QED
  BY <1>5, <1>6, <1>7, <1>8, <1>9 DEF Writes, cost

\* diffWords shows both texts whole, with as many wrong words as the table says.
LEMMA DiffShows ==
  ASSUME NEW ref \in Seq(Words), NEW got \in Seq(Words)
  PROVE  ShowsRest(ref, got, DiffWords(got, ref), 1, 1)
<1> DEFINE f == Diff(ref, got)
           D == Places(ref, got)
           h == Ahead(ref, got)
           S == {place \in D : ShowsRest(ref, got, f[place], place[1], place[2])}
<1>1. ASSUME NEW place \in D, \A q \in D : h[q] < h[place] => q \in S PROVE place \in S
  <2>1. PICK i \in 1..Len(ref) + 1, j \in 1..Len(got) + 1 : place = <<i, j>>
    BY PlacesIs
  <2>2. /\ i <= Len(ref) => <<i + 1, j>> \in S
        /\ j <= Len(got) => <<i, j + 1>> \in S
        /\ i <= Len(ref) /\ j <= Len(got) => <<i + 1, j + 1>> \in S
    BY <1>1, <2>1, PlacesNext
  <2>3. \A k, l : <<k, l>> \in S => ShowsRest(ref, got, f[<<k, l>>], k, l)
    OBVIOUS
  <2>4. Writes(ref, got, f, f[<<i, j>>], i, j) /\ f[<<i, j>>] \in Seq(EntryT(ref, got))
    BY <2>1, DiffSteps, DiffType
  <2> HIDE DEF S, f
  <2>5. ShowsRest(ref, got, f[<<i, j>>], i, j)
    BY <2>2, <2>3, <2>4, WritesShow
  <2>6. QED
    BY <2>1, <2>5 DEF S
<1> HIDE DEF S
<1>2. h \in [D -> Nat]
  BY PlacesIs
<1>3. <<1, 1>> \in D
  BY LengthsNat DEF Places
<1> HIDE DEF D, h
<1>4. D \subseteq S
  BY <1>1, <1>2, HeightInduction
<1>5. <<1, 1>> \in S
  BY <1>3, <1>4
<1>6. ShowsRest(ref, got, f[<<1, 1>>], 1, 1)
  BY <1>5 DEF S
<1>7. QED
  BY <1>6, DiffIs

\* The least number of words wrong over all alignments is the table's.
LEMMA LeastIsCost ==
  ASSUME NEW ref \in Seq(Words), NEW got \in Seq(Words)
  PROVE  Min({Wrong(pairs, ref, got) : pairs \in Alignments(Len(ref), Len(got))}) = Cost(ref, got)[<<1, 1>>]
<1> DEFINE c == Cost(ref, got)[<<1, 1>>]
           S == {Wrong(pairs, ref, got) : pairs \in Alignments(Len(ref), Len(got))}
<1>1. Len(ref) \in Nat /\ Len(got) \in Nat
  BY LengthsNat
<1>2. c \in Nat
  <2>1. <<1, 1>> \in Places(ref, got)
    BY <1>1 DEF Places
  <2>2. QED
    BY <2>1, CostNat
<1>3. \A pairs : pairs \in Alignments(Len(ref), Len(got)) <=> AlignedFrom(pairs, ref, got, 1, 1)
  BY DEF Alignments, AlignedFrom, Aligned
<1>4. ASSUME NEW pairs, AlignedFrom(pairs, ref, got, 1, 1)
      PROVE  Wrong(pairs, ref, got) = WrongFrom(pairs, ref, got, 1, 1) /\ WrongFrom(pairs, ref, got, 1, 1) \in Int
  <2>1. PairsIn(pairs, ref, got, 1, 1)
    BY <1>4, PairsAre
  <2> DEFINE m == Len(ref)
             n == Len(got)
             p == Cardinality(pairs)
             d == Cardinality(Differing(pairs, ref, got))
  <2>2. m \in Nat /\ n \in Nat /\ p \in Nat /\ d \in Nat /\ WrongFrom(pairs, ref, got, 1, 1) \in Int
    BY <1>1, <2>1 DEF PairsIn
  <2>3. Wrong(pairs, ref, got) = m + n - 2 * p + d
    BY DEF Wrong, Differing
  <2>4. WrongFrom(pairs, ref, got, 1, 1) = (m + 1 - 1) + (n + 1 - 1) - 2 * p + d
    BY DEF WrongFrom
  <2> HIDE DEF m, n, p, d
  <2>5. m + n - 2 * p + d = (m + 1 - 1) + (n + 1 - 1) - 2 * p + d
    BY <2>2
  <2>6. QED
    BY <2>2, <2>3, <2>4, <2>5
<1>5. /\ \A pairs : AlignedFrom(pairs, ref, got, 1, 1) => c <= WrongFrom(pairs, ref, got, 1, 1)
      /\ \E pairs : AlignedFrom(pairs, ref, got, 1, 1) /\ c = WrongFrom(pairs, ref, got, 1, 1)
  BY CostIsBest DEF Best
<1> HIDE DEF c
<1>6. \A x \in S : x \in Int /\ c <= x
  BY <1>3, <1>4, <1>5
<1>7. c \in S
  <2>1. PICK pairs : AlignedFrom(pairs, ref, got, 1, 1) /\ c = WrongFrom(pairs, ref, got, 1, 1)
    BY <1>5
  <2>2. c = Wrong(pairs, ref, got) /\ pairs \in Alignments(Len(ref), Len(got))
    BY <1>3, <1>4, <2>1
  <2>3. QED
    BY <2>2
<1> HIDE DEF S
<1>8. S \in SUBSET Nat /\ S # {}
  BY <1>2, <1>6, <1>7
<1>9. Min(S) \in S /\ \A n \in S : Min(S) <= n
  BY <1>8, LeastNumber
<1>10. Min(S) = c
  <2> DEFINE least == Min(S)
  <2> HIDE DEF least
  <2>1. least \in Nat /\ c \in Nat /\ c <= least /\ least <= c
    <3>1. least \in S /\ \A n \in S : least <= n
      BY <1>9 DEF least
    <3>2. QED
      BY <1>2, <1>6, <1>7, <1>8, <3>1
  <2>2. least = c
    BY <2>1
  <2>3. QED
    BY <2>2 DEF least
<1>11. QED
  BY <1>10 DEF S, c

\* What a diff shows, written as the result on screen is.
BestResult(ref, got) ==
  LET diff == DiffWords(got, ref)
      text == Entries(diff, OfText)
      typed == Entries(diff, OfTyped) IN
  /\ [i \in DOMAIN text |-> text[i].word] = ref
  /\ [i \in DOMAIN typed |-> TypedOf(typed[i])] = got
  /\ Len(Entries(diff, OfWrong)) = Cost(ref, got)[<<1, 1>>]

\* The result of a check, as the screen has it.
LEMMA ResultIs ==
  ASSUME NEW ref \in Seq(Words), NEW got \in Seq(Words)
  PROVE  BestResult(ref, got)
<1> DEFINE E == EntryT(ref, got)
           diff == DiffWords(got, ref)
           text == Entries(diff, OfText)
           typed == Entries(diff, OfTyped)
<1>1. ShowsRest(ref, got, diff, 1, 1)
  BY DiffShows
<1>2. TextOf(ref, got, diff) = ref /\ AnswerOf(ref, got, diff) = got
  BY <1>1, RestIs DEF ShowsRest
<1>3. text \in Seq(Only(ref, got, OfText)) /\ typed \in Seq(Only(ref, got, OfTyped))
  <2> HIDE DEF E
  <2>1. diff \in Seq(E)
    BY DiffWordsType DEF E
  <2>2. \A kinds : Entries(diff, kinds) \in Seq({e \in E : e.kind \in kinds})
    BY <2>1, EntriesType
  <2>3. QED
    BY <2>2 DEF E, Only
<1>4. TextOf(ref, got, diff) = [i \in DOMAIN text |-> [x \in Only(ref, got, OfText) |-> x.word][text[i]]]
  BY DEF TextOf, Mapped
<1>5. AnswerOf(ref, got, diff) = [i \in DOMAIN typed |-> [x \in Only(ref, got, OfTyped) |-> TypedOf(x)][typed[i]]]
  BY DEF AnswerOf, Mapped
<1> HIDE DEF diff, text, typed
<1>6. (\A i \in DOMAIN text : text[i] \in Only(ref, got, OfText)) /\ \A i \in DOMAIN typed : typed[i] \in Only(ref, got, OfTyped)
  <2> DEFINE X == Only(ref, got, OfText)
             Y == Only(ref, got, OfTyped)
  <2>1. text \in Seq(X) /\ typed \in Seq(Y)
    BY <1>3
  <2> HIDE DEF X, Y
  <2>2. (\A i \in DOMAIN text : text[i] \in X) /\ \A i \in DOMAIN typed : typed[i] \in Y
    BY <2>1
  <2>3. QED
    BY <2>2 DEF X, Y
<1>7. [i \in DOMAIN text |-> text[i].word] = ref
  <2> DEFINE X == Only(ref, got, OfText)
  <2> HIDE DEF X
  <2>1. \A i \in DOMAIN text : [x \in X |-> x.word][text[i]] = text[i].word
    BY <1>6 DEF X
  <2>2. [i \in DOMAIN text |-> [x \in X |-> x.word][text[i]]] = [i \in DOMAIN text |-> text[i].word]
    BY <2>1
  <2>3. QED
    BY <1>2, <1>4, <2>2 DEF X
<1>8. [i \in DOMAIN typed |-> TypedOf(typed[i])] = got
  <2> DEFINE X == Only(ref, got, OfTyped)
  <2> HIDE DEF X
  <2>1. \A i \in DOMAIN typed : [x \in X |-> TypedOf(x)][typed[i]] = TypedOf(typed[i])
    BY <1>6 DEF X
  <2>2. [i \in DOMAIN typed |-> [x \in X |-> TypedOf(x)][typed[i]]] = [i \in DOMAIN typed |-> TypedOf(typed[i])]
    BY <2>1
  <2>3. QED
    BY <1>2, <1>5, <2>2 DEF X
<1>9. QED
  BY <1>1, <1>7, <1>8 DEF BestResult, ShowsRest, diff, text, typed
=============================================================================
