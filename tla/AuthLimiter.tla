---------------------------- MODULE AuthLimiter ----------------------------
(***************************************************************************)
(* The api's in-memory limiter of sign-ins and sign-ups: fixed windows     *)
(* that count the attempts of an IP key, the failed logins of an email     *)
(* from an IP key, and the failed logins of an email from anywhere.  Each  *)
(* operation runs under one lock.  A login reserves its slots before the   *)
(* password is looked up and gives them back, or not, when it is known;    *)
(* meanwhile other logins run, windows end and new ones begin.             *)
(***************************************************************************)
EXTENDS Integers, FiniteSets

CONSTANTS
  Requests,   \* concurrent auth requests
  IPs,        \* IP keys
  Emails,
  NoWindow,   \* stands for a key without an entry
  NoKey,      \* stands for the keys of a request that is over
  IpLimit,    \* ipAttemptLimit
  IpLength,   \* ipAttemptWindow
  PairLimit,  \* loginFailureLimit
  AccountCap, \* accountFailureCap
  Length,     \* loginFailureWindow
  MaxEntries, \* limiterMaxEntries
  Second,     \* clock ticks in a second
  MaxTime     \* bound: the clock

(***************************************************************************)
(* A window: its start and count, as the code keeps them, the requests     *)
(* whose reservation points to it, and, as history, the guesses that were  *)
(* wrong.  An entry that is deleted takes its holders along: a reservation *)
(* points to the key's entry as long as the request is among them.         *)
(***************************************************************************)
Window == [start: Nat, count: Nat, holders: SUBSET Requests, wrong: Nat]

ASSUME LimiterAssumption ==
  /\ NoWindow \notin Window
  /\ IsFiniteSet(Requests)
  /\ IpLimit \in Nat /\ PairLimit \in Nat /\ AccountCap \in Nat /\ MaxEntries \in Nat
  /\ IpLength \in Nat /\ Length \in Nat /\ MaxTime \in Nat
  /\ Second \in Nat \ {0}

VARIABLES
  now,      \* the clock
  ips,      \* per IP key: its window of attempts
  pairs,    \* per email and IP key: its window of failed logins
  accounts, \* per email: its window of failed logins
  pc,       \* per request: "idle", "counted" by allowIP, "checking" the password, "refused"
  from,     \* per request: its IP key
  email,    \* per request: the email it signs in
  told      \* per request: the Retry-After of its refusal

windows == <<ips, pairs, accounts>>
vars == <<now, windows, pc, from, email, told>>

\* A window that begins now.
Fresh == [start |-> now, count |-> 0, holders |-> {}, wrong |-> 0]

PairKeys == Emails \X IPs
Key(r)   == <<email[r], from[r]>>

Init ==
  /\ now = 0
  /\ ips = [i \in IPs |-> NoWindow]
  /\ pairs = [k \in PairKeys |-> NoWindow]
  /\ accounts = [e \in Emails |-> NoWindow]
  /\ pc = [r \in Requests |-> "idle"]
  /\ from = [r \in Requests |-> NoKey]
  /\ email = [r \in Requests |-> NoKey]
  /\ told = [r \in Requests |-> 0]

-----------------------------------------------------------------------------
(***************************************************************************)
(* The maps.  Each operator takes a map and returns it as the code leaves  *)
(* it.                                                                     *)
(***************************************************************************)
Entries(m) == {k \in DOMAIN m : m[k] # NoWindow}

Over(m, length) == {k \in Entries(m) : m[k].start + length <= now}

Without(m, keys) == [k \in DOMAIN m |-> IF k \in keys THEN NoWindow ELSE m[k]]

\* current: an expired entry of the key is dropped.
Current(m, k, length) == Without(m, Over(m, length) \cap {k})

\* admit's sweep, only of a full map.
Swept(m, length) ==
  IF Cardinality(Entries(m)) >= MaxEntries THEN Without(m, Over(m, length)) ELSE m

\* mutant of Admit: the size is not looked at again after the sweep
AdmitAlways(m, k, length) == [Swept(m, length) EXCEPT ![k] = Fresh]

\* admit: a fresh window, unless the map is full of live ones.
Admit(m, k, length) ==
  LET swept == Swept(m, length) IN
  IF Cardinality(Entries(swept)) >= MaxEntries THEN swept ELSE [swept EXCEPT ![k] = Fresh]

\* live: the map in which k's entry, if there is one, is the window to count in.
Live(m, k, length) ==
  LET rest == Current(m, k, length) IN
  IF rest[k] # NoWindow THEN rest ELSE Admit(rest, k, length)

\* mutant of Full: off by one
OverFull(m, k, limit) == m[k] # NoWindow /\ m[k].count > limit

Full(m, k, limit) == m[k] # NoWindow /\ m[k].count >= limit

(***************************************************************************)
(* What happens to one window, and to the one a map has for a key.         *)
(***************************************************************************)
Counted(w, holder) == [w EXCEPT !.count = @ + 1, !.holders = @ \cup holder]
Returned(w, r)     == [w EXCEPT !.count = @ - 1, !.holders = @ \ {r}]
Kept(w, r)         == [w EXCEPT !.wrong = @ + 1, !.holders = @ \ {r}]

\* One more attempt; a request that may give it back is its holder.
Count(m, k, holder) ==
  IF m[k] = NoWindow THEN m ELSE [m EXCEPT ![k] = Counted(@, holder)]

Holds(m, k, r) == m[k] # NoWindow /\ r \in m[k].holders

\* mutant of ReturnSlot: the window is not compared with the reserved one
ReturnAnySlot(m, k, r) ==
  IF m[k] # NoWindow /\ m[k].count > 0 THEN [m EXCEPT ![k] = Returned(@, r)] ELSE m

\* mutant of ReturnSlot: lowers whatever window the key has
ReturnUnchecked(m, k, r) ==
  IF m[k] # NoWindow THEN [m EXCEPT ![k] = Returned(@, r)] ELSE m

\* returnSlot: only to the window in which r reserved it.
ReturnSlot(m, k, r) ==
  IF Holds(m, k, r) /\ m[k].count > 0 THEN [m EXCEPT ![k] = Returned(@, r)] ELSE m

\* The slot r reserved, if its window is still there, is a failure for good.
KeepSlot(m, k, r) == IF Holds(m, k, r) THEN [m EXCEPT ![k] = Kept(@, r)] ELSE m

\* mutant of RetryAfter: rounds down
RetrySooner(ticks) == IF ticks < Second THEN 1 ELSE ticks \div Second

\* writeTooManyAttempts: whole seconds, rounded up, at least one.
RetryAfter(ticks) ==
  LET seconds == (ticks + Second - 1) \div Second IN
  IF seconds < 1 THEN 1 ELSE seconds

-----------------------------------------------------------------------------
\* The request is answered.
Finish(r) ==
  /\ pc' = [pc EXCEPT ![r] = "idle"]
  /\ from' = [from EXCEPT ![r] = NoKey]
  /\ email' = [email EXCEPT ![r] = NoKey]
  /\ told' = [told EXCEPT ![r] = 0]

\* It is to be answered with a 429.
Refuse(r, ticks) ==
  /\ pc' = [pc EXCEPT ![r] = "refused"]
  /\ told' = [told EXCEPT ![r] = RetryAfter(ticks)]

\* A sign-in or sign-up arrives and is counted for its IP key.
AllowIP(r) ==
  /\ pc[r] = "idle"
  /\ \E i \in IPs, e \in Emails :
       LET map == Live(ips, i, IpLength) IN
       /\ from' = [from EXCEPT ![r] = i]
       /\ email' = [email EXCEPT ![r] = e]
       /\ \/ /\ map[i] = NoWindow
             /\ ips' = map
             /\ Refuse(r, IpLength)
          \/ /\ Full(map, i, IpLimit)
             /\ ips' = map
             /\ Refuse(r, map[i].start + IpLength - now)
          \/ /\ map[i] # NoWindow /\ ~Full(map, i, IpLimit)
             /\ ips' = Count(map, i, {})
             /\ pc' = [pc EXCEPT ![r] = "counted"]
             /\ UNCHANGED told
  /\ UNCHANGED <<now, pairs, accounts>>

\* The handler answers without a password check: a refusal, a malformed request
\* or a sign-up.
AnswerEarly(r) ==
  /\ pc[r] \in {"counted", "refused"}
  /\ Finish(r)
  /\ UNCHANGED <<now, windows>>

\* allowAccount: one slot of each count that has a window, or a refusal.  A full
\* map skips its count.
AllowAccount(r) ==
  LET byPair    == Live(pairs, Key(r), Length)
      byAccount == Live(accounts, email[r], Length)
  IN
  /\ pc[r] = "counted"
  /\ \/ /\ Full(byPair, Key(r), PairLimit)
        /\ Refuse(r, byPair[Key(r)].start + Length - now)
        /\ pairs' = byPair /\ accounts' = byAccount
     \/ /\ ~Full(byPair, Key(r), PairLimit)
        /\ Full(byAccount, email[r], AccountCap)
        /\ Refuse(r, byAccount[email[r]].start + Length - now)
        /\ pairs' = byPair /\ accounts' = byAccount
     \/ /\ ~Full(byPair, Key(r), PairLimit) /\ ~Full(byAccount, email[r], AccountCap)
        /\ pc' = [pc EXCEPT ![r] = "checking"]
        /\ pairs' = Count(byPair, Key(r), {r})
        /\ accounts' = Count(byAccount, email[r], {r})
        /\ UNCHANGED told
  /\ UNCHANGED <<now, ips, from, email>>

\* An unknown email or a wrong password: the slots are not given back.
WrongPassword(r) ==
  /\ pc[r] = "checking"
  /\ Finish(r)
  /\ pairs' = KeepSlot(pairs, Key(r), r)
  /\ accounts' = KeepSlot(accounts, email[r], r)
  /\ UNCHANGED <<now, ips>>

\* release: the database failed, which is not a failed guess.
Release(r) ==
  /\ pc[r] = "checking"
  /\ Finish(r)
  /\ pairs' = ReturnSlot(pairs, Key(r), r)
  /\ accounts' = ReturnSlot(accounts, email[r], r)
  /\ UNCHANGED <<now, ips>>

\* clearFailures: the password is right.  The failures of this email from this
\* IP key are forgotten, those of other IP keys are not.
ClearFailures(r) ==
  /\ pc[r] = "checking"
  /\ Finish(r)
  /\ pairs' = Without(pairs, {Key(r)})
  /\ accounts' = ReturnSlot(accounts, email[r], r)
  /\ UNCHANGED <<now, ips>>

Tick ==
  /\ now < MaxTime
  /\ now' = now + 1
  /\ UNCHANGED <<windows, pc, from, email, told>>

Handle(r) ==
  \/ AllowIP(r) \/ AnswerEarly(r) \/ AllowAccount(r)
  \/ WrongPassword(r) \/ Release(r) \/ ClearFailures(r)

Next == Tick \/ \E r \in Requests : Handle(r)

Spec == Init /\ [][Next]_vars
-----------------------------------------------------------------------------
\* Every map holds windows, every request a place in the handler.
TypeOK ==
  /\ now \in Nat
  /\ ips \in [IPs -> Window \cup {NoWindow}]
  /\ pairs \in [PairKeys -> Window \cup {NoWindow}]
  /\ accounts \in [Emails -> Window \cup {NoWindow}]
  /\ pc \in [Requests -> {"idle", "counted", "checking", "refused"}]
  /\ from \in [Requests -> IPs \cup {NoKey}]
  /\ email \in [Requests -> Emails \cup {NoKey}]
  /\ \A r \in Requests : pc[r] # "idle" => from[r] \in IPs /\ email[r] \in Emails
  /\ told \in [Requests -> Nat]

AddsUp(m) ==
  \A k \in Entries(m) : m[k].count = m[k].wrong + Cardinality(m[k].holders)

\* A count is the wrong guesses of its window plus the logins still being
\* checked: no slot is given back twice, by a login whose window was replaced,
\* or to a window that did not count it, whatever logins overlap with the end of
\* a window, a sweep or a successful login ("so a stale reservation never lowers
\* a newer window").
SlotsAddUp == AddsUp(pairs) /\ AddsUp(accounts)

\* "so parallel wrong guesses cannot all pass": the guesses of one window, the
\* undecided ones included, stay within its limit.
GuessesBounded ==
  /\ \A k \in Entries(pairs) : pairs[k].wrong + Cardinality(pairs[k].holders) <= PairLimit
  /\ \A e \in Entries(accounts) :
       accounts[e].wrong + Cardinality(accounts[e].holders) <= AccountCap

\* No map outgrows limiterMaxEntries, however many keys are tried.
MapsBounded ==
  /\ Cardinality(Entries(ips)) <= MaxEntries
  /\ Cardinality(Entries(pairs)) <= MaxEntries
  /\ Cardinality(Entries(accounts)) <= MaxEntries

Blocking(m, limit) == {k \in Entries(m) : m[k].count >= limit}

\* What refuses r in this step is over when r comes back after its Retry-After.
\* A refusal by allowIP for want of room is over when every window of the map is.
LongEnough(r) ==
  LET ended(w, length) == w.start + length <= now + told'[r] * Second IN
  \/ /\ pc[r] = "idle" /\ from'[r] \in Entries(ips')
     /\ ended(ips'[from'[r]], IpLength)
  \/ /\ pc[r] = "idle" /\ from'[r] \notin Entries(ips')
     /\ \A i \in Entries(ips') : ended(ips'[i], IpLength)
  \/ /\ pc[r] = "counted" /\ Key(r) \in Blocking(pairs', PairLimit)
     /\ ended(pairs'[Key(r)], Length)
  \/ /\ pc[r] = "counted" /\ email[r] \in Blocking(accounts', AccountCap)
     /\ ended(accounts'[email[r]], Length)

\* Retry-After is long enough: a client that waits for it does not meet the window
\* that refused it again (writeTooManyAttempts rounds up to whole seconds).
RetryIsLongEnough ==
  [][\A r \in Requests : pc[r] # "refused" /\ pc'[r] = "refused" => LongEnough(r)]_vars
=============================================================================
