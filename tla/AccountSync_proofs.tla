------------------------- MODULE AccountSync_proofs -------------------------
(***************************************************************************)
(* For any number of tabs, accounts and scheduler objects: a tab never has *)
(* a live scheduler but its own, and a browser's only tab sends with the   *)
(* cookie of an account that does not own the device only before it has    *)
(* heard of a sign-in of its own.                                          *)
(***************************************************************************)
EXTENDS AccountSync, TLAPS

AnyUser == Users \cup {NoUser}

-----------------------------------------------------------------------------
\* A slot no scheduler uses is an inactive scheduler's with nothing to send.
LEMMA UnusedType == Unused \in Scheduler /\ ~Unused.active /\ Unused.body = -1 /\ Unused.pc = "idle"
BY AccountAssumption DEF Unused, Scheduler, Places, NoBody

\* A new scheduler is live, for its account.
LEMMA CreatedType ==
  ASSUME NEW u \in AnyUser
  PROVE  Created(u) \in Scheduler /\ Created(u).active /\ Created(u).user = u /\ Created(u).body = -1
         /\ Created(u).pc = "claim"
<1>1. NoBody \in NoBody..MaxChanges /\ NoBody = -1 /\ "idle" \in Places /\ "claim" \in Places
  BY AccountAssumption DEF NoBody, Places
<1>2. Unused \in Scheduler
  BY UnusedType
<1>3. QED
  BY <1>1, <1>2 DEF Created, Unused, Scheduler, AnyUser

\* A stopped scheduler is not live, and sends what it was about to send.
LEMMA StoppedType ==
  ASSUME NEW r \in Scheduler
  PROVE  Stopped(r) \in Scheduler /\ ~Stopped(r).active /\ Stopped(r).body \in {-1, r.body}
         /\ Stopped(r).pc \in {"idle", r.pc}
<1>1. r.pc # "idle" => [r EXCEPT !.active = FALSE] \in Scheduler
  BY DEF Scheduler
<1>2. QED
  BY <1>1, UnusedType DEF Stopped, Scheduler

\* The end of a run leaves a live scheduler idle and live.
LEMMA EndedType ==
  ASSUME NEW r \in Scheduler
  PROVE  /\ Ended(r) \in Scheduler /\ Ended(r).active = r.active /\ Ended(r).body = -1 /\ Ended(r).pc = "idle"
         /\ r.active => Ended(r).user = r.user
<1> DEFINE e == [r EXCEPT !.pc = "idle", !.dirty = FALSE, !.body = NoBody, !.account = NoUser]
<1>1. e \in Scheduler
  <2>1. NoBody \in NoBody..MaxChanges /\ "idle" \in Places
    BY AccountAssumption DEF NoBody, Places
  <2>2. QED
    BY <2>1 DEF Scheduler
<1>2. QED
  BY <1>1, UnusedType DEF Ended, Scheduler, NoBody

\* A trigger starts a run or is remembered.
LEMMA TriggeredType ==
  ASSUME NEW r \in Scheduler
  PROVE  /\ Triggered(r) \in Scheduler /\ Triggered(r).active = r.active /\ Triggered(r).body = r.body
         /\ Triggered(r).user = r.user /\ Triggered(r).pc \in {"claim", r.pc}
BY DEF Triggered, Scheduler, Places

-----------------------------------------------------------------------------
(***************************************************************************)
(* Each signed-in tab has one live scheduler, of its own and for the       *)
(* account it shows, and no scheduler is live but a tab's.                 *)
(***************************************************************************)
Paired(usr, cur, r) ==
  /\ \A t \in Tabs : cur[t] # NoScheduler => r[cur[t]].active /\ r[cur[t]].user = usr[t] /\ usr[t] # NoUser
  /\ \A t, u \in Tabs : cur[t] # NoScheduler /\ cur[t] = cur[u] => t = u
  /\ \A s \in Schedulers : r[s].active => \E t \in Tabs : cur[t] = s

\* A live scheduler that is past claimOwner is the owner's.
Owns(own, r) == \A s \in Schedulers : r[s].active /\ r[s].pc \notin {"idle", "claim"} => own = r[s].user

\* In a browser with one tab, the cookie is the tab's account's, unless the tab
\* has not heard of a sign-in; a /me answer that will be taken was given for this
\* cookie; and a tab that has not heard of a sign-in takes an account only from the
\* /me that was out, after which none is.
OneTab == \A t, u \in Tabs : t = u
Cookies ==
  \A t \in Tabs :
    /\ auth[t] = "in" => cookie \in {NoUser, authUser[t]} /\ ~unread[t]
    /\ Untold(t) /\ me[t] # "none" => user[t] = NoUser
    /\ ~Untold(t) /\ user[t] # NoUser => cookie \in {NoUser, user[t]}
    /\ ~Untold(t) /\ me[t] = "answered" /\ ~meStale[t] /\ meUser[t] # NoUser => cookie \in {NoUser, meUser[t]}

IInv == TypeOK /\ Paired(user, current, run) /\ Owns(owner, run) /\ (OneTab => Cookies)

\* Only a live scheduler sends.
SendsLive == \A s \in Schedulers : run[s].pc = "send" /\ run'[s].pc = "sent" => run[s].active

\* The schedulers' part of TypeOK, for runs of at most c changes.
Runs(r, c) == r \in [Schedulers -> Scheduler] /\ \A s \in Schedulers : r[s].body <= c

\* A step that makes no scheduler live or stopped keeps the pairing.
LEMMA PairedKeeps ==
  ASSUME Paired(user, current, run), current \in [Tabs -> Schedulers \cup {NoScheduler}], UNCHANGED <<user, current>>,
         \A s \in Schedulers : run'[s].active = run[s].active /\ (run[s].active => run'[s].user = run[s].user)
  PROVE  Paired(user, current, run)'
BY DEF Paired

\* useSync's effect.
LEMMA RestartKeeps ==
  ASSUME IInv, NEW t \in Tabs, NEW u \in AnyUser, Restart(t, u)
  PROVE  /\ user' \in [Tabs -> AnyUser] /\ current' \in [Tabs -> Schedulers \cup {NoScheduler}]
         /\ Runs(run', change) /\ Paired(user, current, run)'
         /\ user'[t] = u /\ \A v \in Tabs \ {t} : user'[v] = user[v]
         /\ Owns(owner, run') /\ SendsLive
<1> USE AccountAssumption
<1>0. /\ user \in [Tabs -> AnyUser] /\ current \in [Tabs -> Schedulers \cup {NoScheduler}]
      /\ run \in [Schedulers -> Scheduler] /\ \A s \in Schedulers : run[s].body <= change
      /\ change \in Nat
  BY DEF IInv, TypeOK, AnyUser
<1>1. /\ user' \in [Tabs -> AnyUser] /\ user'[t] = u /\ \A v \in Tabs \ {t} : user'[v] = user[v]
  BY <1>0 DEF Restart
<1>2. \A s \in Schedulers : run[s].body \in Int /\ Stopped(run[s]) \in Scheduler /\ ~Stopped(run[s]).active
                            /\ Stopped(run[s]).body <= change /\ Stopped(run[s]).pc \in {"idle", run[s].pc}
  <2> TAKE s \in Schedulers
  <2>1. run[s].body \in Int
    BY <1>0 DEF Scheduler
  <2>2. QED
    BY <1>0, <2>1, StoppedType
<1>3. CASE u = NoUser
  <2>1. /\ current' = [current EXCEPT ![t] = NoScheduler]
        /\ run' = [s \in Schedulers |-> IF s = current[t] THEN Stopped(run[s]) ELSE run[s]]
    BY <1>3 DEF Restart
  <2>2. Runs(run', change)
    BY <1>0, <1>2, <2>1 DEF Runs
  <2>3. Paired(user, current, run)'
    BY <1>0, <1>1, <1>2, <2>1 DEF IInv, Paired
  <2>4. Owns(owner, run') /\ SendsLive
    BY <1>0, <1>2, <2>1 DEF IInv, Owns, SendsLive
  <2>5. QED
    BY <1>0, <1>1, <2>1, <2>2, <2>3, <2>4
<1>4. CASE u # NoUser
  <2>1. PICK new \in Schedulers :
          /\ run[new] = Unused
          /\ current' = [current EXCEPT ![t] = new]
          /\ run' = [s \in Schedulers |-> IF s = current[t] THEN Stopped(run[s])
                                          ELSE IF s = new THEN Created(u) ELSE run[s]]
    BY <1>4 DEF Restart
  <2>2. /\ Created(u) \in Scheduler /\ Created(u).active /\ Created(u).user = u /\ Created(u).body <= change
        /\ Created(u).pc = "claim"
    BY <1>0, CreatedType
  <2>3. \A v \in Tabs : current[v] # new
    BY <1>0, <2>1, UnusedType DEF IInv, Paired
  <2>4. Runs(run', change)
    BY <1>0, <1>2, <2>1, <2>2 DEF Runs
  <2>5. /\ current'[t] = new /\ run'[new] = Created(u)
        /\ \A v \in Tabs \ {t} : current'[v] = current[v] /\ current[v] # new
    BY <1>0, <2>1, <2>3
  <2>6. \A v \in Tabs \ {t} : current[v] # NoScheduler => current[v] # current[t] /\ run'[current[v]] = run[current[v]]
    BY <1>0, <2>1, <2>3 DEF IInv, Paired
  <2>7. \A s \in Schedulers : run'[s].active => s = new \/ (s # current[t] /\ run[s].active /\ run'[s] = run[s])
    BY <1>0, <1>2, <2>1
  <2>8. Paired(user, current, run)'
    <3>1. \A v \in Tabs : current'[v] # NoScheduler =>
            run'[current'[v]].active /\ run'[current'[v]].user = user'[v] /\ user'[v] # NoUser
      BY <1>0, <1>1, <1>4, <2>2, <2>5, <2>6 DEF IInv, Paired
    <3>2. \A v, w \in Tabs : current'[v] # NoScheduler /\ current'[v] = current'[w] => v = w
      BY <2>5 DEF IInv, Paired
    <3>3. \A s \in Schedulers : run'[s].active => \E v \in Tabs : current'[v] = s
      BY <2>5, <2>7 DEF IInv, Paired
    <3>4. QED
      BY <3>1, <3>2, <3>3 DEF Paired
  <2>9. Owns(owner, run') /\ SendsLive
    <3>1. Owns(owner, run')
      BY <2>2, <2>5, <2>7 DEF IInv, Owns
    <3>2. SendsLive
      BY <1>0, <1>2, <2>1, <2>2, UnusedType DEF SendsLive
    <3>3. QED
      BY <3>1, <3>2
  <2>10. QED
    BY <1>0, <1>1, <2>1, <2>4, <2>8, <2>9
<1>5. QED
  BY <1>3, <1>4

-----------------------------------------------------------------------------
\* The steps of a tab that leave its account and the schedulers alone.
LEMMA TabSteps ==
  ASSUME IInv, NEW t \in Tabs,
         ServeMe(t) \/ FailMe(t) \/ RetryMe(t) \/ SignOut(t) \/ LoseAuth(t) \/ \E u \in Users : SignIn(t, u)
  PROVE  IInv' /\ SendsLive
<1> USE AccountAssumption
<1>0. UNCHANGED <<user, current, run, owner, change, have, merged>>
  BY DEF ServeMe, FailMe, RetryMe, SignIn, SignOut, LoseAuth, tabVars, otherVars
<1>1. TypeOK'
  <2>1. CASE ServeMe(t)
    BY <1>0, <2>1 DEF IInv, TypeOK, ServeMe, tabVars, otherVars
  <2>2. CASE FailMe(t)
    BY <1>0, <2>2 DEF IInv, TypeOK, FailMe, tabVars, otherVars
  <2>3. CASE RetryMe(t)
    BY <1>0, <2>3 DEF IInv, TypeOK, RetryMe, tabVars, otherVars
  <2>4. CASE \E u \in Users : SignIn(t, u)
    BY <1>0, <2>4 DEF IInv, TypeOK, SignIn, tabVars, otherVars
  <2>5. CASE SignOut(t)
    BY <1>0, <2>5 DEF IInv, TypeOK, SignOut, tabVars, otherVars
  <2>6. CASE LoseAuth(t)
    BY <1>0, <2>6 DEF IInv, TypeOK, LoseAuth, tabVars, otherVars
  <2>7. QED
    BY <2>1, <2>2, <2>3, <2>4, <2>5, <2>6
<1>2. Paired(user, current, run)' /\ Owns(owner, run)' /\ SendsLive
  BY <1>0 DEF IInv, Paired, Owns, SendsLive
<1>3. ASSUME OneTab PROVE Cookies'
  <2>0. /\ TypeOK /\ Cookies /\ \A v \in Tabs : v = t
    BY <1>3 DEF IInv, OneTab
  <2>1. CASE ServeMe(t)
    BY <2>0, <2>1 DEF TypeOK, Cookies, Untold, ServeMe, otherVars
  <2>2. CASE FailMe(t)
    BY <2>0, <2>2 DEF TypeOK, Cookies, Untold, FailMe
  <2>3. CASE RetryMe(t)
    BY <2>0, <2>3 DEF TypeOK, Cookies, Untold, RetryMe, otherVars
  <2>4. CASE \E u \in Users : SignIn(t, u)
    BY <2>0, <2>4 DEF TypeOK, Cookies, Untold, SignIn
  <2>5. CASE SignOut(t)
    BY <2>0, <2>5 DEF TypeOK, Cookies, Untold, SignOut
  <2>6. CASE LoseAuth(t)
    BY <2>0, <2>6 DEF TypeOK, Cookies, Untold, LoseAuth
  <2>7. QED
    BY <2>1, <2>2, <2>3, <2>4, <2>5, <2>6
<1>4. QED
  BY <1>1, <1>2, <1>3 DEF IInv, OneTab

\* The steps that change a tab's account, by useSync's effect.
LEMMA AccountSteps ==
  ASSUME IInv, NEW t \in Tabs, SetMe(t) \/ SignedIn(t) \/ SignedOut(t)
  PROVE  IInv' /\ SendsLive
<1> USE AccountAssumption
<1>0. TypeOK /\ UNCHANGED otherVars
  BY DEF IInv, SetMe, SignedIn, SignedOut
<1>1. ASSUME SetMe(t), meStale[t] \/ meUser[t] = user[t] PROVE IInv' /\ SendsLive
  <2>1. TypeOK'
    BY <1>0, <1>1 DEF TypeOK, SetMe, otherVars
  <2>2. UNCHANGED <<user, current, run, owner, auth, authUser, unread, cookie>>
    BY <1>1 DEF SetMe, otherVars
  <2>3. Paired(user, current, run)' /\ Owns(owner, run)' /\ SendsLive
    BY <2>2 DEF IInv, Paired, Owns, SendsLive
  <2>4. OneTab => Cookies'
    BY <1>0, <1>1, <2>2 DEF IInv, Cookies, Untold, OneTab, SetMe, TypeOK
  <2>5. QED
    BY <2>1, <2>2, <2>3, <2>4 DEF IInv, OneTab
<1>2. ASSUME NEW u \in AnyUser, Restart(t, u),
             \/ SetMe(t) /\ ~meStale[t] /\ u = meUser[t]
             \/ SignedIn(t) /\ u = authUser[t]
             \/ SignedOut(t) /\ u = NoUser
      PROVE  IInv' /\ SendsLive
  <2>1. /\ user' \in [Tabs -> AnyUser] /\ current' \in [Tabs -> Schedulers \cup {NoScheduler}]
        /\ Runs(run', change) /\ Paired(user, current, run)'
        /\ user'[t] = u /\ \A v \in Tabs \ {t} : user'[v] = user[v]
        /\ Owns(owner, run') /\ SendsLive
    BY <1>2, RestartKeeps
  <2>2. /\ me' \in [Tabs -> {"none", "sent", "answered", "failed"}] /\ meUser' \in [Tabs -> AnyUser]
        /\ meStale' \in [Tabs -> BOOLEAN] /\ auth' \in [Tabs -> {"none", "in", "out"}]
        /\ authUser' \in [Tabs -> AnyUser] /\ unread' \in [Tabs -> BOOLEAN]
        /\ \A v \in Tabs : meStale'[v] => me'[v] \in {"sent", "answered"}
    <3>1. CASE SetMe(t)
      BY <1>0, <3>1 DEF TypeOK, AnyUser, SetMe
    <3>2. CASE SignedIn(t)
      BY <1>0, <3>2 DEF TypeOK, AnyUser, SignedIn, Supersede
    <3>3. CASE SignedOut(t)
      BY <1>0, <3>3 DEF TypeOK, AnyUser, SignedOut, Supersede
    <3>4. QED
      BY <1>2, <3>1, <3>2, <3>3
  <2>3. TypeOK'
    BY <1>0, <2>1, <2>2 DEF TypeOK, AnyUser, Runs, otherVars
  <2>4. ASSUME OneTab PROVE Cookies'
    <3>0. /\ Cookies /\ \A v \in Tabs : v = t /\ cookie' = cookie
      BY <1>0, <2>4 DEF IInv, OneTab, otherVars
    <3>1. CASE SetMe(t) /\ ~meStale[t] /\ u = meUser[t]
      BY <1>0, <2>1, <3>0, <3>1 DEF TypeOK, Cookies, Untold, SetMe
    <3>2. CASE SignedIn(t) /\ u = authUser[t]
      BY <1>0, <2>1, <3>0, <3>2 DEF TypeOK, Cookies, Untold, SignedIn, Supersede
    <3>3. CASE SignedOut(t) /\ u = NoUser
      BY <1>0, <2>1, <3>0, <3>3 DEF TypeOK, Cookies, Untold, SignedOut, Supersede
    <3>4. QED
      BY <1>2, <3>1, <3>2, <3>3
  <2>5. QED
    BY <1>0, <2>1, <2>3, <2>4 DEF IInv, OneTab, otherVars
<1>3. CASE SetMe(t)
  <2>1. meUser[t] \in AnyUser
    BY <1>0 DEF TypeOK, AnyUser
  <2>2. CASE meStale[t] \/ meUser[t] = user[t]
    BY <1>1, <1>3, <2>2
  <2>3. CASE ~(meStale[t] \/ meUser[t] = user[t])
    <3>1. PICK u \in AnyUser : u = meUser[t] /\ Restart(t, u)
      BY <1>3, <2>1, <2>3 DEF SetMe
    <3>2. QED
      BY <1>2, <1>3, <2>3, <3>1
  <2>4. QED
    BY <2>2, <2>3
<1>4. CASE SignedIn(t)
  <2>1. authUser[t] \in AnyUser
    BY <1>0 DEF TypeOK, AnyUser
  <2>2. PICK u \in AnyUser : u = authUser[t] /\ Restart(t, u)
    BY <1>4, <2>1 DEF SignedIn
  <2>3. QED
    BY <1>2, <1>4, <2>2
<1>5. CASE SignedOut(t)
  BY <1>2, <1>5 DEF SignedOut, AnyUser
<1>6. QED
  BY <1>3, <1>4, <1>5

\* A step of the schedulers that makes none of them live or stopped.
LEMMA RunKeeps ==
  ASSUME IInv, UNCHANGED <<tabVars, cookie>>,
         owner' \in Users \cup {NoUser}, owner' # owner => owner = NoUser,
         change' \in 0..MaxChanges, change <= change',
         have' \in 0..change', merged' \subseteq Users, failures' \in 0..MaxFailures,
         run' \in [Schedulers -> Scheduler],
         \A s \in Schedulers :
           /\ run'[s].body <= change'
           /\ run'[s].active = run[s].active
           /\ run[s].active => run'[s].user = run[s].user
           /\ run[s].active /\ run'[s].pc \notin {"idle", "claim"} =>
                run[s].pc \notin {"idle", "claim"} \/ owner' = run[s].user
           /\ run[s].pc = "send" /\ run'[s].pc = "sent" => run[s].active
  PROVE  IInv' /\ SendsLive
<1>1. TypeOK'
  BY DEF IInv, TypeOK, tabVars
<1>2. Paired(user, current, run)'
  BY PairedKeeps DEF IInv, TypeOK, tabVars
<1>3. \A s \in Schedulers : run[s].active => run[s].user # NoUser
  BY AccountAssumption DEF IInv, Paired
<1>4. Owns(owner, run)'
  BY <1>3 DEF IInv, Owns
<1>5. OneTab => Cookies'
  BY DEF IInv, Cookies, Untold, tabVars
<1>6. SendsLive
  BY DEF SendsLive
<1>7. QED
  BY <1>1, <1>2, <1>4, <1>5, <1>6 DEF IInv, OneTab

\* The user's changes and the window's events, which trigger a scheduler.
LEMMA TriggerSteps ==
  ASSUME IInv, NEW t \in Tabs, Change(t) \/ Return(t)
  PROVE  IInv' /\ SendsLive
<1> USE AccountAssumption
<1>0. /\ TypeOK /\ current \in [Tabs -> Schedulers \cup {NoScheduler}] /\ run \in [Schedulers -> Scheduler]
      /\ UNCHANGED <<tabVars, owner, cookie, have, merged, failures>>
  BY DEF IInv, TypeOK, Change, Return, otherVars
<1>1. change' \in 0..MaxChanges /\ change <= change' /\ change \in Int /\ have' \in 0..change'
  BY <1>0 DEF TypeOK, Change, Return, otherVars
<1>2. run' = run \/ (current[t] \in Schedulers /\ run' = [run EXCEPT ![current[t]] = Triggered(@)])
  BY <1>0 DEF Change, Return
<1>3. \A s \in Schedulers : run[s].body \in Int /\ run[s].body <= change
  BY <1>0 DEF TypeOK, Scheduler
<1>4. \A s \in Schedulers :
        /\ run'[s] \in Scheduler /\ run'[s].body = run[s].body /\ run'[s].active = run[s].active
        /\ run'[s].user = run[s].user /\ run'[s].pc \in {"claim", run[s].pc}
  BY <1>0, <1>2, TriggeredType
<1>5. run' \in [Schedulers -> Scheduler]
  BY <1>0, <1>2, <1>4
<1>6. \A s \in Schedulers : run'[s].body <= change'
  BY <1>1, <1>3, <1>4
<1>7. QED
  BY <1>0, <1>1, <1>4, <1>5, <1>6, RunKeeps DEF TypeOK

\* The steps of a run, but for the one that signs its tab out.
LEMMA RunSteps ==
  ASSUME IInv, NEW s \in Schedulers,
         ClaimOwner(s) \/ ExportAll(s) \/ Send(s) \/ Serve(s) \/ Receive(s) \/ MergeInto(s) \/ Refuse(s) \/ Fail(s)
  PROVE  IInv' /\ SendsLive
<1> USE AccountAssumption
<1>0. /\ TypeOK /\ run \in [Schedulers -> Scheduler] /\ change \in 0..MaxChanges /\ have \in 0..change
      /\ UNCHANGED <<tabVars, change, cookie>>
      /\ owner' # owner => owner = NoUser
  BY DEF IInv, TypeOK, ClaimOwner, ExportAll, Send, Serve, Receive, MergeInto, Refuse, Fail, otherVars
<1>1. \A q \in Schedulers : run[q].body \in NoBody..change /\ run[q].user \in AnyUser /\ run[q].account \in AnyUser
  BY <1>0 DEF TypeOK, Scheduler, AnyUser
<1>2. /\ owner' \in Users \cup {NoUser} /\ have' \in 0..change' /\ merged' \subseteq Users
      /\ failures' \in 0..MaxFailures
  <2>1. CASE Serve(s)
    BY <1>0, <1>1, <2>1 DEF TypeOK, AnyUser, Serve, NoBody
  <2>2. CASE ClaimOwner(s)
    BY <1>0, <1>1, <2>2 DEF TypeOK, AnyUser, ClaimOwner
  <2>3. CASE MergeInto(s)
    <3>1. failures' = failures \/ (failures < MaxFailures /\ failures' = failures + 1)
      BY <2>3 DEF MergeInto
    <3>2. UNCHANGED <<owner, change, have, merged>>
      BY <2>3 DEF MergeInto
    <3>3. QED
      BY <1>0, <3>1, <3>2 DEF TypeOK
  <2>4. CASE ~Serve(s) /\ ~ClaimOwner(s) /\ ~MergeInto(s)
    BY <1>0, <2>4 DEF TypeOK, ExportAll, Send, Receive, Refuse, Fail, otherVars
  <2>5. QED
    BY <2>1, <2>2, <2>3, <2>4
<1> DEFINE Fine(r, q) ==
      /\ r \in Scheduler /\ r.body <= change /\ r.active = run[q].active
      /\ run[q].active => r.user = run[q].user
      /\ run[q].active /\ r.pc \notin {"idle", "claim"} => run[q].pc \notin {"idle", "claim"} \/ owner' = run[q].user
      /\ run[q].pc = "send" /\ r.pc = "sent" => run[q].active
<1>3. \A q \in Schedulers : Fine(run[q], q) /\ Fine(Ended(run[q]), q)
  BY <1>0, <1>1, EndedType
<1>4. run' \in [Schedulers -> Scheduler] /\ \A q \in Schedulers : Fine(run'[q], q)
  <2> DEFINE r == run[s]
  <2>0. r \in Scheduler /\ (~r.active => Fine(Unused, s))
    BY <1>0, UnusedType DEF Scheduler
  <2>1. CASE ClaimOwner(s)
    <3>1. owner' = r.user => Fine([r EXCEPT !.pc = "export"], s)
      BY <1>0, <1>1, <2>1 DEF ClaimOwner, Scheduler, Places
    <3>2. run' = [run EXCEPT ![s] = IF owner' = r.user THEN [r EXCEPT !.pc = "export"] ELSE Ended(r)]
      BY <2>1 DEF ClaimOwner
    <3> HIDE DEF Fine
    <3>3. run' \in [Schedulers -> Scheduler]
      BY <1>0, <1>3, <3>1, <3>2 DEF Fine
    <3>4. QED
      BY <1>0, <1>3, <3>1, <3>2, <3>3
  <2>2. CASE ExportAll(s)
    <3>1. Fine([r EXCEPT !.pc = "send", !.body = change], s)
      <4>1. /\ change \in NoBody..MaxChanges /\ change <= change /\ "send" \in Places
            /\ r.pc = "export"
        BY <1>0, <2>2 DEF ExportAll, Places, NoBody
      <4>2. [r EXCEPT !.pc = "send", !.body = change] \in Scheduler
        BY <1>0, <4>1 DEF Scheduler
      <4>3. QED
        BY <1>0, <4>1, <4>2 DEF Scheduler
    <3>2. run' = [run EXCEPT ![s] = IF r.active THEN [r EXCEPT !.pc = "send", !.body = change] ELSE Ended(r)]
      BY <2>2 DEF ExportAll
    <3> HIDE DEF Fine
    <3>3. run' \in [Schedulers -> Scheduler]
      BY <1>0, <1>3, <3>1, <3>2 DEF Fine
    <3>4. QED
      BY <1>0, <1>3, <3>1, <3>2, <3>3
  <2>3. CASE Send(s)
    <3>1. r.active => Fine([r EXCEPT !.pc = "sent", !.account = cookie], s)
      <4>1. r.pc = "send" /\ r.body <= change /\ cookie \in AnyUser /\ "sent" \in Places
        BY <1>0, <2>3 DEF Send, Places, TypeOK, AnyUser
      <4>2. [r EXCEPT !.pc = "sent", !.account = cookie] \in Scheduler
        BY <1>0, <4>1 DEF Scheduler, AnyUser
      <4>3. QED
        BY <1>0, <4>1, <4>2 DEF Scheduler
    <3>2. run' = [run EXCEPT ![s] = IF r.active /\ r.refused # r.body
                                      THEN [r EXCEPT !.pc = "sent", !.account = cookie] ELSE Ended(r)]
      BY <2>3 DEF Send
    <3> HIDE DEF Fine
    <3>3. run' \in [Schedulers -> Scheduler]
      BY <1>0, <1>3, <3>1, <3>2 DEF Fine
    <3>4. QED
      BY <1>0, <1>3, <3>1, <3>2, <3>3
  <2>4. CASE Serve(s)
    <3>1. Fine([r EXCEPT !.pc = "answered"], s)
      BY <1>0, <1>1, <2>4 DEF Serve, Scheduler, Places
    <3>2. run' = [run EXCEPT ![s] = [r EXCEPT !.pc = "answered"]]
      BY <2>4 DEF Serve
    <3> HIDE DEF Fine
    <3>3. run' \in [Schedulers -> Scheduler]
      BY <1>0, <3>1, <3>2 DEF Fine
    <3>4. QED
      BY <1>0, <1>3, <3>1, <3>2, <3>3
  <2>5. CASE Receive(s)
    <3>1. Fine([r EXCEPT !.pc = "merge", !.refused = NoBody], s)
      <4>1. NoBody \in NoBody..MaxChanges /\ r.body <= change /\ "merge" \in Places /\ r.pc = "answered"
        BY <1>0, <1>1, <2>5 DEF Receive, Places, NoBody
      <4>2. [r EXCEPT !.pc = "merge", !.refused = NoBody] \in Scheduler
        BY <1>0, <4>1 DEF Scheduler
      <4>3. QED
        BY <1>0, <4>1, <4>2 DEF Scheduler
    <3>2. run' = [run EXCEPT ![s] = IF r.active THEN [r EXCEPT !.pc = "merge", !.refused = NoBody] ELSE Unused]
      BY <2>5 DEF Receive
    <3> HIDE DEF Fine
    <3>3. run' \in [Schedulers -> Scheduler]
      BY <1>0, <2>0, <3>1, <3>2 DEF Fine
    <3>4. QED
      BY <1>0, <1>3, <2>0, <3>1, <3>2, <3>3
  <2>6. CASE MergeInto(s)
    <3>1. \A q \in Schedulers : Fine([run[q] EXCEPT !.refused = NoBody], q)
      BY <1>0, <1>1 DEF Scheduler, NoBody
    <3>2. r.active => Fine([Ended(r) EXCEPT !.pc = "claim"], s)
      <4>1. Ended(r) \in Scheduler /\ Ended(r).active = r.active /\ Ended(r).body = -1 /\ (r.active => Ended(r).user = r.user)
        BY <2>0, EndedType
      <4>2. -1 <= change /\ "claim" \in Places
        BY <1>0 DEF Places
      <4>3. [Ended(r) EXCEPT !.pc = "claim"] \in Scheduler
        BY <4>1, <4>2 DEF Scheduler
      <4>4. QED
        BY <4>1, <4>2, <4>3 DEF Scheduler
    <3>3. \A q \in Schedulers : run'[q] \in (IF q # s THEN {[run[q] EXCEPT !.refused = NoBody]}
                                            ELSE {Ended(r)} \cup (IF r.active THEN {[Ended(r) EXCEPT !.pc = "claim"]} ELSE {}))
      BY <2>6 DEF MergeInto
    <3>4. run' = [q \in Schedulers |-> run'[q]]
      BY <2>6 DEF MergeInto
    <3> HIDE DEF Fine
    <3>5. \A q \in Schedulers : Fine(run'[q], q)
      BY <1>3, <3>1, <3>2, <3>3
    <3>6. \A q \in Schedulers : run'[q] \in Scheduler
      BY <3>5 DEF Fine
    <3>7. QED
      BY <3>4, <3>5, <3>6
  <2>7. CASE Refuse(s)
    <3>1. r.active => Fine([Ended(r) EXCEPT !.refused = r.body], s)
      <4>1. Ended(r) \in Scheduler /\ Ended(r).active = r.active /\ Ended(r).body = -1 /\ Ended(r).pc = "idle"
            /\ (r.active => Ended(r).user = r.user)
        BY <2>0, EndedType
      <4>2. -1 <= change
        BY <1>0
      <4>3. r.refused \in NoBody..MaxChanges /\ r.body \in NoBody..MaxChanges
        BY <2>0 DEF Scheduler
      <4>4. [Ended(r) EXCEPT !.refused = r.body] \in Scheduler
        BY <4>1, <4>3 DEF Scheduler
      <4>5. QED
        BY <4>1, <4>2, <4>4 DEF Scheduler
    <3>2. run' = [run EXCEPT ![s] = IF r.active THEN [Ended(r) EXCEPT !.refused = r.body] ELSE Unused]
      BY <2>7 DEF Refuse
    <3> HIDE DEF Fine
    <3>3. run' \in [Schedulers -> Scheduler]
      BY <1>0, <2>0, <3>1, <3>2 DEF Fine
    <3>4. QED
      BY <1>0, <1>3, <2>0, <3>1, <3>2, <3>3
  <2>8. CASE Fail(s)
    <3>1. run' = [run EXCEPT ![s] = Ended(r)]
      BY <2>8 DEF Fail
    <3> HIDE DEF Fine
    <3>2. run' \in [Schedulers -> Scheduler]
      BY <1>0, <1>3, <3>1 DEF Fine
    <3>3. QED
      BY <1>0, <1>3, <3>1, <3>2
  <2>9. QED
    BY <2>1, <2>2, <2>3, <2>4, <2>5, <2>6, <2>7, <2>8
<1>5. QED
  BY <1>0, <1>2, <1>4, RunKeeps

\* A 401 ends the run and has its tab, if it is still the tab's, sign out.
LEMMA UnauthorizedStep ==
  ASSUME IInv, NEW s \in Schedulers, Unauthorized(s)
  PROVE  IInv' /\ SendsLive
<1> USE AccountAssumption
<1>0. /\ TypeOK /\ run \in [Schedulers -> Scheduler] /\ current \in [Tabs -> Schedulers \cup {NoScheduler}]
      /\ cookie' \in {NoUser, cookie} /\ run' = [run EXCEPT ![s] = Unused]
      /\ UNCHANGED <<me, meUser, auth, authUser, unread, owner, change, have, merged, failures>>
  BY DEF IInv, TypeOK, Unauthorized
<1>1. \A q \in Schedulers : run'[q] = IF q = s THEN Unused ELSE run[q]
  BY <1>0
<1>2. Runs(run', change') /\ Owns(owner, run)' /\ SendsLive
  BY <1>0, <1>1, UnusedType DEF IInv, TypeOK, Runs, Owns, SendsLive
<1>3. CASE ~run[s].active
  <2>1. UNCHANGED <<user, current, meStale>>
    BY <1>3 DEF Unauthorized
  <2>2. Paired(user, current, run)'
    BY <1>0, <1>1, <1>3, <2>1, UnusedType DEF IInv, Paired
  <2>3. TypeOK'
    BY <1>0, <1>2, <2>1 DEF TypeOK, Runs
  <2>4. OneTab => Cookies'
    BY <1>0, <2>1 DEF IInv, Cookies, Untold
  <2>5. QED
    BY <1>2, <2>2, <2>3, <2>4 DEF IInv, OneTab
<1>4. CASE run[s].active
  <2>1. PICK t \in Tabs :
          /\ current[t] = s
          /\ user' = [user EXCEPT ![t] = NoUser]
          /\ current' = [current EXCEPT ![t] = NoScheduler]
          /\ Supersede(t)
    BY <1>4 DEF IInv, Paired, Unauthorized
  <2>2. \A v \in Tabs \ {t} : current[v] # s
    BY <2>1 DEF IInv, Paired
  <2>3. Paired(user, current, run)'
    <3>1. \A v \in Tabs \ {t} : current'[v] = current[v] /\ user'[v] = user[v]
                                /\ (current[v] # NoScheduler => run'[current[v]] = run[current[v]])
      BY <1>0, <1>1, <2>1, <2>2 DEF TypeOK
    <3>2. current'[t] = NoScheduler /\ \A q \in Schedulers : run'[q].active => q # s /\ run[q].active
      BY <1>0, <1>1, <2>1, UnusedType
    <3>3. QED
      BY <2>1, <3>1, <3>2 DEF IInv, Paired
  <2>4. TypeOK'
    BY <1>0, <1>2, <2>1 DEF TypeOK, Runs, Supersede
  <2>5. OneTab => Cookies'
    BY <1>0, <2>1 DEF IInv, Cookies, Untold, OneTab, TypeOK, Supersede
  <2>6. QED
    BY <1>2, <2>3, <2>4, <2>5 DEF IInv, OneTab
<1>5. QED
  BY <1>3, <1>4

-----------------------------------------------------------------------------
\* At first no tab has a scheduler or a user.
LEMMA InitIInv == Init => IInv
<1> SUFFICES ASSUME Init PROVE IInv
  OBVIOUS
<1>1. \A s \in Schedulers : run[s] = Unused
  BY DEF Init
<1>2. TypeOK
  BY <1>1, AccountAssumption, UnusedType DEF Init, TypeOK
<1>3. Paired(user, current, run) /\ Owns(owner, run) /\ Cookies
  BY <1>1, UnusedType DEF Init, Paired, Owns, Cookies, Untold
<1>4. QED
  BY <1>2, <1>3 DEF IInv

\* Every step keeps the invariant, and only a live scheduler sends.
LEMMA StepIInv == IInv /\ [Next]_vars => IInv' /\ SendsLive
<1> SUFFICES ASSUME IInv, [Next]_vars PROVE IInv' /\ SendsLive
  OBVIOUS
<1>1. CASE UNCHANGED vars
  BY <1>1 DEF vars, tabVars, otherVars, IInv, TypeOK, Paired, Owns, OneTab, Cookies, Untold, SendsLive
<1>2. ASSUME NEW t \in Tabs,
             TabStep(t) \/ FailMe(t) \/ RetryMe(t) \/ SignOut(t) \/ LoseAuth(t) \/ Change(t) \/ Return(t)
             \/ \E u \in Users : SignIn(t, u)
      PROVE  IInv' /\ SendsLive
  <2>1. CASE SetMe(t) \/ SignedIn(t) \/ SignedOut(t)
    BY <2>1, AccountSteps
  <2>2. CASE Change(t) \/ Return(t)
    BY <2>2, TriggerSteps
  <2>3. CASE ServeMe(t) \/ FailMe(t) \/ RetryMe(t) \/ SignOut(t) \/ LoseAuth(t) \/ \E u \in Users : SignIn(t, u)
    BY <2>3, TabSteps
  <2>4. QED
    BY <1>2, <2>1, <2>2, <2>3 DEF TabStep
<1>3. ASSUME NEW s \in Schedulers, RunStep(s) \/ Refuse(s) \/ Fail(s)
      PROVE  IInv' /\ SendsLive
  BY <1>3, RunSteps, UnauthorizedStep DEF RunStep
<1>4. QED
  BY <1>1, <1>2, <1>3 DEF Next

\* So the invariant holds throughout.
LEMMA Inductive == Spec => []IInv
BY InitIInv, StepIInv, PTL DEF Spec

\* Every variable keeps its kind; only a /me still out can be stale, and no body
\* is ahead of the device.
THEOREM TypeCorrect == Spec => []TypeOK
<1>1. IInv => TypeOK
  BY DEF IInv
<1>2. QED
  BY <1>1, Inductive, PTL

\* However sign-ins, sign-outs, expired sessions and late /me answers follow on
\* one another, the only live scheduler of a tab is the one it made for the
\* account it shows (useSync's effect, the generation of useAuth).
THEOREM OneSchedulerPerTab == Spec => []OneScheduler
<1>1. IInv => OneScheduler
  BY AccountAssumption DEF IInv, Paired, OneScheduler
<1>2. QED
  BY <1>1, Inductive, PTL

\* In a browser with one tab, POST /sync leaves under an account that does not
\* own the device only while the tab has not heard of a sign-in of its own, whose
\* reply is under way or was lost.
THEOREM OneTabSendsAsOwner == ASSUME \A t, u \in Tabs : t = u PROVE Spec => SendsAsOwner
<1>1. IInv /\ [Next]_vars => \A s \in Schedulers :
        run[s].pc = "send" /\ run'[s].pc = "sent" /\ cookie \notin {NoUser, owner} =>
          \E t \in Tabs : current[t] = s /\ Untold(t)
  <2> SUFFICES ASSUME IInv, [Next]_vars, NEW s \in Schedulers,
                      run[s].pc = "send", run'[s].pc = "sent", cookie \notin {NoUser, owner}
               PROVE  \E t \in Tabs : current[t] = s /\ Untold(t)
    OBVIOUS
  <2>1. run[s].active
    BY StepIInv DEF SendsLive
  <2>2. PICK t \in Tabs : current[t] = s
    BY <2>1 DEF IInv, Paired
  <2>3. owner = run[s].user /\ run[s].user = user[t] /\ user[t] # NoUser
    BY <2>1, <2>2, AccountAssumption DEF IInv, Paired, Owns
  <2>4. Untold(t) \/ cookie \in {NoUser, user[t]}
    BY <2>3 DEF IInv, OneTab, Cookies
  <2>5. QED
    BY <2>2, <2>3, <2>4
<1>2. QED
  BY <1>1, Inductive, PTL DEF Spec, SendsAsOwner
=============================================================================
