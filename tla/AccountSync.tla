---------------------------- MODULE AccountSync ----------------------------
(***************************************************************************)
(* Which account a browser's data is synced with, and when.  The open tabs *)
(* of one browser share its IndexedDB and its session cookie; each tab has *)
(* its own idea of who is signed in (useAuth) and, while somebody is, a    *)
(* sync scheduler of its own (useSync, createSyncScheduler).  The steps of *)
(* a run, from claimOwner to mergeInto, are asynchronous: sign-ins,        *)
(* sign-outs, changes and failures fall between any two of them.           *)
(*                                                                         *)
(* The data is abstracted to the number of changes made on this device;    *)
(* CardSync says what merging it means.                                    *)
(***************************************************************************)
EXTENDS Integers

CONSTANTS
  Tabs,        \* open tabs of the browser
  Users,       \* accounts
  NoUser,      \* stands for signed out, and for a device without owner
  Schedulers,  \* scheduler objects: the live ones and stopped ones still awaiting
  NoScheduler, \* stands for a signed-out tab's scheduler
  MaxChanges,  \* bound: local changes
  MaxFailures  \* bound: failed steps of runs, /me requests and sign-ins or sign-outs

ASSUME AccountAssumption ==
  /\ NoUser \notin Users /\ NoScheduler \notin Schedulers
  /\ MaxChanges \in Nat /\ MaxFailures \in Nat

NoBody == -1

VARIABLES
  owner,    \* meta.owner of the IndexedDB
  change,   \* number of changes made on this device
  cookie,   \* the account of the browser's session cookie
  user,     \* per tab: the account React state shows
  me,       \* per tab: its GET /me: "none", "sent", "answered", "failed"
  meUser,   \* per tab: the account it was answered with
  meStale,  \* per tab: the generation moved on since it was sent
  auth,     \* per tab: "in" or "out" once the server did it, until the tab knows
  authUser, \* per tab: the account of the sign-in
  unread,   \* per tab, history: its last sign-in set the cookie, and its reply was lost
  current,  \* per tab: its scheduler (syncRef)
  run,      \* the schedulers
  have,     \* number of changes the owner's account has
  merged,   \* history: the accounts that were sent changes of this device
  failures  \* number of failures so far

tabVars   == <<user, me, meUser, meStale, auth, authUser, unread, current>>
otherVars == <<owner, change, cookie, have, merged, failures>>
vars == <<tabVars, run, otherVars>>

(***************************************************************************)
(* A scheduler: the account it was created for, whether it has not been    *)
(* stopped, what its run awaits ("idle" when none is under way), whether a *)
(* trigger came during the run, the body the server refused last, and of   *)
(* the run the changes in the exported body and the cookie it was sent     *)
(* with.                                                                   *)
(***************************************************************************)
Places == {"idle", "claim", "export", "send", "sent", "answered", "merge"}

Scheduler ==
  [user: Users \cup {NoUser}, active: BOOLEAN, pc: Places, dirty: BOOLEAN,
   refused: NoBody..MaxChanges, body: NoBody..MaxChanges, account: Users \cup {NoUser}]

\* A slot no scheduler uses.
Unused == [user |-> NoUser, active |-> FALSE, pc |-> "idle", dirty |-> FALSE,
           refused |-> NoBody, body |-> NoBody, account |-> NoUser]

\* createSyncScheduler, triggered: its first run is at claimOwner.
Created(u) == [Unused EXCEPT !.user = u, !.active = TRUE, !.pc = "claim"]

\* The app is opened in every tab: each has sent its /me.
Init ==
  /\ owner \in Users \cup {NoUser}
  /\ change = 0
  /\ cookie \in Users \cup {NoUser}
  /\ user = [t \in Tabs |-> NoUser]
  /\ me = [t \in Tabs |-> "sent"]
  /\ meUser = [t \in Tabs |-> NoUser]
  /\ meStale = [t \in Tabs |-> FALSE]
  /\ auth = [t \in Tabs |-> "none"]
  /\ authUser = [t \in Tabs |-> NoUser]
  /\ unread = [t \in Tabs |-> FALSE]
  /\ current = [t \in Tabs |-> NoScheduler]
  /\ run = [s \in Schedulers |-> Unused]
  /\ have = 0
  /\ merged = {}
  /\ failures = 0

\* mutant of Stopped: the scheduler is forgotten, not stopped
StillRunning(r) == r

\* stop: a run under way finds out at its next look; an idle scheduler is gone.
Stopped(r) == IF r.pc = "idle" THEN Unused ELSE [r EXCEPT !.active = FALSE]

\* The run is over.
Ended(r) ==
  IF r.active THEN [r EXCEPT !.pc = "idle", !.dirty = FALSE, !.body = NoBody, !.account = NoUser]
              ELSE Unused

\* mutant of Triggered: a change during a run is taken for part of it
TriggeredIdle(r) == IF r.pc = "idle" THEN [r EXCEPT !.pc = "claim"] ELSE r

\* trigger: starts a run, or is remembered for after the one under way.
Triggered(r) ==
  IF r.pc = "idle" THEN [r EXCEPT !.pc = "claim"] ELSE [r EXCEPT !.dirty = TRUE]

-----------------------------------------------------------------------------
(***************************************************************************)
(* useSync's effect: a change of the tab's user stops its scheduler; a     *)
(* signed-in tab gets a new one, triggered at once.                        *)
(***************************************************************************)
Restart(t, u) ==
  /\ user' = [user EXCEPT ![t] = u]
  /\ IF u = NoUser
       THEN /\ current' = [current EXCEPT ![t] = NoScheduler]
            /\ run' = [s \in Schedulers |-> IF s = current[t] THEN Stopped(run[s]) ELSE run[s]]
       ELSE \E new \in {s \in Schedulers : run[s] = Unused} :
            /\ current' = [current EXCEPT ![t] = new]
            /\ run' = [s \in Schedulers |-> IF s = current[t] THEN Stopped(run[s])
                                            ELSE IF s = new THEN Created(u) ELSE run[s]]

\* mutant of Supersede: also a /me sent later is taken for stale
SupersedeAll(t) == meStale' = [meStale EXCEPT ![t] = TRUE]

\* An explicit auth action bumps the generation: a /me still out is stale.
Supersede(t) == meStale' = [meStale EXCEPT ![t] = me[t] \in {"sent", "answered"}]

\* The server answers /me for the session the request carried: also a sign-in the
\* tab has not heard of.
ServeMe(t) ==
  /\ me[t] = "sent"
  /\ me' = [me EXCEPT ![t] = "answered"]
  /\ meUser' = [meUser EXCEPT ![t] = cookie]
  /\ unread' = [unread EXCEPT ![t] = FALSE]
  /\ UNCHANGED <<user, meStale, auth, authUser, current, run, otherVars>>

\* mutant of SetMe: the generation is not compared
SetAnyMe(t) ==
  /\ me[t] = "answered"
  /\ me' = [me EXCEPT ![t] = "none"]
  /\ meUser' = [meUser EXCEPT ![t] = NoUser]
  /\ meStale' = [meStale EXCEPT ![t] = FALSE]
  /\ IF meUser[t] = user[t] THEN UNCHANGED <<user, current, run>>
                            ELSE Restart(t, meUser[t])
  /\ UNCHANGED <<auth, authUser, unread, otherVars>>

\* restore: the answer sets the user, unless an auth action came first.
SetMe(t) ==
  /\ me[t] = "answered"
  /\ me' = [me EXCEPT ![t] = "none"]
  /\ meUser' = [meUser EXCEPT ![t] = NoUser]
  /\ meStale' = [meStale EXCEPT ![t] = FALSE]
  /\ IF meStale[t] \/ meUser[t] = user[t]
       THEN UNCHANGED <<user, current, run>>
       ELSE Restart(t, meUser[t])
  /\ UNCHANGED <<auth, authUser, unread, otherVars>>

\* The request fails on the network; only a current one is retried.
FailMe(t) ==
  /\ me[t] \in {"sent", "answered"}
  /\ failures < MaxFailures
  /\ failures' = failures + 1
  /\ me' = [me EXCEPT ![t] = IF meStale[t] THEN "none" ELSE "failed"]
  /\ meUser' = [meUser EXCEPT ![t] = NoUser]
  /\ meStale' = [meStale EXCEPT ![t] = FALSE]
  /\ UNCHANGED <<user, auth, authUser, unread, current, run, owner, change, cookie, have, merged>>

\* retryOnline
RetryMe(t) ==
  /\ me[t] = "failed"
  /\ me' = [me EXCEPT ![t] = "sent"]
  /\ UNCHANGED <<user, meUser, meStale, auth, authUser, unread, current, run, otherVars>>

\* The server signs u in: its reply sets the browser's cookie.  The form shows
\* in a tab that has no user.
SignIn(t, u) ==
  /\ user[t] = NoUser /\ auth[t] = "none"
  /\ cookie' = u
  /\ auth' = [auth EXCEPT ![t] = "in"]
  /\ authUser' = [authUser EXCEPT ![t] = u]
  /\ unread' = [unread EXCEPT ![t] = FALSE]
  /\ UNCHANGED <<user, me, meUser, meStale, current, run, owner, change, have, merged, failures>>

\* authenticate: the tab reads that reply.
SignedIn(t) ==
  /\ auth[t] = "in"
  /\ auth' = [auth EXCEPT ![t] = "none"]
  /\ authUser' = [authUser EXCEPT ![t] = NoUser]
  /\ Supersede(t)
  /\ me' = [me EXCEPT ![t] = IF @ = "failed" THEN "none" ELSE @]
  /\ Restart(t, authUser[t])
  /\ UNCHANGED <<meUser, unread, otherVars>>

\* The server ends the session and clears the cookie.
SignOut(t) ==
  /\ user[t] # NoUser /\ auth[t] = "none"
  /\ cookie' = NoUser
  /\ auth' = [auth EXCEPT ![t] = "out"]
  /\ unread' = [unread EXCEPT ![t] = FALSE]
  /\ UNCHANGED <<user, me, meUser, meStale, authUser, current, run, owner, change, have, merged, failures>>

SignedOut(t) ==
  /\ auth[t] = "out"
  /\ auth' = [auth EXCEPT ![t] = "none"]
  /\ Supersede(t)
  /\ Restart(t, NoUser)
  /\ UNCHANGED <<me, meUser, authUser, unread, otherVars>>

\* The reply of a sign-in or a sign-out is lost: the server has done it, and the
\* tab keeps its user and its generation.  (One that fails before the server does
\* it changes nothing but the message on screen.)
LoseAuth(t) ==
  /\ auth[t] # "none"
  /\ failures < MaxFailures
  /\ failures' = failures + 1
  /\ auth' = [auth EXCEPT ![t] = "none"]
  /\ authUser' = [authUser EXCEPT ![t] = NoUser]
  /\ unread' = [unread EXCEPT ![t] = @ \/ auth[t] = "in"]
  /\ UNCHANGED <<user, me, meUser, meStale, current, run, owner, change, cookie, have, merged>>

-----------------------------------------------------------------------------
\* The user changes the device's data in tab t; notifyLocalMutation reaches the
\* scheduler of that tab only.
Change(t) ==
  /\ change < MaxChanges
  /\ change' = change + 1
  /\ run' = IF current[t] = NoScheduler THEN run ELSE [run EXCEPT ![current[t]] = Triggered(@)]
  /\ UNCHANGED <<tabVars, owner, cookie, have, merged, failures>>

\* online, focus or visibilitychange
Return(t) ==
  /\ current[t] # NoScheduler
  /\ run' = [run EXCEPT ![current[t]] = Triggered(@)]
  /\ UNCHANGED <<tabVars, otherVars>>

-----------------------------------------------------------------------------
(***************************************************************************)
(* attempt, one action per await.                                          *)
(***************************************************************************)
\* claimOwner: the first account to sync owns the device, for good.
ClaimOwner(s) ==
  /\ run[s].pc = "claim"
  /\ owner' = IF owner = NoUser THEN run[s].user ELSE owner
  /\ run' = [run EXCEPT ![s] = IF owner' = run[s].user THEN [@ EXCEPT !.pc = "export"] ELSE Ended(@)]
  /\ UNCHANGED <<tabVars, change, cookie, have, merged, failures>>

ExportAll(s) ==
  /\ run[s].pc = "export"
  /\ run' = [run EXCEPT ![s] = IF run[s].active THEN [@ EXCEPT !.pc = "send", !.body = change] ELSE Ended(@)]
  /\ UNCHANGED <<tabVars, otherVars>>

\* mutant of Send: the scheduler is not looked at again after the export
SendStopped(s) ==
  /\ run[s].pc = "send"
  /\ run' = [run EXCEPT ![s] = IF run[s].refused # run[s].body
                                 THEN [@ EXCEPT !.pc = "sent", !.account = cookie] ELSE Ended(@)]
  /\ UNCHANGED <<tabVars, otherVars>>

\* POST /sync with the browser's cookie, unless stopped or refused before.
Send(s) ==
  /\ run[s].pc = "send"
  /\ run' = [run EXCEPT ![s] = IF run[s].active /\ run[s].refused # run[s].body
                                 THEN [@ EXCEPT !.pc = "sent", !.account = cookie] ELSE Ended(@)]
  /\ UNCHANGED <<tabVars, otherVars>>

\* The server merges the body into the account of the request's session.
Serve(s) ==
  LET r == run[s] IN
  /\ r.pc = "sent" /\ r.account # NoUser
  /\ merged' = IF r.body > 0 THEN merged \cup {r.account} ELSE merged
  /\ have' = IF r.account = owner /\ r.body > have THEN r.body ELSE have
  /\ run' = [run EXCEPT ![s].pc = "answered"]
  /\ UNCHANGED <<tabVars, owner, change, cookie, failures>>

\* A 200: the reply is merged only if the scheduler has not been stopped.
Receive(s) ==
  /\ run[s].pc = "answered"
  /\ run' = [run EXCEPT ![s] = IF run[s].active THEN [@ EXCEPT !.pc = "merge", !.refused = NoBody] ELSE Unused]
  /\ UNCHANGED <<tabVars, otherVars>>

\* mergeInto, then onApplied and, after a trigger or a mismatched epoch, the
\* follow-up run.  The store no longer holds what another scheduler had refused.
MergeInto(s) ==
  LET r == run[s] IN
  /\ r.pc = "merge"
  /\ \E mismatch \in IF failures < MaxFailures THEN BOOLEAN ELSE {FALSE} :
       /\ failures' = IF mismatch THEN failures + 1 ELSE failures
       /\ run' = [q \in Schedulers |->
                    IF q # s THEN [run[q] EXCEPT !.refused = NoBody]
                    ELSE IF r.active /\ (r.dirty \/ mismatch) THEN [Ended(r) EXCEPT !.pc = "claim"]
                    ELSE Ended(r)]
  /\ UNCHANGED <<tabVars, owner, change, cookie, have, merged>>

\* 401: the session was over, and a live scheduler has the tab sign out.
Unauthorized(s) ==
  LET r == run[s] IN
  /\ r.pc = "sent"
  /\ cookie' = IF cookie = r.account THEN NoUser ELSE cookie
  /\ run' = [run EXCEPT ![s] = Unused]
  /\ IF r.active
       THEN LET t == CHOOSE t \in Tabs : current[t] = s IN
            /\ user' = [user EXCEPT ![t] = NoUser]
            /\ current' = [current EXCEPT ![t] = NoScheduler]
            /\ Supersede(t)
       ELSE UNCHANGED <<user, current, meStale>>
  /\ UNCHANGED <<me, meUser, auth, authUser, unread, owner, change, have, merged, failures>>

\* 400 or 413: the run ends, and this body is not sent again.
Refuse(s) ==
  LET r == run[s] IN
  /\ r.pc = "sent" /\ r.account # NoUser
  /\ failures < MaxFailures
  /\ failures' = failures + 1
  /\ run' = [run EXCEPT ![s] = IF r.active THEN [Ended(r) EXCEPT !.refused = r.body] ELSE Unused]
  /\ UNCHANGED <<tabVars, owner, change, cookie, have, merged>>

\* Any other failure: IndexedDB, the network, the server, the reply's shape.
Fail(s) ==
  /\ run[s].pc # "idle"
  /\ failures < MaxFailures
  /\ failures' = failures + 1
  /\ run' = [run EXCEPT ![s] = Ended(@)]
  /\ UNCHANGED <<tabVars, owner, change, cookie, have, merged>>

TabStep(t) == ServeMe(t) \/ SetMe(t) \/ SignedIn(t) \/ SignedOut(t)

RunStep(s) ==
  \/ ClaimOwner(s) \/ ExportAll(s) \/ Send(s)
  \/ Serve(s) \/ Receive(s) \/ MergeInto(s) \/ Unauthorized(s)

Next ==
  \/ \E t \in Tabs :
       \/ TabStep(t) \/ FailMe(t) \/ RetryMe(t) \/ SignOut(t) \/ LoseAuth(t) \/ Change(t) \/ Return(t)
       \/ \E u \in Users : SignIn(t, u)
  \/ \E s \in Schedulers : RunStep(s) \/ Refuse(s) \/ Fail(s)

Spec == Init /\ [][Next]_vars

(***************************************************************************)
(* The browser and the server finish what they started; the user's actions,*)
(* the window events and the failures are never owed.                      *)
(***************************************************************************)
FairSpec ==
  /\ Spec
  /\ \A t \in Tabs : WF_vars(TabStep(t))
  /\ \A s \in Schedulers : WF_vars(RunStep(s))
-----------------------------------------------------------------------------
\* Every variable has its kind; only a /me still out can be stale, and no body
\* is ahead of the device.
TypeOK ==
  /\ owner \in Users \cup {NoUser} /\ cookie \in Users \cup {NoUser}
  /\ change \in 0..MaxChanges /\ have \in 0..change /\ failures \in 0..MaxFailures
  /\ merged \subseteq Users
  /\ user \in [Tabs -> Users \cup {NoUser}]
  /\ me \in [Tabs -> {"none", "sent", "answered", "failed"}]
  /\ meUser \in [Tabs -> Users \cup {NoUser}]
  /\ meStale \in [Tabs -> BOOLEAN]
  /\ \A t \in Tabs : meStale[t] => me[t] \in {"sent", "answered"}
  /\ auth \in [Tabs -> {"none", "in", "out"}]
  /\ authUser \in [Tabs -> Users \cup {NoUser}]
  /\ unread \in [Tabs -> BOOLEAN]
  /\ current \in [Tabs -> Schedulers \cup {NoScheduler}]
  /\ run \in [Schedulers -> Scheduler]
  /\ \A s \in Schedulers : run[s].body <= change

\* However sign-ins, sign-outs, expired sessions and late /me answers follow on
\* one another, the only live scheduler of a tab is the one it made for the
\* account it shows (useSync's effect, the generation of useAuth).
OneScheduler ==
  \A s \in Schedulers : run[s].active =>
    \E t \in Tabs : current[t] = s /\ user[t] = run[s].user /\ user[t] # NoUser

\* The tab has signed in and does not know it: the reply is under way, or it was
\* lost and no later /me has been answered for the new session.
Untold(t) == auth[t] = "in" \/ unread[t]

\* POST /sync leaves the browser under an account that does not own the device
\* only while the sending tab has not heard of a sign-in of its own: neither a
\* stopped scheduler nor a stale /me answer sends one account's data with
\* another's cookie otherwise.  (Of one tab: the cookie is the browser's, and a
\* second tab can change it at any time.)
SendsAsOwner ==
  [][\A s \in Schedulers :
       run[s].pc = "send" /\ run'[s].pc = "sent" /\ cookie \notin {NoUser, owner} =>
         \E t \in Tabs : current[t] = s /\ Untold(t)]_vars

\* A run of the owner's is under way in t, and there are changes it has not
\* exported, or not yet.
Pending(t) ==
  /\ current[t] # NoScheduler /\ cookie = owner
  /\ LET r == run[current[t]] IN
     r.user = owner /\ r.pc # "idle" /\ r.body < change

\* The run has exported the body that was refused before, which ends it.
RefusedAgain(s) == run[s].refused # NoBody /\ run[s].refused = run[s].body

\* The account has c changes, or else a run has failed or has no other body than the
\* refused one, or the tab has signed out.
Settles(t, s, c, f) == have >= c \/ failures # f \/ RefusedAgain(s) \/ current[t] # s \/ cookie # owner

\* A change is never forgotten by a run that is under way: unless that run fails
\* or has only the body that was refused, the scheduler goes on until the owner's account has every
\* change made so far ("coalesces triggers during one request into one follow-up").
ChangesFollowUp ==
  \A t \in Tabs, s \in Schedulers, c \in 1..MaxChanges, f \in 0..MaxFailures :
    (Pending(t) /\ current[t] = s /\ change = c /\ failures = f) ~> Settles(t, s, c, f)

\* "This device's data belongs to another account, so sync is off": the data of
\* a device goes to the account that owns it and to no other.
AccountsApart == merged \subseteq {owner}
=============================================================================
