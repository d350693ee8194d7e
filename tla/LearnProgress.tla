--------------------------- MODULE LearnProgress ---------------------------
(***************************************************************************)
(* Learn mode's progress through one lesson: the sentences passed or       *)
(* skipped and the skips used, on the devices of one account, each with    *)
(* one tab, and on the server.  The learner reads it from the screen and   *)
(* changes it there; IndexedDB reads and writes, the speech recognition    *)
(* and the syncs take their time beside that.                              *)
(***************************************************************************)
EXTENDS Integers, Sequences, FiniteSets

CONSTANTS
  Devices,
  N,        \* the lesson's sentences are 1..N, in order
  Skips,    \* SKIPS_PER_LESSON
  Stamps,   \* per device: the times its clock shows, bounding its writes
  Legacy,   \* per device: progress an older version left in localStorage
  NoLegacy, \* stands for none
  MaxQueue, \* bound: reads and writes under way when a lesson is opened again
  MaxLost   \* bound: syncs that fail

Sentences == 1..N

(***************************************************************************)
(* What the screen shows, and what is stored of it.  A store or server     *)
(* without a record is the empty record of time 0.                         *)
(***************************************************************************)
Progress == [passed: SUBSET Sentences, skips: Nat]
Record   == [at: Nat, passed: SUBSET Sentences, skips: Nat]

EmptyProgress == [passed |-> {}, skips |-> 0]

Stamped(p, s) == [at |-> s, passed |-> p.passed, skips |-> p.skips]
Shown(r)      == [passed |-> r.passed, skips |-> r.skips]

Missing == Stamped(EmptyProgress, 0)

\* Devices' clocks differ, but no two devices write at the same millisecond.
ASSUME LearnAssumption ==
  /\ N \in Nat /\ Skips \in Nat /\ MaxQueue \in Nat /\ MaxLost \in Nat
  /\ Stamps \in [Devices -> SUBSET (Nat \ {0})]
  /\ \A d, e \in Devices : d # e => Stamps[d] \cap Stamps[e] = {}
  /\ NoLegacy \notin Progress
  /\ Legacy \in [Devices -> Progress \cup {NoLegacy}]
  /\ \A d \in Devices : Legacy[d] # NoLegacy => Legacy[d].skips <= Skips

\* Who waits for a read: the lesson's first read, the reread after a sync, or,
\* when the lesson was left, nobody.
Readers == {"first", "elsewhere", "nobody"}

\* A request to IndexedDB.  "move" is the put that migrates the legacy progress.
Request == [op: {"read", "put", "move"}, rec: Record, for: Readers]
Answer  == [rec: Record, for: Readers]

Sync == [phase: {"none", "request", "reply"}, rec: Record]
NoSync == [phase |-> "none", rec |-> Missing]

VARIABLES
  store,   \* per device: its learnProgress record
  server,  \* the account's learn_progress row
  sync,    \* per device: its sync under way
  lost,    \* the failed syncs
  open,    \* per device: the lesson is open
  view,    \* per device: learnProgress on the screen
  changed, \* per device: changedProgress
  gate,    \* per device: the sentence in the Shadow Gate, or 0
  check,   \* per device: "idle", "listening", "passed"; a miss is "idle"
  said,    \* per device: the progress onChecked closed over
  queue,   \* per device: its requests to IndexedDB, in order
  answers, \* per device: reads done and not delivered, in order
  clock,   \* per device: when it last wrote
  legacy,  \* per device: progress in localStorage
  earned   \* history: the sentences said or typed well, anywhere

network == <<server, sync, lost>>
screen  == <<open, gate, check, said>>
vars == <<store, network, screen, view, changed, queue, answers, clock, legacy, earned>>

Init ==
  /\ store = [d \in Devices |-> Missing]
  /\ server = Missing
  /\ sync = [d \in Devices |-> NoSync]
  /\ lost = 0
  /\ open = [d \in Devices |-> FALSE]
  /\ view = [d \in Devices |-> EmptyProgress]
  /\ changed = [d \in Devices |-> FALSE]
  /\ gate = [d \in Devices |-> 0]
  /\ check = [d \in Devices |-> "idle"]
  /\ said = [d \in Devices |-> EmptyProgress]
  /\ queue = [d \in Devices |-> <<>>]
  /\ answers = [d \in Devices |-> <<>>]
  /\ clock = [d \in Devices |-> 0]
  /\ legacy = Legacy
  /\ earned = {i \in Sentences : \E d \in Devices : Legacy[d] # NoLegacy /\ i \in Legacy[d].passed}

-----------------------------------------------------------------------------
(***************************************************************************)
(* Requests and writes.                                                    *)
(***************************************************************************)
Read(for)     == [op |-> "read", rec |-> Missing, for |-> for]
Put(rec)      == [op |-> "put", rec |-> rec, for |-> "nobody"]
Move(rec, for) == [op |-> "move", rec |-> rec, for |-> for]

\* The times a device may stamp its next write with: its own clock only moves on.
Now(d) == {s \in Stamps[d] : s > clock[d]}

\* pass: the sentence counts once, a skip is used up.
Pass(p, i, skipped) ==
  [passed |-> p.passed \cup {i}, skips |-> p.skips + (IF skipped THEN 1 ELSE 0)]

\* setLearnProgress: shown at once, stored later under the present time.
Write(d, p) ==
  \E s \in Now(d) :
    /\ changed' = [changed EXCEPT ![d] = TRUE]
    /\ view' = [view EXCEPT ![d] = p]
    /\ queue' = [queue EXCEPT ![d] = Append(@, Put(Stamped(p, s)))]
    /\ clock' = [clock EXCEPT ![d] = s]
    /\ UNCHANGED <<store, network, open, answers, legacy>>

-----------------------------------------------------------------------------
(***************************************************************************)
(* The lesson and the gate.                                                *)
(***************************************************************************)

\* A sentence of the transcript opens once every sentence before it has passed.
Opened(d, i) == \A j \in 1..(i - 1) : j \in view[d].passed

\* The gate's Next is locked.
Locked(d) == gate[d] \notin view[d].passed /\ check[d] # "passed" /\ gate[d] # N

\* Puts sentence i, or none, in the gate; the gate that goes aborts its recognition.
Show(d, i) ==
  /\ gate' = [gate EXCEPT ![d] = i]
  /\ check' = [check EXCEPT ![d] = "idle"]
  /\ said' = [said EXCEPT ![d] = EmptyProgress]

OpenLesson(d) ==
  /\ ~open[d]
  /\ Len(queue[d]) + Len(answers[d]) < MaxQueue
  /\ open' = [open EXCEPT ![d] = TRUE]
  /\ queue' = [queue EXCEPT ![d] = Append(@, Read("first"))]
  /\ UNCHANGED <<store, network, view, changed, gate, check, said, answers, clock, legacy, earned>>

\* The visit's reads are cancelled, not its writes.
Unheard(seq) == [k \in DOMAIN seq |-> [seq[k] EXCEPT !.for = "nobody"]]

\* Mutant: reads go on for a lesson that was left.
LeaveUncancelled(d) ==
  /\ open[d]
  /\ open' = [open EXCEPT ![d] = FALSE]
  /\ view' = [view EXCEPT ![d] = EmptyProgress]
  /\ changed' = [changed EXCEPT ![d] = FALSE]
  /\ Show(d, 0)
  /\ UNCHANGED <<store, network, queue, answers, clock, legacy, earned>>

LeaveLesson(d) ==
  /\ open[d]
  /\ open' = [open EXCEPT ![d] = FALSE]
  /\ view' = [view EXCEPT ![d] = EmptyProgress]
  /\ changed' = [changed EXCEPT ![d] = FALSE]
  /\ queue' = [queue EXCEPT ![d] = Unheard(@)]
  /\ answers' = [answers EXCEPT ![d] = Unheard(@)]
  /\ Show(d, 0)
  /\ UNCHANGED <<store, network, clock, legacy, earned>>

\* Free mode steps to any sentence; turning Learn mode on puts it in the gate.
EnterGate(d, i) ==
  /\ open[d] /\ gate[d] = 0
  /\ Show(d, i)
  /\ UNCHANGED <<store, network, open, view, changed, queue, answers, clock, legacy, earned>>

\* Free mode, the full list or another lesson mode.
LeaveGate(d) ==
  /\ gate[d] # 0
  /\ Show(d, 0)
  /\ UNCHANGED <<store, network, open, view, changed, queue, answers, clock, legacy, earned>>

\* Previous, Next, or a line of the transcript.
Step(d, i) ==
  /\ gate[d] # 0 /\ gate[d] # i
  /\ \/ i < gate[d]
     \/ i = gate[d] + 1 /\ ~Locked(d)
     \/ Opened(d, i)
  /\ Show(d, i)
  /\ UNCHANGED <<store, network, open, view, changed, queue, answers, clock, legacy, earned>>

\* Say it: the recognition's callback keeps the progress it was made with.
SayIt(d) ==
  /\ gate[d] # 0 /\ check[d] = "idle"
  /\ check' = [check EXCEPT ![d] = "listening"]
  /\ said' = [said EXCEPT ![d] = view[d]]
  /\ UNCHANGED <<store, network, open, view, changed, gate, queue, answers, clock, legacy, earned>>

Settle(d, outcome) ==
  /\ check[d] = "listening"
  /\ check' = [check EXCEPT ![d] = outcome]
  /\ said' = [said EXCEPT ![d] = EmptyProgress]
  /\ UNCHANGED gate

\* The sentence was said well enough.
HearPass(d) ==
  /\ Settle(d, "passed")
  /\ Write(d, Pass(said[d], gate[d], FALSE))
  /\ earned' = earned \cup {gate[d]}

\* It was not, or the recognition failed or was aborted.
HearMiss(d) ==
  /\ Settle(d, "idle")
  /\ UNCHANGED <<store, network, open, view, changed, queue, answers, clock, legacy, earned>>

TryAgain(d) ==
  /\ check[d] = "passed"
  /\ check' = [check EXCEPT ![d] = "idle"]
  /\ UNCHANGED <<store, network, open, view, changed, gate, said, queue, answers, clock, legacy, earned>>

\* Typing the sentence instead, which may be done while the recognition listens.
TypeIt(d) ==
  /\ gate[d] # 0
  /\ gate[d] \notin view[d].passed /\ check[d] # "passed"
  /\ Write(d, Pass(view[d], gate[d], FALSE))
  /\ earned' = earned \cup {gate[d]}
  /\ UNCHANGED <<gate, check, said>>

\* A skip moves on to the next sentence.
Skip(d) ==
  /\ gate[d] # 0 /\ Locked(d)
  /\ Skips - view[d].skips # 0
  /\ Write(d, Pass(view[d], gate[d], TRUE))
  /\ Show(d, gate[d] + 1)
  /\ UNCHANGED earned

\* Start over leaves a recognition that listens alone.
StartOver(d) ==
  /\ gate[d] # 0
  /\ view[d].passed # {} \/ view[d].skips > 0
  /\ Write(d, EmptyProgress)
  /\ UNCHANGED <<gate, check, said, earned>>

-----------------------------------------------------------------------------
(***************************************************************************)
(* IndexedDB carries out a device's requests in order.                     *)
(***************************************************************************)
Perform(d) ==
  /\ queue[d] # <<>>
  /\ queue' = [queue EXCEPT ![d] = Tail(@)]
  /\ LET r == Head(queue[d])
     IN  /\ store' = IF r.op = "read" THEN store ELSE [store EXCEPT ![d] = r.rec]
         /\ answers' = CASE r.op = "put" -> answers
                         [] r.op = "move" -> [answers EXCEPT ![d] = Append(@, [rec |-> r.rec, for |-> r.for])]
                         [] r.op = "read" -> [answers EXCEPT ![d] = Append(@, [rec |-> store[d], for |-> r.for])]
         /\ legacy' = IF r.op = "move" THEN [legacy EXCEPT ![d] = NoLegacy] ELSE legacy
  /\ UNCHANGED <<network, screen, view, changed, clock, earned>>

\* A read that found nothing moves the legacy progress into the database.
Migrate(d) ==
  /\ answers[d] # <<>>
  /\ Head(answers[d]).rec.at = 0 /\ legacy[d] # NoLegacy
  /\ \E s \in Now(d) :
       /\ queue' = [queue EXCEPT ![d] = Append(@, Move(Stamped(legacy[d], s), Head(answers[d]).for))]
       /\ clock' = [clock EXCEPT ![d] = s]
  /\ answers' = [answers EXCEPT ![d] = Tail(@)]
  /\ UNCHANGED <<store, network, screen, view, changed, legacy, earned>>

\* What was read is shown, unless the first read comes after a change.
Deliver(d) ==
  /\ answers[d] # <<>>
  /\ LET a == Head(answers[d])
     IN  /\ a.rec.at # 0 \/ legacy[d] = NoLegacy
         /\ view' = IF a.for = "elsewhere" \/ (a.for = "first" /\ ~changed[d])
                    THEN [view EXCEPT ![d] = Shown(a.rec)] ELSE view
  /\ answers' = [answers EXCEPT ![d] = Tail(@)]
  /\ UNCHANGED <<store, network, screen, changed, queue, clock, legacy, earned>>

-----------------------------------------------------------------------------
(***************************************************************************)
(* The sync of the device's one lesson.                                    *)
(***************************************************************************)

\* Mutant: the sentences of both, the skips of the newer.
UnionSentences(kept, incoming) ==
  [(IF incoming.at > kept.at THEN incoming ELSE kept) EXCEPT !.passed = kept.passed \cup incoming.passed]

\* Mutant: the newer's sentences, and the skips used on both.
SumSkips(kept, incoming) ==
  [(IF incoming.at > kept.at THEN incoming ELSE kept) EXCEPT
     !.skips = IF incoming.at = kept.at THEN @ ELSE kept.skips + incoming.skips]

\* Mutant: what is there stays.
FirstWins(kept, incoming) == IF kept.at = 0 THEN incoming ELSE kept

\* newerLearnProgress, and the upsert's WHERE: an equal time keeps what is there.
Newer(kept, incoming) == IF incoming.at > kept.at THEN incoming ELSE kept

Export(d) ==
  /\ sync[d] = NoSync
  /\ sync' = [sync EXCEPT ![d] = [phase |-> "request", rec |-> store[d]]]
  /\ UNCHANGED <<store, server, lost, screen, view, changed, queue, answers, clock, legacy, earned>>

Serve(d) ==
  /\ sync[d].phase = "request"
  /\ server' = Newer(server, sync[d].rec)
  /\ sync' = [sync EXCEPT ![d] = [phase |-> "reply", rec |-> server']]
  /\ UNCHANGED <<store, lost, screen, view, changed, queue, answers, clock, legacy, earned>>

\* The request or its reply is lost.
Lose(d) ==
  /\ sync[d] # NoSync
  /\ lost < MaxLost
  /\ lost' = lost + 1
  /\ sync' = [sync EXCEPT ![d] = NoSync]
  /\ UNCHANGED <<store, server, screen, view, changed, queue, answers, clock, legacy, earned>>

\* mergeInto: when the server's is newer, an open lesson is told to read again.
Merge(d) ==
  /\ sync[d].phase = "reply"
  /\ store' = [store EXCEPT ![d] = Newer(@, sync[d].rec)]
  /\ queue' = IF store' # store /\ open[d]
              THEN [queue EXCEPT ![d] = Append(@, Read("elsewhere"))] ELSE queue
  /\ sync' = [sync EXCEPT ![d] = NoSync]
  /\ UNCHANGED <<server, lost, screen, view, changed, answers, clock, legacy, earned>>

-----------------------------------------------------------------------------
Learner(d) ==
  \/ OpenLesson(d)
  \/ LeaveLesson(d)
  \/ \E i \in Sentences : EnterGate(d, i) \/ Step(d, i)
  \/ LeaveGate(d)
  \/ SayIt(d)
  \/ HearPass(d)
  \/ HearMiss(d)
  \/ TypeIt(d)
  \/ Skip(d)
  \/ StartOver(d)

Browser(d) == Perform(d) \/ Migrate(d) \/ Deliver(d)

Network(d) == Export(d) \/ Serve(d) \/ Merge(d)

\* Bound: the learner rests when the device's clock has shown its last time.
Next == \E d \in Devices : (Now(d) # {} /\ Learner(d)) \/ TryAgain(d) \/ Browser(d) \/ Network(d) \/ Lose(d)

Spec == Init /\ [][Next]_vars

(***************************************************************************)
(* The browser carries out what was asked of it and, with the app in use,  *)
(* syncs come again and again.  The learner and the losses are not fair.   *)
(***************************************************************************)
FairSpec == Spec /\ \A d \in Devices : WF_vars(Browser(d)) /\ WF_vars(Network(d))

-----------------------------------------------------------------------------
(***************************************************************************)
(* Properties.                                                             *)
(***************************************************************************)

\* The variables have their types, and a closed lesson keeps nothing of its visit.
TypeOK ==
  /\ store \in [Devices -> Record]
  /\ server \in Record
  /\ sync \in [Devices -> Sync]
  /\ lost \in 0..MaxLost
  /\ open \in [Devices -> BOOLEAN]
  /\ view \in [Devices -> Progress]
  /\ changed \in [Devices -> BOOLEAN]
  /\ gate \in [Devices -> 0..N]
  /\ check \in [Devices -> {"idle", "listening", "passed"}]
  /\ said \in [Devices -> Progress]
  /\ queue \in [Devices -> Seq(Request)]
  /\ answers \in [Devices -> Seq(Answer)]
  /\ clock \in [Devices -> Nat]
  /\ legacy \in [Devices -> Progress \cup {NoLegacy}]
  /\ earned \subseteq Sentences
  /\ \A d \in Devices : ~open[d] => gate[d] = 0 /\ view[d] = EmptyProgress /\ ~changed[d]

\* What is true of every copy of the progress, on screens, in stores and on the way.
EveryCopy(P(_)) ==
  /\ P(server)
  /\ \A d \in Devices :
       /\ P(store[d]) /\ P(sync[d].rec) /\ P(view[d]) /\ P(said[d])
       /\ \A k \in DOMAIN queue[d] : P(queue[d][k].rec)
       /\ \A k \in DOMAIN answers[d] : P(answers[d][k].rec)
       /\ legacy[d] = NoLegacy \/ P(legacy[d])

WithinSkips(p) == p.skips <= Skips
Earned(p)      == Cardinality(p.passed \ earned) <= p.skips

\* No lesson has more skips than SKIPS_PER_LESSON, however its progress is
\* merged, reread or written from an older screen: skipsLeft is never negative,
\* which the gate's "skipsLeft === 0" would take for skips left.
SkipsBounded == EveryCopy(WithinSkips)

\* A copy never opens more than was earned: all its sentences were said or typed
\* well at some time, on some device, but for one per skip it counts.  The
\* sentences of one write never meet the skips of another.
UnlocksAreEarned == EveryCopy(Earned)

\* When the writes end, all devices and the server come to hold one record for
\* good, none older than anything written: the newer updatedAt has won everywhere.
EventuallyAgree ==
  <>[](\A d \in Devices : store[d] = server /\ clock[d] <= server.at)

\* A sentence said well opens that one sentence, and nothing else changes: a
\* Start over stays, "Lock every sentence again and get all skips back?".
CheckOpensOne ==
  [][\A d \in Devices :
       check[d] = "listening" /\ check'[d] = "passed" =>
         view'[d] = [view[d] EXCEPT !.passed = @ \cup {gate[d]}]]_vars
=============================================================================
