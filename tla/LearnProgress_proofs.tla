------------------------ MODULE LearnProgress_proofs ------------------------
(***************************************************************************)
(* Proofs about LearnProgress for all devices, lessons, limits, clocks and *)
(* legacy progress.                                                        *)
(***************************************************************************)
EXTENDS LearnProgress, FiniteSetTheorems, TLAPS

-----------------------------------------------------------------------------
(* Queues.                                                                 *)

\* The elements of an extended queue are the former ones and the new one.
LEMMA AppendElements ==
  ASSUME NEW S, NEW s \in Seq(S), NEW x \in S
  PROVE  /\ Append(s, x) \in Seq(S)
         /\ \A k \in DOMAIN Append(s, x) :
              Append(s, x)[k] = x \/ \E j \in DOMAIN s : Append(s, x)[k] = s[j]
  OBVIOUS

\* Those of a queue without its head are former ones.
LEMMA TailElements ==
  ASSUME NEW S, NEW s \in Seq(S), s # <<>>
  PROVE  /\ Tail(s) \in Seq(S) /\ 1 \in DOMAIN s /\ Head(s) = s[1] /\ Head(s) \in S
         /\ \A k \in DOMAIN Tail(s) : k + 1 \in DOMAIN s /\ Tail(s)[k] = s[k + 1]
  OBVIOUS

\* Nobody hears r any more.
Unheard1(r) == [r EXCEPT !.for = "nobody"]

\* It has its type and its record.
LEMMA UnheardTypes ==
  /\ \A r \in Request : Unheard1(r) \in Request /\ Unheard1(r).rec = r.rec /\ Unheard1(r).for = "nobody"
  /\ \A r \in Answer : Unheard1(r) \in Answer /\ Unheard1(r).rec = r.rec /\ Unheard1(r).for = "nobody"
<1>1. ASSUME NEW r \in Request
      PROVE  Unheard1(r) \in Request /\ Unheard1(r).rec = r.rec /\ Unheard1(r).for = "nobody"
  BY DEF Request, Readers, Unheard1
<1>2. ASSUME NEW r \in Answer
      PROVE  Unheard1(r) \in Answer /\ Unheard1(r).rec = r.rec /\ Unheard1(r).for = "nobody"
  BY DEF Answer, Readers, Unheard1
<1>3. QED
  BY <1>1, <1>2

\* What nobody hears any more is still done.
LEMMA UnheardElements ==
  ASSUME NEW S, NEW s \in Seq(S),
         \A r \in S : Unheard1(r) \in S /\ Unheard1(r).rec = r.rec /\ Unheard1(r).for = "nobody"
  PROVE  /\ Unheard(s) \in Seq(S)
         /\ \A k \in DOMAIN Unheard(s) :
              k \in DOMAIN s /\ Unheard(s)[k].rec = s[k].rec /\ Unheard(s)[k].for = "nobody"
<1>1. \A k \in DOMAIN s : s[k] \in S
  OBVIOUS
<1>2. Len(s) \in Nat /\ DOMAIN s = 1..Len(s)
  OBVIOUS
<1>3. Unheard(s) = [k \in 1..Len(s) |-> Unheard1(s[k])]
  BY <1>2 DEF Unheard, Unheard1
<1>4. \A k \in 1..Len(s) : Unheard1(s[k]) \in S
  BY <1>1, <1>2
<1>5. Unheard(s) \in Seq(S)
  BY <1>2, <1>3, <1>4
<1>6. QED
  BY <1>1, <1>2, <1>3, <1>5

-----------------------------------------------------------------------------
(* Types.                                                                  *)

Unawaited(s) == \A k \in DOMAIN s : s[k].for = "nobody"

\* A queue nobody waits for stays one when a request nobody waits for is added.
LEMMA UnawaitedAppend ==
  ASSUME NEW S, NEW s \in Seq(S), NEW x \in S, Unawaited(s), x.for = "nobody"
  PROVE  Unawaited(Append(s, x))
<1>1. ASSUME NEW k \in DOMAIN Append(s, x) PROVE Append(s, x)[k].for = "nobody"
  <2>1. CASE Append(s, x)[k] = x
    BY <2>1
  <2>2. CASE \E j \in DOMAIN s : Append(s, x)[k] = s[j]
    BY <2>2 DEF Unawaited
  <2>3. QED
    BY <2>1, <2>2, AppendElements
<1>2. QED
  BY <1>1 DEF Unawaited

\* t has what s has.
Copied(t, s) == \A k \in DOMAIN t : k \in DOMAIN s /\ t[k].rec = s[k].rec

\* Leaving a lesson makes its queues such ones, with the same records.
LEMMA UnheardUnawaited ==
  /\ \A s \in Seq(Request) :
       Unheard(s) \in Seq(Request) /\ Unawaited(Unheard(s)) /\ Copied(Unheard(s), s)
  /\ \A s \in Seq(Answer) :
       Unheard(s) \in Seq(Answer) /\ Unawaited(Unheard(s)) /\ Copied(Unheard(s), s)
<1>1. ASSUME NEW s \in Seq(Request)
      PROVE  Unheard(s) \in Seq(Request) /\ Unawaited(Unheard(s)) /\ Copied(Unheard(s), s)
  BY UnheardElements, UnheardTypes DEF Unawaited, Copied
<1>2. ASSUME NEW s \in Seq(Answer)
      PROVE  Unheard(s) \in Seq(Answer) /\ Unawaited(Unheard(s)) /\ Copied(Unheard(s), s)
  BY UnheardElements, UnheardTypes DEF Unawaited, Copied
<1>3. QED
  BY <1>1, <1>2

(***************************************************************************)
(* That a closed lesson keeps nothing rests on its reads, which nobody     *)
(* waits for, and on the gate, without which nothing listens.              *)
(***************************************************************************)
TInv ==
  /\ TypeOK
  /\ \A d \in Devices :
       /\ check[d] # "idle" => gate[d] # 0
       /\ ~open[d] => Unawaited(queue[d]) /\ Unawaited(answers[d])

\* The operators on progress keep its type.
LEMMA ProgressTypes ==
  /\ EmptyProgress \in Progress /\ Missing \in Record /\ NoSync \in Sync
  /\ \A p \in Progress, s \in Nat : Stamped(p, s) \in Record
  /\ \A r \in Record : Shown(r) \in Progress
  /\ \A p \in Progress, i \in Sentences, b \in BOOLEAN : Pass(p, i, b) \in Progress
  /\ \A r, q \in Record : Newer(r, q) \in Record
  BY DEF EmptyProgress, Progress, Missing, Record, NoSync, Sync, Stamped, Shown, Pass, Newer

\* A device's times are numbers.
LEMMA NowType ==
  ASSUME NEW d \in Devices, NEW s \in Now(d)
  PROVE  s \in Nat
  BY LearnAssumption DEF Now

\* The requests have their types.
LEMMA RequestTypes ==
  /\ \A f \in Readers : Read(f) \in Request /\ Read(f).rec = Missing /\ Read(f).for = f
  /\ \A r \in Record : Put(r) \in Request /\ Put(r).rec = r /\ Put(r).for = "nobody"
  /\ \A r \in Record, f \in Readers : Move(r, f) \in Request /\ Move(r, f).rec = r /\ Move(r, f).for = f
  BY ProgressTypes DEF Read, Put, Move, Request, Readers

\* The initial state has the types.
LEMMA InitType == Init => TInv
<1> SUFFICES ASSUME Init PROVE TInv
  OBVIOUS
<1>1. \A S : <<>> \in Seq(S) /\ DOMAIN <<>> = {}
  OBVIOUS
<1>2. 0 \in 0..MaxLost /\ 0 \in 0..N
  BY LearnAssumption
<1>3. QED
  BY <1>1, <1>2, ProgressTypes, LearnAssumption DEF Init, TInv, TypeOK, Unawaited

\* A write keeps the types.
LEMMA WriteType ==
  ASSUME TInv, NEW d \in Devices, NEW p \in Progress, open[d], Write(d, p)
  PROVE  /\ view' \in [Devices -> Progress] /\ changed' \in [Devices -> BOOLEAN]
         /\ queue' \in [Devices -> Seq(Request)] /\ clock' \in [Devices -> Nat]
         /\ UNCHANGED <<store, network, open, answers, legacy>>
         /\ \A e \in Devices : e # d => view'[e] = view[e] /\ changed'[e] = changed[e] /\ queue'[e] = queue[e]
<1>1. PICK s \in Now(d) :
        /\ changed' = [changed EXCEPT ![d] = TRUE]
        /\ view' = [view EXCEPT ![d] = p]
        /\ queue' = [queue EXCEPT ![d] = Append(@, Put(Stamped(p, s)))]
        /\ clock' = [clock EXCEPT ![d] = s]
        /\ UNCHANGED <<store, network, open, answers, legacy>>
  BY DEF Write
<1>2. s \in Nat /\ Put(Stamped(p, s)) \in Request
  BY NowType, ProgressTypes, RequestTypes
<1>3. Append(queue[d], Put(Stamped(p, s))) \in Seq(Request)
  BY <1>2, AppendElements DEF TInv, TypeOK
<1>4. QED
  BY <1>1, <1>2, <1>3 DEF TInv, TypeOK

\* The learner's steps keep the types.
LEMMA LearnerType ==
  ASSUME TInv, NEW d \in Devices, Learner(d) \/ TryAgain(d)
  PROVE  TInv'
<1> USE DEF TInv, TypeOK, network, screen
<1>0. EmptyProgress \in Progress
  BY ProgressTypes
<1>1. CASE OpenLesson(d)
  <2>1. Read("first") \in Request
    BY RequestTypes DEF Readers
  <2>2. Append(queue[d], Read("first")) \in Seq(Request)
    BY <2>1, AppendElements
  <2>3. QED
    BY <1>1, <2>2 DEF OpenLesson, Unawaited
<1>2. CASE LeaveLesson(d)
  <2>1. Unheard(queue[d]) \in Seq(Request) /\ Unawaited(Unheard(queue[d]))
    BY UnheardUnawaited
  <2>2. Unheard(answers[d]) \in Seq(Answer) /\ Unawaited(Unheard(answers[d]))
    BY UnheardUnawaited
  <2>3. 0 \in 0..N
    BY LearnAssumption
  <2>4. QED
    BY <1>0, <1>2, <2>1, <2>2, <2>3 DEF LeaveLesson, Show, Unawaited
<1>3. ASSUME NEW i \in Sentences, EnterGate(d, i) \/ Step(d, i) PROVE TInv'
  <2>1. i \in 0..N /\ open[d]
    BY <1>3, LearnAssumption DEF Sentences, EnterGate, Step
  <2>2. /\ Show(d, i)
        /\ UNCHANGED <<store, network, open, view, changed, queue, answers, clock, legacy, earned>>
    BY <1>3 DEF EnterGate, Step
  <2>3. QED
    BY <1>0, <2>1, <2>2 DEF Show, Unawaited
<1>4. CASE LeaveGate(d)
  <2>1. 0 \in 0..N
    BY LearnAssumption
  <2>2. QED
    BY <1>0, <1>4, <2>1 DEF LeaveGate, Show, Unawaited
<1>5. CASE SayIt(d)
  BY <1>5 DEF SayIt, Unawaited
<1>6. CASE HearMiss(d)
  BY <1>0, <1>6 DEF HearMiss, Settle, Unawaited
<1>7. CASE TryAgain(d)
  BY <1>7 DEF TryAgain, Unawaited
<1>8. ASSUME NEW p \in Progress, Write(d, p), gate[d] # 0,
             gate' \in [Devices -> 0..N], check' \in [Devices -> {"idle", "listening", "passed"}],
             said' \in [Devices -> Progress], earned' \subseteq Sentences,
             \A e \in Devices : e # d => gate'[e] = gate[e] /\ check'[e] = check[e],
             check'[d] # "idle" => gate'[d] # 0
      PROVE  TInv'
  <2>1. open[d]
    BY <1>8
  <2>2. /\ view' \in [Devices -> Progress] /\ changed' \in [Devices -> BOOLEAN]
        /\ queue' \in [Devices -> Seq(Request)] /\ clock' \in [Devices -> Nat]
        /\ UNCHANGED <<store, network, open, answers, legacy>>
        /\ \A e \in Devices : e # d => view'[e] = view[e] /\ changed'[e] = changed[e] /\ queue'[e] = queue[e]
    BY <1>8, <2>1, WriteType
  <2>3. QED
    BY <1>8, <2>1, <2>2 DEF Unawaited
<1>9. gate[d] # 0 => gate[d] \in Sentences
  BY LearnAssumption DEF Sentences
<1>10. CASE HearPass(d)
  <2>1. gate[d] # 0
    BY <1>10 DEF HearPass, Settle
  <2>2. Pass(said[d], gate[d], FALSE) \in Progress
    BY <1>9, <2>1, ProgressTypes
  <2>3. QED
    BY <1>0, <1>8, <1>9, <1>10, <2>1, <2>2 DEF HearPass, Settle
<1>11. CASE TypeIt(d)
  <2>1. Pass(view[d], gate[d], FALSE) \in Progress
    BY <1>9, <1>11, ProgressTypes DEF TypeIt
  <2>2. QED
    BY <1>8, <1>9, <1>11, <2>1 DEF TypeIt
<1>12. CASE Skip(d)
  <2>1. Pass(view[d], gate[d], TRUE) \in Progress
    BY <1>9, <1>12, ProgressTypes DEF Skip
  <2>2. gate[d] + 1 \in 0..N
    BY <1>12, LearnAssumption DEF Skip, Locked
  <2>3. QED
    BY <1>0, <1>8, <1>12, <2>1, <2>2 DEF Skip, Show
<1>13. CASE StartOver(d)
  BY <1>0, <1>8, <1>13 DEF StartOver
<1>14. QED
  BY <1>1, <1>2, <1>3, <1>4, <1>5, <1>6, <1>7, <1>10, <1>11, <1>12, <1>13 DEF Learner

\* So do the browser's.
LEMMA BrowserType ==
  ASSUME TInv, NEW d \in Devices, Browser(d)
  PROVE  TInv'
<1> USE DEF TInv, TypeOK, network, screen
<1>1. CASE Perform(d)
  <2> DEFINE r == Head(queue[d])
  <2>1. /\ Tail(queue[d]) \in Seq(Request) /\ r \in Request
        /\ Unawaited(queue[d]) => Unawaited(Tail(queue[d])) /\ r.for = "nobody"
    BY <1>1, TailElements DEF Perform, Unawaited
  <2>2. r.rec \in Record /\ r.op \in {"read", "put", "move"} /\ r.for \in Readers
    BY <2>1 DEF Request
  <2>3. ASSUME NEW a \in Record
        PROVE  /\ Append(answers[d], [rec |-> a, for |-> r.for]) \in Seq(Answer)
               /\ Unawaited(answers[d]) /\ r.for = "nobody" =>
                    Unawaited(Append(answers[d], [rec |-> a, for |-> r.for]))
    <3>1. [rec |-> a, for |-> r.for] \in Answer /\ [rec |-> a, for |-> r.for].for = r.for
      BY <2>2 DEF Answer
    <3>2. answers[d] \in Seq(Answer)
      OBVIOUS
    <3>3. QED
      BY <3>1, <3>2, AppendElements, UnawaitedAppend
  <2> HIDE DEF r
  <2>4. store' \in [Devices -> Record] /\ legacy' \in [Devices -> Progress \cup {NoLegacy}]
    BY <1>1, <2>2 DEF Perform, r
  <2>5. /\ answers' \in [Devices -> Seq(Answer)]
        /\ \A e \in Devices : e # d => answers'[e] = answers[e]
        /\ Unawaited(answers[d]) /\ r.for = "nobody" => Unawaited(answers'[d])
    <3>1. CASE r.op = "put"
      BY <1>1, <3>1 DEF Perform, r
    <3>2. CASE r.op = "move"
      <4>1. answers' = [answers EXCEPT ![d] = Append(@, [rec |-> r.rec, for |-> r.for])]
        BY <1>1, <3>2 DEF Perform, r
      <4>2. QED
        BY <2>2, <2>3, <4>1
    <3>3. CASE r.op = "read"
      <4>1. answers' = [answers EXCEPT ![d] = Append(@, [rec |-> store[d], for |-> r.for])]
        BY <1>1, <3>3 DEF Perform, r
      <4>2. QED
        BY <2>3, <4>1
    <3>4. QED
      BY <2>2, <3>1, <3>2, <3>3
  <2>6. /\ queue' = [queue EXCEPT ![d] = Tail(@)]
        /\ UNCHANGED <<network, screen, view, changed, clock, earned>>
    BY <1>1 DEF Perform
  <2>7. QED
    BY <2>1, <2>4, <2>5, <2>6 DEF Unawaited
<1>2. ASSUME answers[d] # <<>>
      PROVE  /\ Tail(answers[d]) \in Seq(Answer) /\ Head(answers[d]) \in Answer
             /\ Unawaited(answers[d]) => Unawaited(Tail(answers[d])) /\ Head(answers[d]).for = "nobody"
  BY <1>2, TailElements DEF Unawaited
<1>3. CASE Migrate(d)
  <2> DEFINE f == Head(answers[d]).for
  <2>1. f \in Readers
    BY <1>2, <1>3 DEF Migrate, Answer
  <2>2. PICK s \in Now(d) :
          /\ queue' = [queue EXCEPT ![d] = Append(@, Move(Stamped(legacy[d], s), f))]
          /\ clock' = [clock EXCEPT ![d] = s]
    BY <1>3 DEF Migrate
  <2>3. Stamped(legacy[d], s) \in Record /\ s \in Nat
    BY <1>3, NowType, ProgressTypes DEF Migrate
  <2>4. Move(Stamped(legacy[d], s), f) \in Request /\ Move(Stamped(legacy[d], s), f).for = f
    BY <2>1, <2>3, RequestTypes
  <2>5. /\ Append(queue[d], Move(Stamped(legacy[d], s), f)) \in Seq(Request)
        /\ Unawaited(queue[d]) /\ f = "nobody" => Unawaited(Append(queue[d], Move(Stamped(legacy[d], s), f)))
    <3>1. queue[d] \in Seq(Request)
      OBVIOUS
    <3>2. QED
      BY <2>4, <3>1, AppendElements, UnawaitedAppend
  <2>6. /\ answers' = [answers EXCEPT ![d] = Tail(@)]
        /\ UNCHANGED <<store, network, screen, view, changed, legacy, earned>>
    BY <1>3 DEF Migrate
  <2>7. QED
    BY <1>2, <1>3, <2>2, <2>3, <2>5, <2>6 DEF Migrate, Unawaited
<1>4. CASE Deliver(d)
  <2> DEFINE a == Head(answers[d])
  <2>1. a \in Answer /\ a.rec \in Record
    BY <1>2, <1>4 DEF Deliver, Answer
  <2>2. Shown(a.rec) \in Progress
    BY <2>1, ProgressTypes
  <2>3. ~open[d] => a.for = "nobody"
    BY <1>2, <1>4 DEF Deliver
  <2>4. /\ view' \in [Devices -> Progress]
        /\ \A e \in Devices : e # d => view'[e] = view[e]
        /\ ~open[d] => view'[d] = view[d]
    BY <1>4, <2>2, <2>3 DEF Deliver
  <2>5. /\ answers' = [answers EXCEPT ![d] = Tail(@)]
        /\ UNCHANGED <<store, network, screen, changed, queue, clock, legacy, earned>>
    BY <1>4 DEF Deliver
  <2>6. QED
    BY <1>2, <1>4, <2>4, <2>5 DEF Deliver, Unawaited
<1>5. QED
  BY <1>1, <1>3, <1>4 DEF Browser

\* And the network's.
LEMMA NetworkType ==
  ASSUME TInv, NEW d \in Devices, Network(d) \/ Lose(d)
  PROVE  TInv'
<1> USE DEF TInv, TypeOK, network, screen
<1>0. NoSync \in Sync
  BY ProgressTypes
<1>1. CASE Export(d)
  <2>1. [phase |-> "request", rec |-> store[d]] \in Sync
    BY DEF Sync
  <2>2. QED
    BY <1>1, <2>1 DEF Export, Unawaited
<1>2. CASE Serve(d)
  <2>1. server' \in Record
    BY <1>2, ProgressTypes DEF Serve, Sync
  <2>2. [phase |-> "reply", rec |-> server'] \in Sync
    BY <2>1 DEF Sync
  <2>3. QED
    BY <1>2, <2>1, <2>2 DEF Serve, Unawaited
<1>3. CASE Lose(d)
  BY <1>0, <1>3, LearnAssumption DEF Lose, Unawaited
<1>4. CASE Merge(d)
  <2>1. Newer(store[d], sync[d].rec) \in Record
    BY ProgressTypes DEF Sync
  <2>2. Read("elsewhere") \in Request
    BY RequestTypes DEF Readers
  <2>3. Append(queue[d], Read("elsewhere")) \in Seq(Request)
    BY <2>2, AppendElements
  <2>4. QED
    BY <1>0, <1>4, <2>1, <2>3 DEF Merge, Unawaited
<1>5. QED
  BY <1>1, <1>2, <1>3, <1>4 DEF Network

\* Every step keeps them.
LEMMA StepType == TInv /\ [Next]_vars => TInv'
<1> SUFFICES ASSUME TInv, [Next]_vars PROVE TInv'
  OBVIOUS
<1>1. CASE Next
  BY <1>1, LearnerType, BrowserType, NetworkType DEF Next
<1>2. CASE UNCHANGED vars
  BY <1>2 DEF TInv, TypeOK, Unawaited, vars, network, screen
<1>3. QED
  BY <1>1, <1>2

\* Every variable keeps its type, and what a lesson's visit started, the reads and
\* the recognition, reaches nothing once the lesson is left.
THEOREM TypeCorrect == Spec => []TypeOK
<1>1. TInv => TypeOK
  BY DEF TInv
<1>2. QED
  BY <1>1, InitType, StepType, PTL DEF Spec

-----------------------------------------------------------------------------
(***************************************************************************)
(* What a copy opens.  Both invariants are proved at once: that a skip     *)
(* stays within the limit and that it pays for one sentence are the two    *)
(* halves of one account, and every copy is made whole from another.       *)
(***************************************************************************)
Honest(p, E) == p.skips <= Skips /\ Cardinality(p.passed \ E) <= p.skips

HonestNow(p) == Honest(p, earned)

HInv == EveryCopy(HonestNow)

\* What a copy opens unearned can be counted.
LEMMA PassedFinite ==
  ASSUME NEW S \in SUBSET Sentences, NEW E
  PROVE  IsFiniteSet(S \ E) /\ Cardinality(S \ E) \in Nat
<1>1. IsFiniteSet(Sentences)
  BY FS_Interval, LearnAssumption DEF Sentences
<1>2. S \ E \in SUBSET Sentences
  OBVIOUS
<1>3. IsFiniteSet(S \ E)
  BY <1>1, <1>2, FS_Subset
<1>4. QED
  BY <1>3, FS_CardinalityType

\* No progress is honest; stamping and showing do not matter.
LEMMA HonestCopies ==
  ASSUME NEW E
  PROVE  /\ Honest(EmptyProgress, E) /\ Honest(Missing, E) /\ Honest(NoSync.rec, E)
         /\ \A p, s : Honest(Stamped(p, s), E) <=> Honest(p, E)
         /\ \A r : Honest(Shown(r), E) <=> Honest(r, E)
         /\ \A r, q : Honest(r, E) /\ Honest(q, E) => Honest(Newer(r, q), E)
<1>1. {} \ E = {} /\ Cardinality({}) = 0
  BY FS_EmptySet
<1>2. Honest(EmptyProgress, E)
  BY <1>1, LearnAssumption DEF Honest, EmptyProgress
<1>3. \A p, s : Honest(Stamped(p, s), E) <=> Honest(p, E)
  BY DEF Honest, Stamped
<1>4. QED
  BY <1>2, <1>3 DEF Missing, NoSync, Honest, Shown, Newer

\* Earning more keeps a copy honest.
LEMMA HonestMore ==
  ASSUME NEW p, p.passed \in SUBSET Sentences, p.skips \in Nat, NEW E, NEW F, E \subseteq F, Honest(p, E)
  PROVE  Honest(p, F)
<1>1. p.passed \ F \in SUBSET (p.passed \ E)
  OBVIOUS
<1>2. IsFiniteSet(p.passed \ E) /\ Cardinality(p.passed \ E) \in Nat /\ Cardinality(p.passed \ F) \in Nat
  BY PassedFinite
<1>3. Cardinality(p.passed \ F) <= Cardinality(p.passed \ E)
  BY <1>1, <1>2, FS_Subset
<1>4. QED
  BY <1>2, <1>3 DEF Honest

\* A sentence said or typed well costs nothing.
LEMMA HonestPass ==
  ASSUME NEW p \in Progress, NEW i \in Sentences, NEW E, i \in E, Honest(p, E)
  PROVE  Honest(Pass(p, i, FALSE), E)
<1>1. (p.passed \cup {i}) \ E = p.passed \ E
  OBVIOUS
<1>2. QED
  BY <1>1 DEF Honest, Pass, Progress

\* A skipped one costs a skip, and there was one left.
LEMMA HonestSkip ==
  ASSUME NEW p \in Progress, NEW i \in Sentences, NEW E, Skips - p.skips # 0, Honest(p, E)
  PROVE  Honest(Pass(p, i, TRUE), E)
<1> DEFINE before == p.passed \ E
           after  == (p.passed \cup {i}) \ E
<1>1. p.passed \in SUBSET Sentences /\ p.skips \in Nat
  BY DEF Progress
<1>2. IsFiniteSet(before) /\ Cardinality(before) \in Nat
  BY <1>1, PassedFinite
<1>3. IsFiniteSet(before \cup {i}) /\ Cardinality(before \cup {i}) <= Cardinality(before) + 1
  BY <1>2, FS_AddElement
<1>4. Cardinality(before \cup {i}) \in Nat
  BY <1>3, FS_CardinalityType
<1>5. after \in SUBSET (before \cup {i})
  OBVIOUS
<1>6. IsFiniteSet(after) /\ Cardinality(after) <= Cardinality(before \cup {i})
  BY <1>3, <1>5, FS_Subset
<1>7. Cardinality(after) \in Nat
  BY <1>6, FS_CardinalityType
<1>8. Cardinality(after) <= p.skips + 1
  BY <1>1, <1>2, <1>3, <1>4, <1>6, <1>7 DEF Honest
<1>9. p.skips + 1 <= Skips
  BY <1>1, LearnAssumption DEF Honest
<1>10. QED
  BY <1>8, <1>9 DEF Honest, Pass

\* At first there is only legacy progress, all of it earned.
LEMMA InitHonest == Init => HInv
<1> SUFFICES ASSUME Init PROVE HInv
  OBVIOUS
<1>1. ASSUME NEW d \in Devices, Legacy[d] # NoLegacy PROVE Honest(Legacy[d], earned)
  <2>1. Legacy[d] \in Progress
    BY <1>1, LearnAssumption
  <2>2. Legacy[d].passed \ earned = {} /\ Cardinality({}) = 0
    BY <1>1, <2>1, FS_EmptySet DEF Init, Progress
  <2>3. QED
    BY <1>1, <2>1, <2>2, LearnAssumption DEF Honest, Progress
<1>2. DOMAIN <<>> = {}
  OBVIOUS
<1>3. QED
  BY <1>1, <1>2, HonestCopies DEF Init, HInv, EveryCopy, HonestNow

(***************************************************************************)
(* A step first leaves every copy honest: what was earned stays earned.    *)
(***************************************************************************)
HonestOld ==
  /\ Honest(server, earned')
  /\ \A d \in Devices :
       /\ Honest(store[d], earned') /\ Honest(sync[d].rec, earned')
       /\ Honest(view[d], earned') /\ Honest(said[d], earned')
       /\ \A k \in DOMAIN queue[d] : Honest(queue[d][k].rec, earned')
       /\ \A k \in DOMAIN answers[d] : Honest(answers[d][k].rec, earned')
       /\ legacy[d] = NoLegacy \/ Honest(legacy[d], earned')

\* The copies there are stay honest while what is earned only grows.
LEMMA OldStaysHonest ==
  ASSUME TInv, HInv, earned \subseteq earned'
  PROVE  HonestOld
<1>1. \A p : (p \in Record \/ p \in Progress) /\ Honest(p, earned) => Honest(p, earned')
  BY HonestMore DEF Record, Progress
<1>2. server \in Record
  BY DEF TInv, TypeOK
<1>3. ASSUME NEW d \in Devices
      PROVE  /\ store[d] \in Record /\ sync[d].rec \in Record /\ view[d] \in Progress /\ said[d] \in Progress
             /\ \A k \in DOMAIN queue[d] : queue[d][k].rec \in Record
             /\ \A k \in DOMAIN answers[d] : answers[d][k].rec \in Record
             /\ legacy[d] = NoLegacy \/ legacy[d] \in Progress
  <2>1. queue[d] \in Seq(Request) /\ answers[d] \in Seq(Answer) /\ sync[d] \in Sync
    BY DEF TInv, TypeOK
  <2>2. \A k \in DOMAIN queue[d] : queue[d][k] \in Request
    BY <2>1
  <2>3. \A k \in DOMAIN answers[d] : answers[d][k] \in Answer
    BY <2>1
  <2>4. QED
    BY <2>1, <2>2, <2>3 DEF TInv, TypeOK, Request, Answer, Sync
<1>4. QED
  BY <1>1, <1>2, <1>3 DEF HInv, EveryCopy, HonestNow, HonestOld

\* A queue of honest requests stays one when an honest one is added.
LEMMA HonestAppend ==
  ASSUME NEW S, NEW s \in Seq(S), NEW x \in S, NEW E, Honest(x.rec, E),
         \A k \in DOMAIN s : Honest(s[k].rec, E)
  PROVE  \A k \in DOMAIN Append(s, x) : Honest(Append(s, x)[k].rec, E)
<1> TAKE k \in DOMAIN Append(s, x)
<1>1. CASE Append(s, x)[k] = x
  BY <1>1
<1>2. CASE \E j \in DOMAIN s : Append(s, x)[k] = s[j]
  BY <1>2
<1>3. QED
  BY <1>1, <1>2, AppendElements

\* An honest write, with the gate changed as it may be, keeps all copies honest.
LEMMA WriteHonest ==
  ASSUME TInv, HonestOld, NEW d \in Devices, NEW p \in Progress, Honest(p, earned'), Write(d, p),
         \A e \in Devices : said'[e] = said[e] \/ said'[e] = EmptyProgress
  PROVE  HInv'
<1>1. PICK s \in Now(d) :
        /\ view' = [view EXCEPT ![d] = p]
        /\ queue' = [queue EXCEPT ![d] = Append(@, Put(Stamped(p, s)))]
        /\ UNCHANGED <<store, network, answers, legacy>>
  BY DEF Write
<1>2. Put(Stamped(p, s)) \in Request /\ Honest(Put(Stamped(p, s)).rec, earned')
  BY NowType, ProgressTypes, RequestTypes, HonestCopies
<1>3. queue[d] \in Seq(Request) /\ view \in [Devices -> Progress] /\ queue \in [Devices -> Seq(Request)]
  BY DEF TInv, TypeOK
<1>4. \A k \in DOMAIN queue'[d] : Honest(queue'[d][k].rec, earned')
  BY <1>1, <1>2, <1>3, HonestAppend DEF HonestOld
<1>5. \A e \in Devices : Honest(said'[e], earned')
  BY HonestCopies DEF HonestOld
<1>6. \A e \in Devices : e # d => queue'[e] = queue[e] /\ view'[e] = view[e]
  BY <1>1, <1>3
<1>7. view'[d] = p
  BY <1>1, <1>3
<1>8. QED
  BY <1>1, <1>4, <1>5, <1>6, <1>7 DEF HInv, EveryCopy, HonestNow, HonestOld, network

\* Nothing written: the copies stay, or a screen's closure takes or drops one.
LEMMA QuietHonest ==
  ASSUME HonestOld, UNCHANGED <<store, network, legacy>>,
         \A d \in Devices :
           /\ view'[d] = view[d] \/ view'[d] = EmptyProgress
           /\ said'[d] = said[d] \/ said'[d] = EmptyProgress \/ said'[d] = view[d]
           /\ \A k \in DOMAIN queue'[d] :
                queue'[d][k].rec = Missing \/ \E j \in DOMAIN queue[d] : queue'[d][k].rec = queue[d][j].rec
           /\ \A k \in DOMAIN answers'[d] : \E j \in DOMAIN answers[d] : answers'[d][k].rec = answers[d][j].rec
  PROVE  HInv'
<1>1. ASSUME NEW d \in Devices
      PROVE  /\ Honest(view'[d], earned') /\ Honest(said'[d], earned')
             /\ \A k \in DOMAIN queue'[d] : Honest(queue'[d][k].rec, earned')
             /\ \A k \in DOMAIN answers'[d] : Honest(answers'[d][k].rec, earned')
  BY HonestCopies DEF HonestOld
<1>2. QED
  BY <1>1 DEF HInv, EveryCopy, HonestNow, HonestOld, network

\* The learner's steps keep all copies honest.
LEMMA LearnerHonest ==
  ASSUME TInv, HInv, NEW d \in Devices, Learner(d) \/ TryAgain(d)
  PROVE  HInv'
<1>1. earned \subseteq earned'
  BY DEF Learner, OpenLesson, LeaveLesson, EnterGate, Step, LeaveGate, SayIt, HearPass, HearMiss, TryAgain,
         TypeIt, Skip, StartOver
<1>2. HonestOld
  BY <1>1, OldStaysHonest
<1>3. /\ view \in [Devices -> Progress] /\ said \in [Devices -> Progress]
      /\ queue \in [Devices -> Seq(Request)] /\ answers \in [Devices -> Seq(Answer)]
  BY DEF TInv, TypeOK
<1>4. gate[d] # 0 => gate[d] \in Sentences
  BY LearnAssumption DEF TInv, TypeOK, Sentences
<1>5. CASE OpenLesson(d)
  <2>1. Read("first") \in Request /\ Read("first").rec = Missing
    BY RequestTypes DEF Readers
  <2>2. \A k \in DOMAIN Append(queue[d], Read("first")) :
          \/ Append(queue[d], Read("first"))[k].rec = Missing
          \/ \E j \in DOMAIN queue[d] : Append(queue[d], Read("first"))[k].rec = queue[d][j].rec
    BY <1>3, <2>1, AppendElements
  <2>3. QED
    BY <1>2, <1>3, <1>5, <2>2, QuietHonest DEF OpenLesson
<1>6. CASE LeaveLesson(d)
  <2>1. \A k \in DOMAIN Unheard(queue[d]) : k \in DOMAIN queue[d] /\ Unheard(queue[d])[k].rec = queue[d][k].rec
    BY <1>3, UnheardUnawaited DEF Copied
  <2>2. \A k \in DOMAIN Unheard(answers[d]) : k \in DOMAIN answers[d] /\ Unheard(answers[d])[k].rec = answers[d][k].rec
    BY <1>3, UnheardUnawaited DEF Copied
  <2>3. QED
    BY <1>2, <1>3, <1>6, <2>1, <2>2, QuietHonest DEF LeaveLesson, Show
<1>7. ASSUME UNCHANGED <<store, network, view, queue, answers, legacy>>,
             \/ said' = said
             \/ said' = [said EXCEPT ![d] = EmptyProgress]
             \/ said' = [said EXCEPT ![d] = view[d]]
      PROVE  HInv'
  BY <1>2, <1>3, <1>7, QuietHonest
<1>8. ASSUME NEW i \in Sentences, EnterGate(d, i) \/ Step(d, i) PROVE HInv'
  BY <1>7, <1>8 DEF EnterGate, Step, Show
<1>9. CASE LeaveGate(d) \/ SayIt(d) \/ HearMiss(d) \/ TryAgain(d)
  BY <1>7, <1>9 DEF LeaveGate, SayIt, HearMiss, TryAgain, Show, Settle
<1>10. CASE HearPass(d)
  <2>1. gate[d] \in Sentences /\ gate[d] \in earned'
    BY <1>4, <1>10 DEF HearPass, Settle, TInv
  <2>2. Pass(said[d], gate[d], FALSE) \in Progress /\ Honest(Pass(said[d], gate[d], FALSE), earned')
    BY <1>2, <1>3, <2>1, ProgressTypes, HonestPass DEF HonestOld
  <2>3. QED
    BY <1>2, <1>3, <1>10, <2>2, WriteHonest DEF HearPass, Settle
<1>11. CASE TypeIt(d)
  <2>1. gate[d] \in Sentences /\ gate[d] \in earned'
    BY <1>4, <1>11 DEF TypeIt
  <2>2. Pass(view[d], gate[d], FALSE) \in Progress /\ Honest(Pass(view[d], gate[d], FALSE), earned')
    BY <1>2, <1>3, <2>1, ProgressTypes, HonestPass DEF HonestOld
  <2>3. QED
    BY <1>2, <1>11, <2>2, WriteHonest DEF TypeIt
<1>12. CASE Skip(d)
  <2>1. gate[d] \in Sentences
    BY <1>4, <1>12 DEF Skip
  <2>2. Pass(view[d], gate[d], TRUE) \in Progress /\ Honest(Pass(view[d], gate[d], TRUE), earned')
    BY <1>2, <1>3, <1>12, <2>1, ProgressTypes, HonestSkip DEF HonestOld, Skip
  <2>3. QED
    BY <1>2, <1>3, <1>12, <2>2, WriteHonest DEF Skip, Show
<1>13. CASE StartOver(d)
  <2>1. EmptyProgress \in Progress /\ Honest(EmptyProgress, earned')
    BY ProgressTypes, HonestCopies
  <2>2. QED
    BY <1>2, <1>13, <2>1, WriteHonest DEF StartOver
<1>14. QED
  BY <1>5, <1>6, <1>8, <1>9, <1>10, <1>11, <1>12, <1>13 DEF Learner

\* So do the browser's.
LEMMA BrowserHonest ==
  ASSUME TInv, HInv, NEW d \in Devices, Browser(d)
  PROVE  HInv'
<1>1. earned' = earned
  BY DEF Browser, Perform, Migrate, Deliver
<1>2. HonestOld
  BY <1>1, OldStaysHonest
<1>3. /\ view \in [Devices -> Progress] /\ store \in [Devices -> Record]
      /\ queue \in [Devices -> Seq(Request)] /\ answers \in [Devices -> Seq(Answer)]
      /\ legacy \in [Devices -> Progress \cup {NoLegacy}]
  BY DEF TInv, TypeOK
<1>4. CASE Perform(d)
  <2> DEFINE r == Head(queue[d])
  <2>1. /\ r \in Request /\ Honest(r.rec, earned')
        /\ \A k \in DOMAIN Tail(queue[d]) : Honest(Tail(queue[d])[k].rec, earned')
    BY <1>2, <1>3, <1>4, TailElements DEF Perform, HonestOld
  <2>2. ASSUME NEW a \in Record, Honest(a, earned')
        PROVE  \A k \in DOMAIN Append(answers[d], [rec |-> a, for |-> r.for]) :
                 Honest(Append(answers[d], [rec |-> a, for |-> r.for])[k].rec, earned')
    <3>1. [rec |-> a, for |-> r.for] \in Answer /\ [rec |-> a, for |-> r.for].rec = a
      BY <2>1 DEF Answer, Request
    <3>2. answers[d] \in Seq(Answer) /\ \A k \in DOMAIN answers[d] : Honest(answers[d][k].rec, earned')
      BY <1>2, <1>3 DEF HonestOld
    <3>3. QED
      BY <2>2, <3>1, <3>2, HonestAppend
  <2>3. r.rec \in Record /\ r.op \in {"read", "put", "move"}
    BY <2>1 DEF Request
  <2> HIDE DEF r
  <2>4. \A e \in Devices : Honest(store'[e], earned') /\ (legacy'[e] = NoLegacy \/ Honest(legacy'[e], earned'))
    BY <1>2, <1>3, <1>4, <2>1 DEF Perform, HonestOld, r
  <2>5. \A e \in Devices : \A k \in DOMAIN answers'[e] : Honest(answers'[e][k].rec, earned')
    <3>1. CASE r.op = "put"
      BY <1>2, <1>4, <3>1 DEF Perform, HonestOld, r
    <3>2. CASE r.op = "move"
      <4>1. answers' = [answers EXCEPT ![d] = Append(@, [rec |-> r.rec, for |-> r.for])]
        BY <1>4, <3>2 DEF Perform, r
      <4>2. \A k \in DOMAIN answers'[d] : Honest(answers'[d][k].rec, earned')
        BY <1>3, <2>1, <2>2, <2>3, <4>1
      <4>3. QED
        BY <1>2, <1>3, <4>1, <4>2 DEF HonestOld
    <3>3. CASE r.op = "read"
      <4>1. answers' = [answers EXCEPT ![d] = Append(@, [rec |-> store[d], for |-> r.for])]
        BY <1>4, <3>3 DEF Perform, r
      <4>2. store[d] \in Record /\ Honest(store[d], earned')
        BY <1>2, <1>3 DEF HonestOld
      <4>3. \A k \in DOMAIN answers'[d] : Honest(answers'[d][k].rec, earned')
        BY <1>3, <2>2, <4>1, <4>2
      <4>4. QED
        BY <1>2, <1>3, <4>1, <4>3 DEF HonestOld
    <3>4. QED
      BY <2>3, <3>1, <3>2, <3>3
  <2>6. \A e \in Devices : \A k \in DOMAIN queue'[e] : Honest(queue'[e][k].rec, earned')
    BY <1>2, <1>3, <1>4, <2>1 DEF Perform, HonestOld
  <2>7. UNCHANGED <<network, screen, view>>
    BY <1>4 DEF Perform
  <2>8. QED
    BY <1>2, <2>4, <2>5, <2>6, <2>7 DEF HInv, EveryCopy, HonestNow, HonestOld, network, screen
<1>5. ASSUME answers[d] # <<>>
      PROVE  /\ Head(answers[d]) \in Answer /\ Honest(Head(answers[d]).rec, earned')
             /\ \A k \in DOMAIN Tail(answers[d]) : Honest(Tail(answers[d])[k].rec, earned')
  BY <1>2, <1>3, <1>5, TailElements DEF HonestOld
<1>6. CASE Migrate(d)
  <2> DEFINE f == Head(answers[d]).for
  <2>1. f \in Readers
    BY <1>5, <1>6 DEF Migrate, Answer
  <2>2. PICK s \in Now(d) : queue' = [queue EXCEPT ![d] = Append(@, Move(Stamped(legacy[d], s), f))]
    BY <1>6 DEF Migrate
  <2>3. /\ Move(Stamped(legacy[d], s), f) \in Request
        /\ Honest(Move(Stamped(legacy[d], s), f).rec, earned')
    <3>1. legacy[d] \in Progress /\ Honest(legacy[d], earned') /\ s \in Nat
      BY <1>2, <1>3, <1>6, NowType DEF HonestOld, Migrate
    <3>2. Stamped(legacy[d], s) \in Record /\ Honest(Stamped(legacy[d], s), earned')
      BY <3>1, ProgressTypes, HonestCopies
    <3>3. QED
      BY <2>1, <3>2, RequestTypes
  <2>4. \A k \in DOMAIN queue'[d] : Honest(queue'[d][k].rec, earned')
    <3>1. queue[d] \in Seq(Request) /\ \A k \in DOMAIN queue[d] : Honest(queue[d][k].rec, earned')
      BY <1>2, <1>3 DEF HonestOld
    <3>2. QED
      BY <1>3, <2>2, <2>3, <3>1, HonestAppend
  <2>5. \A e \in Devices : e # d => queue'[e] = queue[e] /\ answers'[e] = answers[e]
    BY <1>3, <1>6, <2>2 DEF Migrate
  <2>6. answers'[d] = Tail(answers[d]) /\ answers[d] # <<>> /\ UNCHANGED <<store, network, screen, view, legacy>>
    BY <1>3, <1>6 DEF Migrate
  <2>7. QED
    BY <1>2, <1>5, <2>4, <2>5, <2>6 DEF HInv, EveryCopy, HonestNow, HonestOld, network, screen
<1>7. CASE Deliver(d)
  <2>1. \A e \in Devices : Honest(view'[e], earned')
    BY <1>2, <1>3, <1>5, <1>7, HonestCopies DEF Deliver, HonestOld
  <2>2. \A e \in Devices : e # d => answers'[e] = answers[e]
    BY <1>3, <1>7 DEF Deliver
  <2>3. answers'[d] = Tail(answers[d]) /\ answers[d] # <<>> /\ UNCHANGED <<store, network, screen, queue, legacy>>
    BY <1>3, <1>7 DEF Deliver
  <2>4. QED
    BY <1>2, <1>5, <2>1, <2>2, <2>3 DEF HInv, EveryCopy, HonestNow, HonestOld, network, screen
<1>8. QED
  BY <1>4, <1>6, <1>7 DEF Browser

\* And the network's.
LEMMA NetworkHonest ==
  ASSUME TInv, HInv, NEW d \in Devices, Network(d) \/ Lose(d)
  PROVE  HInv'
<1>1. earned' = earned
  BY DEF Network, Export, Serve, Merge, Lose
<1>2. HonestOld
  BY <1>1, OldStaysHonest
<1>3. store \in [Devices -> Record] /\ sync \in [Devices -> Sync] /\ queue \in [Devices -> Seq(Request)]
  BY DEF TInv, TypeOK
<1>4. ASSUME UNCHANGED <<store, screen, view, queue, answers, legacy>>, Honest(server', earned'),
             \A e \in Devices : Honest(sync'[e].rec, earned')
      PROVE  HInv'
  BY <1>2, <1>4 DEF HInv, EveryCopy, HonestNow, HonestOld, screen
<1>5. CASE Export(d)
  <2>1. \A e \in Devices : Honest(sync'[e].rec, earned')
    BY <1>2, <1>3, <1>5 DEF Export, HonestOld
  <2>2. QED
    BY <1>2, <1>4, <1>5, <2>1 DEF Export, HonestOld
<1>6. CASE Serve(d)
  <2>1. Honest(server', earned')
    BY <1>2, <1>6, HonestCopies DEF Serve, HonestOld
  <2>2. \A e \in Devices : Honest(sync'[e].rec, earned')
    BY <1>2, <1>3, <1>6, <2>1 DEF Serve, HonestOld
  <2>3. QED
    BY <1>4, <1>6, <2>1, <2>2 DEF Serve
<1>7. CASE Lose(d)
  <2>1. \A e \in Devices : Honest(sync'[e].rec, earned')
    BY <1>2, <1>3, <1>7, HonestCopies DEF Lose, HonestOld
  <2>2. QED
    BY <1>2, <1>4, <1>7, <2>1 DEF Lose, HonestOld
<1>8. CASE Merge(d)
  <2>1. \A e \in Devices : Honest(store'[e], earned') /\ Honest(sync'[e].rec, earned')
    BY <1>2, <1>3, <1>8, HonestCopies DEF Merge, HonestOld
  <2>2. Read("elsewhere") \in Request /\ Honest(Read("elsewhere").rec, earned')
    BY RequestTypes, HonestCopies DEF Readers
  <2>3. \A k \in DOMAIN Append(queue[d], Read("elsewhere")) :
          Honest(Append(queue[d], Read("elsewhere"))[k].rec, earned')
    <3>1. queue[d] \in Seq(Request) /\ \A k \in DOMAIN queue[d] : Honest(queue[d][k].rec, earned')
      BY <1>2, <1>3 DEF HonestOld
    <3>2. QED
      BY <2>2, <3>1, HonestAppend
  <2>4. \A e \in Devices : \A k \in DOMAIN queue'[e] : Honest(queue'[e][k].rec, earned')
    BY <1>2, <1>3, <1>8, <2>3 DEF Merge, HonestOld
  <2>5. UNCHANGED <<server, screen, view, answers, legacy>>
    BY <1>8 DEF Merge
  <2>6. QED
    BY <1>2, <2>1, <2>4, <2>5 DEF HInv, EveryCopy, HonestNow, HonestOld, screen
<1>9. QED
  BY <1>5, <1>6, <1>7, <1>8 DEF Network

\* Hence every step.
LEMMA StepHonest == TInv /\ HInv /\ [Next]_vars => HInv'
<1> SUFFICES ASSUME TInv, HInv, [Next]_vars PROVE HInv'
  OBVIOUS
<1>1. CASE Next
  BY <1>1, LearnerHonest, BrowserHonest, NetworkHonest DEF Next
<1>2. CASE UNCHANGED vars
  BY <1>2 DEF HInv, EveryCopy, HonestNow, vars, network, screen
<1>3. QED
  BY <1>1, <1>2

\* Every copy is always honest.
LEMMA AlwaysHonest == Spec => []HInv
BY InitType, StepType, InitHonest, StepHonest, PTL DEF Spec

\* No copy of a lesson's progress ever counts more skips than the gate allows,
\* whatever is merged, reread, migrated or written from an older screen.
THEOREM SkipsAlwaysBounded == Spec => []SkipsBounded
<1>1. HInv => SkipsBounded
  BY DEF HInv, EveryCopy, HonestNow, Honest, SkipsBounded, WithinSkips
<1>2. QED
  BY <1>1, AlwaysHonest, PTL

\* No copy ever opens more sentences than were said or typed well, but for its skips.
THEOREM UnlocksAlwaysEarned == Spec => []UnlocksAreEarned
<1>1. HInv => UnlocksAreEarned
  BY DEF HInv, EveryCopy, HonestNow, Honest, UnlocksAreEarned, Earned
<1>2. QED
  BY <1>1, AlwaysHonest, PTL
=============================================================================
