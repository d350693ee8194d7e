------------------------------ MODULE Progress ------------------------------
(***************************************************************************)
(* What the device knows of the learner's practice: the counts of each day *)
(* and the completed lessons in IndexedDB (progressStore), what the screen *)
(* holds of them (useProgress), and the daily goal (useDailyGoal).         *)
(*                                                                         *)
(* Every call of useProgress is a job: a write, if it has one, and then a  *)
(* refresh, which reads the store at some instant and lands at a later     *)
(* one.  Refreshes overlap and nothing orders their landings.  Who called, *)
(* a lesson or the review deck, is the subject of LessonVisit and Review.  *)
(***************************************************************************)
EXTENDS Integers, SequencesExt

CONSTANTS
  Lessons,    \* lesson ids
  Goals,      \* DAILY_GOALS
  Slots,      \* bound: jobs under way at once
  MaxActions, \* bound: practice recorded
  LastDay,    \* bound: days
  Pasts       \* bound: the days before the first that were practised, 0 the last of them

ASSUME ProgressAssumption ==
  /\ Goals # {} /\ Goals \subseteq Nat \ {0}
  /\ IsFiniteSet(Slots) /\ Slots \subseteq Nat
  /\ MaxActions \in Nat /\ LastDay \in Nat \ {0}
  /\ \A past \in Pasts : past \subseteq Int /\ IsFiniteSet(past) /\ \A d \in past : d <= 0

Days == 1..LastDay
NoLesson == "none"
MAX_FREEZES == 2

VARIABLES
  day,       \* the local day
  at,        \* the day of the last render
  store,     \* actions and newCards of each day, the days before, the completed lessons
  shown,     \* the day's count, the practice days and the completed lessons on screen
  jobs,      \* calls under way
  goal,      \* the stored goal
  announced, \* "Daily goal met" has been announced
  lapsed     \* history: a count was not written or read, an older refresh landed last,
             \* or the goal was compared with a count that is not the present one

progressVars == <<day, at, store, shown, jobs, goal, announced, lapsed>>

Idle == [kind |-> "idle"]
Unread == [date |-> 1, actions |-> 0, new |-> 0, days |-> {}, done |-> {}]
\* kind: "practice" of a lesson, "rating", "complete" of a lesson, "reload".
\* owned: the component that awaits the call is still mounted.
Job(kind, new, lesson) ==
  [kind |-> kind, pc |-> IF kind = "reload" THEN "reading" ELSE "saving", new |-> new,
   lesson |-> lesson, date |-> day, got |-> 0, seen |-> Unread, owned |-> TRUE]

Free == {j \in Slots : jobs[j] = Idle}
Running(kind) == {j \in Slots : jobs[j].kind = kind}
Starting(js, job) == [js EXCEPT ![Min({j \in Slots : js[j] = Idle})] = job]

PracticeDays == store.past \cup {d \in Days : store.actions[d] > 0}
Snapshot == [date |-> day, actions |-> store.actions[day], new |-> store.new[day],
             days |-> PracticeDays, done |-> store.done]

\* A count loaded before local midnight belongs to another day.
Today(s, d, n) == IF s.date = d THEN n ELSE 0
ActionsToday  == Today(shown, at, shown.actions)
NewCardsToday == Today(shown, at, shown.new)
GoalMet == ActionsToday >= goal

\* The walk of streakState: every 7th day of a streak earns a freeze, a single
\* missed day spends one.
WalkDay(s, d) ==
  LET spends == s.last = d - 2 /\ s.freezes > 0
      run    == IF s.last = d - 1 \/ spends THEN s.streak + 1 ELSE 1
      held   == IF spends THEN s.freezes - 1 ELSE s.freezes
  IN [streak |-> run, last |-> d, freezes |-> IF run % 7 = 0 THEN Min({MAX_FREEZES, held + 1}) ELSE held]

\* Each walk[d] holds the one state after the days up to d.
Walked(days, today) ==
  LET since == Min(days \cup {today})
      walk[d \in since - 1..Max(days \cup {today})] ==
        IF d < since THEN {[streak |-> 0, freezes |-> 0, last |-> today - 3]}
        ELSE IF d \in days THEN {WalkDay(s, d) : s \in walk[d - 1]} ELSE walk[d - 1]
  IN CHOOSE s \in walk[Max(days \cup {today})] : TRUE

\* mutant of StreakState: the freeze is spent only as the learner practises again
StreakStateUnspent(days, today) ==
  LET w == Walked(days, today)
      kept == w.last >= today - 1 \/ (w.last = today - 2 /\ w.freezes > 0)
  IN [streak |-> IF kept THEN w.streak ELSE 0, freezes |-> w.freezes]

\* A freeze that keeps the streak until now shows as spent.
StreakState(days, today) ==
  LET w == Walked(days, today)
      spends == w.last = today - 2 /\ w.freezes > 0
  IN [streak  |-> IF w.last >= today - 1 \/ spends THEN w.streak ELSE 0,
      freezes |-> IF spends THEN w.freezes - 1 ELSE w.freezes]

\* The streak and the freezes of the Today card.
Streak == StreakState(shown.days, at)

ProgressInit ==
  /\ day = 1 /\ at = 1
  /\ store \in [actions : {[d \in Days |-> 0]}, new : {[d \in Days |-> 0]}, past : Pasts, done : {{}}]
  /\ shown = Snapshot
  /\ jobs = [j \in Slots |-> Idle]
  /\ goal \in Goals
  /\ announced = FALSE /\ lapsed = FALSE

\* The App renders s; an announcement ends when the goal is no longer met.
Render(s, reached) ==
  /\ shown' = s /\ at' = day
  /\ announced' = /\ announced \/ reached
                  /\ GoalMet => Today(s, day, s.actions) >= goal

\* The App renders again for another reason.
Rerender == Render(shown, FALSE) /\ UNCHANGED <<day, store, jobs, goal, lapsed>>

\* recordPractice: day and count in one transaction.
CommitPractice(j) ==
  /\ jobs[j].kind \in {"practice", "rating"} /\ jobs[j].pc = "saving"
  /\ LET d == jobs[j].date IN
     /\ store' = [store EXCEPT !.actions[d] = @ + 1, !.new[d] = @ + (IF jobs[j].new THEN 1 ELSE 0)]
     /\ jobs' = [jobs EXCEPT ![j].pc = "reading", ![j].new = FALSE, ![j].got = store.actions[d] + 1]
  /\ UNCHANGED <<day, at, shown, goal, announced, lapsed>>

\* markLessonComplete: only the put may fail.
CommitComplete(j) ==
  /\ jobs[j].kind = "complete" /\ jobs[j].pc = "saving"
  /\ store' = [store EXCEPT !.done = @ \cup {jobs[j].lesson}]
  /\ jobs' = [jobs EXCEPT ![j].pc = "reading"]
  /\ UNCHANGED <<day, at, shown, goal, announced, lapsed>>

\* A failed write ends the call: the header's storage line reports a practice, and
\* the lesson alone a completion.
FailWrite(j) ==
  /\ jobs[j].kind # "idle" /\ jobs[j].pc = "saving"
  /\ IF jobs[j].kind = "complete" THEN UNCHANGED <<at, shown, announced, lapsed>>
                                  ELSE Render(shown, FALSE) /\ lapsed' = TRUE
  /\ jobs' = [jobs EXCEPT ![j] = Idle]
  /\ UNCHANGED <<day, store, goal>>

Read(j) ==
  /\ jobs[j].kind # "idle" /\ jobs[j].pc = "reading"
  /\ jobs' = [jobs EXCEPT ![j].pc = "landing", ![j].seen = Snapshot]
  /\ UNCHANGED <<day, at, store, shown, goal, announced, lapsed>>

\* mutant of Reached: a save of yesterday announces too
ReachedAnyDay(j) == jobs[j].kind \in {"practice", "rating"} /\ jobs[j].got = goal

\* App's recordPractice: a save announces if its committed count, of today,
\* is the goal.
Reached(j) ==
  jobs[j].kind \in {"practice", "rating"} /\ jobs[j].date = day /\ jobs[j].got = goal

\* s was read before what is on screen.
Older(s) ==
  \/ s.date < shown.date \/ (s.date = shown.date /\ s.actions < shown.actions)
  \/ ~(shown.done \subseteq s.done)

\* The refresh lands and the call resolves; its slot is the caller's.
Land(j) ==
  /\ jobs[j].kind # "idle" /\ jobs[j].pc = "landing"
  /\ Render(jobs[j].seen, Reached(j))
  /\ lapsed' = (lapsed \/ Older(jobs[j].seen))
  /\ UNCHANGED <<day, store, goal>>

\* One of its reads fails: the screen keeps what it had.
FailRead(j) ==
  /\ jobs[j].kind # "idle" /\ jobs[j].pc = "reading"
  /\ Render(shown, Reached(j))
  /\ jobs' = [jobs EXCEPT ![j] = Idle]
  /\ lapsed' = TRUE
  /\ UNCHANGED <<day, store, goal>>

\* After a sync that changed something.
Reload ==
  /\ Free # {} /\ Running("reload") = {}
  /\ jobs' = Starting(jobs, Job("reload", FALSE, NoLesson))
  /\ UNCHANGED <<day, at, store, shown, goal, announced, lapsed>>

\* chooseGoal, with the count of the last render.  It is a lapse on a screen not
\* rendered since midnight, and between a save's commit and its answer when the
\* screen has counted the save already.
ChooseGoal(g) ==
  /\ g # goal
  /\ goal' = g
  /\ at' = day
  /\ announced' = /\ announced \/ (~GoalMet /\ ActionsToday >= g)
                  /\ GoalMet => Today(shown, day, shown.actions) >= g
  /\ lapsed' = (\/ lapsed \/ at # day
               \/ \E j \in Running("practice") \cup Running("rating") : jobs[j].got \in 1..ActionsToday)
  /\ UNCHANGED <<day, store, shown, jobs>>

Midnight ==
  /\ day < LastDay
  /\ day' = day + 1
  /\ UNCHANGED <<at, store, shown, jobs, goal, announced, lapsed>>

ProgressTypeOK ==
  /\ day \in Days /\ at \in 1..day
  /\ store \in [actions : [Days -> Nat], new : [Days -> Nat], past : Pasts, done : SUBSET Lessons]
  /\ LET Seen == [date : 1..day, actions : Nat, new : Nat, days : SUBSET PracticeDays, done : SUBSET store.done] IN
     /\ shown \in Seen
     /\ \A j \in Slots : jobs[j] # Idle =>
          jobs[j] \in [kind : {"practice", "rating", "complete", "reload"}, new : BOOLEAN,
                       pc : {"saving", "reading", "landing"}, lesson : Lessons \cup {NoLesson},
                       date : 1..day, got : Nat, seen : Seen, owned : BOOLEAN]
  /\ goal \in Goals /\ announced \in BOOLEAN /\ lapsed \in BOOLEAN

\* Saves "commit one at a time, so exactly one committed count equals the
\* goal, however saves overlap or fail" (useDailyGoal): once no call is under
\* way, the goal has been announced just when the day's practice on screen
\* meets it.  But for the lapses: a practice's write or a refresh failed, an older
\* refresh landed last, or a goal was chosen (ChooseGoal) on a screen not rendered
\* since midnight, or when the screen had counted a save not yet answered.
AnnouncedIffMet == Free = Slots /\ ~lapsed => (announced <=> GoalMet)

\* "Every 7th consecutive day earns a freeze (max 2 held); a single missed day
\* spends one freeze and keeps the streak" (streakState): what the Today card
\* shows is a promise.  The day's first practice adds a day to the streak and
\* takes no freeze; a day that passes costs nothing if it was practised, one
\* freeze if one is held and the day before was practised, and else the streak.
StreakMoves ==
  [][LET practised == at' = at /\ at \notin shown.days /\ shown'.days = shown.days \cup {at}
         passed    == at' = at + 1 /\ shown'.days = shown.days
         earned    == IF (Streak.streak + 1) % 7 = 0 THEN Min({MAX_FREEZES, Streak.freezes + 1}) ELSE Streak.freezes
     IN /\ practised => Streak' = [streak |-> Streak.streak + 1, freezes |-> earned]
        /\ passed => CASE at \in shown.days -> Streak' = Streak
                       [] at \notin shown.days /\ at - 1 \in shown.days /\ Streak.freezes > 0 ->
                            Streak' = [Streak EXCEPT !.freezes = @ - 1]
                       [] OTHER -> Streak'.streak = 0 /\ Streak'.freezes >= Streak.freezes]_progressVars
=============================================================================
