---------------------------- MODULE LessonVisit ----------------------------
(***************************************************************************)
(* One visit of a lesson (useLessonProgress): what was practised in it,    *)
(* the words its quizzes missed, and the completion it saves.  A visit is  *)
(* a mounted LessonDetail; its practice and its completion are jobs of     *)
(* Progress, which outlive it.                                             *)
(***************************************************************************)
EXTENDS Progress, Sequences

CONSTANTS
  Sentences,  \* of every lesson
  ShadowModes \* PracticeMode: how a sentence is practised in the shadow view

\* A lesson has a sentence (createUserLesson, the catalogue).
ASSUME VisitAssumption == Sentences # {}

\* The views of a lesson; a quiz is also the mode it practises a sentence in.
Quizzes == {"dictation", "blank"}
Views   == {"shadow"} \cup Quizzes

VARIABLE
  visit \* lesson, practised sentence and mode pairs, missed words, saveStarted,
        \* saveFailed, the view, the checked answer of each sentence's quiz, the
        \* selected word with its sentence

NoneChecked == [s \in Sentences |-> {}]
NoVisit == [lesson |-> NoLesson, practised |-> {}, missed |-> <<>>, started |-> FALSE, failed |-> FALSE,
            view |-> "shadow", checked |-> NoneChecked, selected |-> {}]

\* Attempting every sentence, in any mode, completes the lesson.
Attempted(v) == {pair[1] : pair \in v.practised}
AllAttempted(v) == v.lesson # NoLesson /\ Attempted(v) = Sentences

VisitInit == visit = NoVisit

(***************************************************************************)
(* The effect on allAttempted and completed: the save runs once per visit, *)
(* and not when the screen knows the lesson as complete.                   *)
(***************************************************************************)
SaveDue(v, done) == AllAttempted(v) /\ v.lesson \notin done /\ ~v.started
\* v and the jobs js after the effect.
WithSave(v, done, js) ==
  /\ visit' = [v EXCEPT !.started = @ \/ SaveDue(v, done)]
  /\ jobs' = IF SaveDue(v, done) THEN Starting(js, Job("complete", FALSE, v.lesson)) ELSE js

\* The calls of a visit go on without it, but nobody awaits them.
Disowned == [j \in Slots |-> IF jobs[j].kind = "complete" THEN [jobs[j] EXCEPT !.owned = FALSE] ELSE jobs[j]]

\* mutant of VisitFollows: the next visit starts with what this one practised
VisitFollowsKeeping(lesson) ==
  IF lesson = visit.lesson THEN UNCHANGED <<visit, jobs>>
  ELSE visit' = [visit EXCEPT !.lesson = lesson] /\ jobs' = Disowned

\* LessonDetail is keyed by its lesson: another lesson, or none, is on screen.
VisitFollows(lesson) ==
  IF lesson = visit.lesson THEN UNCHANGED <<visit, jobs>>
  ELSE visit' = [NoVisit EXCEPT !.lesson = lesson] /\ jobs' = Disowned

\* practice, by a handler that makes v of the visit: each sentence and mode
\* counts once per visit.
\* Bound: MaxActions, and room for the save and the completion.
Practice(v, s, mode) ==
  LET first == <<s, mode>> \notin v.practised IN
  /\ first => Cardinality(Free) >= 2 /\ store.actions[day] + Cardinality(Slots \ Free) < MaxActions
  /\ WithSave([v EXCEPT !.practised = @ \cup {<<s, mode>>}], shown.done,
              IF first THEN Starting(jobs, Job("practice", FALSE, v.lesson)) ELSE jobs)
  /\ UNCHANGED <<day, at, store, shown, goal, announced, lapsed>>

\* A recording or a pronunciation check.
Shadow(s, mode) ==
  /\ visit.lesson # NoLesson /\ visit.view = "shadow"
  /\ <<s, mode>> \notin visit.practised
  /\ Practice(visit, s, mode)

\* Try again, of the summary.
RetrySave ==
  /\ AllAttempted(visit) /\ visit.failed /\ Free # {}
  /\ jobs' = Starting(jobs, Job("complete", FALSE, visit.lesson))
  /\ UNCHANGED <<day, at, store, shown, goal, announced, lapsed, visit>>

\* mutant of Answered: a failed save is not remembered
AnsweredWell(j, failed) ==
  IF jobs[j].kind = "complete" /\ jobs[j].owned THEN [visit EXCEPT !.failed = FALSE] ELSE visit

\* What the visit makes of its own save.
Answered(j, failed) ==
  IF jobs[j].kind = "complete" /\ jobs[j].owned THEN [visit EXCEPT !.failed = failed] ELSE visit

VisitFailWrite(j) ==
  /\ FailWrite(j)
  /\ visit' = Answered(j, TRUE)

\* The landed refresh may run the effect, in the slot it leaves.
VisitLand(j) ==
  /\ Land(j)
  /\ WithSave(Answered(j, FALSE), jobs[j].seen.done, [jobs EXCEPT ![j] = Idle])

VisitFailRead(j) ==
  /\ FailRead(j)
  /\ visit' = Answered(j, FALSE)

VisitTypeOK ==
  /\ visit.lesson \in Lessons \cup {NoLesson}
  /\ visit.practised \subseteq Sentences \X (ShadowModes \cup Quizzes)
  /\ visit.started \in BOOLEAN /\ visit.failed \in BOOLEAN /\ visit.view \in Views
  /\ visit.lesson = NoLesson => visit = NoVisit

\* "The save runs once per visit; a failure waits for Try again, and a lesson
\* already complete is never saved again" (useLessonProgress): a lesson whose
\* sentences were all attempted is complete on this device, or its save is
\* under way, or the summary says that it failed.
CompletionNotForgotten ==
  AllAttempted(visit) /\ visit.lesson \notin store.done =>
    \/ visit.failed
    \/ \E j \in Running("complete") : jobs[j].owned /\ jobs[j].lesson = visit.lesson /\ jobs[j].pc = "saving"
=============================================================================
