------------------------------ MODULE Learner ------------------------------
(***************************************************************************)
(* The App as the learner uses it: one page at a time, the library, a      *)
(* lesson or the review deck, over the deck and the progress that the App  *)
(* keeps whatever page is shown.  A call that a page has started goes on   *)
(* when it is left.                                                        *)
(***************************************************************************)
EXTENDS Quiz, Saves, Library

CONSTANT Scenes \* bound: what of the App is used, the lessons that there are, the
                \* views and modes they are practised in, the answers given to quizzes,
                \* the saved cards and their version, the cards saved from a lesson, goals,
                \* days and the days before

Parts == {"lapses", "reloads", "saves", "review", "reopens", "refreshes", "speech", "lists"}

ASSUME LearnerAssumption ==
  /\ Scenes \subseteq [parts : SUBSET Parts, lessons : SUBSET Lessons, views : SUBSET Views, modes : SUBSET ShadowModes,
                       answers : SUBSET Answers, cards : SUBSET Cards, version : 0..MaxVersion, offers : SUBSET Cards,
                       goals : SUBSET Goals, days : Days, pasts : SUBSET Pasts]
  /\ Lessons = LibraryLessons \cup OwnLessons /\ NoLesson \notin Lessons

VARIABLE scene \* one of Scenes

pageVars == <<visit, libraryVars, scene>>
vars == <<progressVars, reviewVars, savesVars, pageVars>>

Uses(part) == part \in scene.parts
SceneLessons == scene.lessons \cup OwnLessons
ScenePages   == {Page("library")} \cup (IF Uses("review") THEN {Page("review")} ELSE {})
                                  \cup (IF Uses("lists") THEN {Page("manage"), Page("about")} ELSE {})

Init ==
  /\ scene \in Scenes
  /\ ProgressInit /\ goal \in scene.goals /\ store.past \in scene.pasts
  /\ LibraryInit(IF Uses("lists") THEN ScenePages \cup {LessonRoute(id) : id \in scene.lessons} ELSE {Page("library")},
                 OwnLessons \cap scene.lessons, ~Uses("lists"))
  /\ VisitInit /\ SavesInit /\ ReviewInit(scene.cards, scene.version, Uses("speech"), nav.route.view = "review")

-----------------------------------------------------------------------------
(* Calls of useProgress, and what their callers make of the answers. *)

Commit(j) == (CommitPractice(j) \/ CommitComplete(j)) /\ UNCHANGED <<visit, reviewVars>>
ReadProgress(j) == Read(j) /\ UNCHANGED <<visit, reviewVars>>

RestOfReview == UNCHANGED <<cards, deck, fetches, reviewing, revealed, overlapped, recap>>

WriteFails(j) ==
  /\ VisitFailWrite(j)
  /\ ratings' = Recorded(j)
  /\ RestOfReview /\ AfterRender

LandProgress(j) ==
  /\ VisitLand(j)
  /\ ratings' = Recorded(j)
  /\ RestOfReview /\ AfterRender

ReadFails(j) ==
  /\ VisitFailRead(j)
  /\ ratings' = Recorded(j)
  /\ RestOfReview /\ AfterRender

ProgressCalls ==
  /\ \E j \in Slots :
       Commit(j) \/ ReadProgress(j) \/ LandProgress(j) \/ (Uses("lapses") /\ (WriteFails(j) \/ ReadFails(j)))
  /\ UNCHANGED <<savesVars, libraryVars, scene>>

-----------------------------------------------------------------------------
(* The page on screen follows the route, the lists and the own lessons. *)

\* The buttons of a lesson that is left, of the panel of another word, and those
\* of the sentences as the cards of the view change.
ButtonsFollow ==
  /\ saves' = Unmounted((IF visit'.lesson # visit.lesson THEN {"card", "panel", "summary"} ELSE {})
                          \cup (IF Panel' # Panel THEN {"panel"} ELSE {})
                          \cup (IF (visit'.view = "shadow") # (visit.view = "shadow") THEN {"card"} ELSE {}))
  /\ UNCHANGED toasts

PagesFollow ==
  /\ VisitFollows(LessonOnScreen')
  /\ ReviewFollows(nav'.route.view = "review")
  /\ ButtonsFollow

\* A step of the App that renders it, and one of a list or a lesson alone.
AppStep ==
  /\ \/ \E page \in ScenePages : GoTo(page)
     \/ Uses("lists") /\ \E row \in {ImportTitle, YourData} : GoToRow(row)
     \/ \E id \in SceneLessons : OpenLesson(id)
     \/ AllAttempted(visit) /\ NextLesson /\ nav'.route.id \in SceneLessons
     \/ Continued \/ Back \/ Follow
     \/ \E i \in OwnCalls : LandOwn(i)
  /\ Render(shown, FALSE) /\ UNCHANGED <<day, store, goal, lapsed, scene>>
  /\ PagesFollow

ListStep ==
  /\ \E state \in {"loaded", "failed"} : LibraryLoads(state) \/ LessonLoads(state)
  /\ UNCHANGED <<day, at, store, shown, goal, announced, lapsed, scene>>
  /\ PagesFollow

Elsewhere ==
  /\ \/ RetryLibrary
     \/ Uses("lists") /\ \E url \in ScenePages \cup {LessonRoute(id) : id \in SceneLessons} \cup {Malformed} : ChangeUrl(url)
     \/ \E id \in OwnLessons : Create(id) \/ Delete(id)
     \/ \E i \in OwnCalls : CommitWrite(i) \/ FailOwnWrite(i) \/ ReadOwn(i)
  /\ UNCHANGED <<progressVars, reviewVars, savesVars, visit, scene>>

-----------------------------------------------------------------------------
(* In a lesson, in the review deck, and around them. *)

Lesson ==
  /\ \/ RetrySave
     \/ /\ "shadow" \in scene.views
        /\ \E s \in Sentences :
             \/ \E mode \in scene.modes : Shadow(s, mode)
             \/ \E word \in CardWords : CardOf(s, word) \in scene.offers /\ SelectWord(s, word)
     \/ \E view \in scene.views : ChooseView(view)
     \/ \E s \in Sentences :
          TryAgain(s) \/ \E answer \in scene.answers : CheckDictation(s, answer) \/ CheckBlank(s, answer)
  /\ ButtonsFollow
  /\ UNCHANGED <<reviewVars, libraryVars, scene>>

DeckRefreshes ==
  /\ (Uses("refreshes") /\ Refresh) \/ \E k \in Fetches : ReadCards(k)
  /\ UNCHANGED <<savesVars, pageVars>>

DeckLands ==
  /\ \E k \in Fetches : (LandCards(k) \/ FailCards(k)) /\ SaveEnds(k)
  /\ UNCHANGED pageVars

Ratings ==
  /\ \/ \E i \in Raters : SaveReview(i) \/ FailReview(i)
     \/ \E c \in Cards : ChangeCard(c, IF Uses("speech") THEN MaxVersion + 1 ELSE MaxVersion)
  /\ UNCHANGED <<savesVars, pageVars>>

\* The cards whose SaveToReview is on screen.
Buttons == [summary |-> Summary, panel |-> Panel,
            card |-> IF visit.lesson = NoLesson THEN {} ELSE {CardOfSentence(s) : s \in Sentences}]

\* Bound: a card is saved once the practice is recorded.
SaveButtons ==
  /\ \/ /\ Uses("saves") /\ Free = Slots
        /\ \E button \in DOMAIN Buttons : \E c \in Buttons[button] \cap scene.offers : Toggle(button, c)
     \/ \E toast \in toasts : Undo(toast)
     \/ \E i \in Savers : CommitSave(i) \/ FailSave(i)
  /\ UNCHANGED pageVars

\* Bound: a page opened anew rates during the rating of one that was left only
\* where "reopens" is used.
ReviewPage ==
  /\ \/ Reveal \/ Listen \/ SpeechEnds \/ ListenFirst \/ SayIt \/ SaidIt \/ SayItAgain
     \/ \E c \in Cards : RecapListen(c)
     \/ /\ Uses("reopens") \/ \A i \in Raters : ratings[i] = NoRating
        /\ \E again \in BOOLEAN : Rate(again)
  /\ UNCHANGED <<savesVars, pageVars>>

\* The daily goal of the Today card.
GoalPicker == nav.route = Page("library") /\ \E g \in scene.goals : ChooseGoal(g)

Background ==
  /\ \/ GoalPicker
     \/ Uses("reloads") /\ Reload
     \/ day < scene.days /\ Midnight
  /\ UNCHANGED <<reviewVars, savesVars, pageVars>>

Next ==
  \/ ProgressCalls \/ AppStep \/ ListStep \/ Elsewhere \/ Lesson
  \/ DeckRefreshes \/ DeckLands \/ Ratings \/ SaveButtons \/ ReviewPage \/ Background

Spec == Init /\ [][Next]_vars
-----------------------------------------------------------------------------

TypeOK ==
  /\ ProgressTypeOK /\ QuizTypeOK /\ SavesTypeOK /\ LibraryTypeOK
  /\ visit.lesson = LessonOnScreen
  /\ reviewing <=> nav.route.view = "review"

\* What the limit bounds: the New cards that each day's practice introduced.
WithinLimit == \A d \in Days : store.new[d] <= NEW_CARDS_PER_DAY

\* "At most NEW_CARDS_PER_DAY - introducedToday New cards" are in the queue
\* (capNewCards), and a rating ends only once the day's count on screen knows
\* of it (rate awaits recordPractice): no day introduces more cards than the
\* limit, unless a write or a refresh of the progress lapsed, or a page opened
\* anew rated a New card during the rating of another.
CapHolds == ~lapsed /\ ~overlapped => WithinLimit

\* "A new turn or Show answer drops" a Say it attempt, and a turn cancels what
\* was spoken of the one before (ReviewDeck, useSayIt): whatever the deck does
\* underneath, only the card on screen, or once none is due a card of the recap,
\* is spoken, and listened for while its answer is hidden, and nothing once the
\* page is left.
VoiceFollowsTurn ==
  IF reviewing
  THEN /\ voice.spoken # NoTurn => voice.spoken = Turn \/
                                 (Turn = NoTurn /\ \E c \in recap : voice.spoken = RecapTurn(c))
       /\ voice.say = "listening" => voice.turn = Turn /\ ~ShowAnswer
  ELSE voice.spoken = NoTurn /\ voice.say = "idle"

\* isRating is released: a rating that was not answered yet, of the page on screen
\* or of one that was left, waits for a refresh or a recording that is under way,
\* superseded or not, and that no other rating waits for.
RatingIsAnswered ==
  \A i \in Raters :
    /\ ratings[i].pc = "fetching" =>
         fetches[ratings[i].fetch].by = "rating" /\ \A r \in Raters \ {i} : ~Awaits(r, ratings[i].fetch)
    /\ ratings[i].pc = "recording" =>
         /\ jobs[ratings[i].job].kind = "rating"
         /\ \A r \in Raters \ {i} : ~(ratings[r].pc = "recording" /\ ratings[r].job = ratings[i].job)
=============================================================================
