--------------------------- MODULE Learner_proofs ---------------------------
(***************************************************************************)
(* Proofs about the App for every catalogue of lessons, deck, goal, limit, *)
(* number of days and number of overlapping calls.                         *)
(*                                                                         *)
(* LibraryInv is inductive by itself. AppInv joins what the properties of  *)
(* Progress, LessonVisit, Review and Saves need of one another. Each part  *)
(* has its own abstract step: StepIs of progress, VisitStep of a visit,    *)
(* CardsStep of the deck, CapStep of the cap. A step of Next is first      *)
(* shown to be an abstract step of each part, and the abstract steps, few  *)
(* and without the App's detail, are shown to keep the part's invariant.   *)
(* What the recursive definitions of the quizzes compute is Quiz_proofs'.  *)
(***************************************************************************)
EXTENDS Learner, Quiz_proofs, FiniteSetTheorems, TLAPS

-----------------------------------------------------------------------------
(* The library.                                                            *)

Routes == Pages \cup LessonRoutes
NavT   == [route : Routes, url : Routes \cup {Malformed},
           returnTo : LibraryLessons \cup OwnLessons \cup {NoId, ImportTitle, YourData},
           heading : BOOLEAN, last : LessonRoutes \cup {Page("none")}]
LoadT  == {"none", "loading", "loaded", "failed"}
ListsT == [library : LoadT, lesson : LoadT, instant : BOOLEAN]
OwnT   == [stored : SUBSET OwnLessons, created : SUBSET OwnLessons,
           state : {"loading", "loaded", "failed"}, lessons : SUBSET OwnLessons]
CallT  == [kind : {"load", "create", "delete"}, id : OwnLessons \cup {NoId}, pc : {"writing", "reading", "landing"},
           seen : SUBSET OwnLessons, failed : BOOLEAN, after : SUBSET OwnCalls, overtaken : BOOLEAN, mounted : BOOLEAN]

\* Lists are loaded by the views that show them; own lessons show once loaded.
Mount(n, l) == (l.library = "none" <=> n.route.view # "library") /\ (l.lesson = "none" <=> n.route.view # "lesson")
Listed(o) == o.state # "loaded" => o.lessons = {}

\* FocusTaken of given state; the focus of a heading is another.
Waits(n, l, o) == n.returnTo # NoId => n.route.view = "library" /\ ~Settled(l, o) /\ ~n.heading

LibraryTyped ==
  /\ nav \in NavT /\ lists \in ListsT /\ own \in OwnT /\ calls \in [OwnCalls -> {NoCall} \cup CallT]
  /\ Mount(nav, lists) /\ Listed(own) /\ Waits(nav, lists, own)
  /\ \A i \in OwnCalls : calls[i] # NoCall => (calls[i].failed => calls[i].seen = {}) /\ (calls[i].kind # "load" => calls[i].id \in OwnLessons)
                                              /\ (calls[i].kind = "load" => calls[i].pc # "writing")

\* What a route is.
LEMMA RouteFields ==
  ASSUME NEW r \in Routes
  PROVE  /\ r.view \in {"library", "review", "manage", "about", "lesson", "my"}
         /\ r.view = "my" => r.id \in OwnLessons /\ r \in LessonRoutes
         /\ r.view = "lesson" => r.id \in LibraryLessons /\ r \in LessonRoutes
         /\ r.view \notin {"my", "lesson"} => r.id = NoId /\ r = Page(r.view)
<1>1. CASE r \in Pages
  BY <1>1 DEF Pages, Page
<1>2. CASE r \in LessonRoutes
  BY <1>2, LibraryAssumption DEF LessonRoutes, LessonRoute
<1>3. QED
  BY <1>1, <1>2 DEF Routes

\* n is what a change makes of the navigation, whose return focus waits as it
\* did, or is about to be given.
Focuses(n, l, o, landed) ==
  n.returnTo # NoId =>
    \/ n.route.view = "manage" /\ n.returnTo \in {ImportTitle, YourData}
    \/ n.route.view = "library" /\ (landed \/ nav.route.view # "library" \/ l.library # lists.library
                                      \/ (nav.returnTo # NoId /\ o.state = own.state))

\* Whatever the change, the page that follows is one that the types allow, and
\* a return focus waits only for a list.
LEMMA RenderedKeeps ==
  ASSUME LibraryTyped, NEW n \in NavT, NEW l \in ListsT, NEW o \in OwnT, NEW landed \in BOOLEAN,
         Listed(o), l.library = "none" <=> lists.library = "none", l.lesson = "none" <=> lists.lesson = "none",
         Focuses(n, l, o, landed), Rendered(n, l, o, landed)
  PROVE  /\ nav' \in NavT /\ lists' \in ListsT /\ own' = o
         /\ Mount(nav', lists') /\ Waits(nav', lists', o)
         /\ nav'.route = Redirected(n, o).route
         /\ lists'.lesson = Mounted(Redirected(n, o), l).lesson
<1> DEFINE to == Redirected(n, o)
           m  == Mounted(to, l)
           settling == landed \/ m.library # lists.library
           f  == Focused(to, m, o, settling)
<1>1. /\ to \in NavT /\ to.returnTo = n.returnTo /\ to.heading = n.heading
      /\ to.route = n.route \/ (n.route.view = "my" /\ to.route = Page("library"))
  BY DEF Redirected, NavT, Routes, Pages
<1> HIDE DEF to
<1>2. m \in ListsT /\ Mount(to, m) /\ (to.route.view = "library" /\ lists.library # "none" => m.library = l.library)
      /\ (to.route.view = "library" /\ lists.library = "none" => m.library # lists.library)
  <2>1. nav.route \in Routes /\ to.route \in Routes
    BY <1>1 DEF LibraryTyped, NavT
  <2>2. QED
  BY <1>1, <2>1 DEF Mounted, ListsT, LoadT, Mount, LibraryTyped
<1>3. m.instant \in BOOLEAN
  BY <1>2 DEF ListsT
<1>4. Focuses(n, l, o, landed) => (to.returnTo # NoId => to.returnTo \in Rows(to, m, o) \/ (to.route = n.route /\ n.route.view = "library"))
  BY <1>1 DEF Focuses, Rows
<1> HIDE DEF m
<1>5. f \in NavT /\ f.route = to.route /\ f.url = to.url /\ f.last = to.last
  BY <1>1 DEF Focused, NavT
<1>6. Waits(f, m, o)
  <2>1. SUFFICES ASSUME f.returnTo # NoId PROVE f.route.view = "library" /\ ~Settled(m, o) /\ ~f.heading
    BY DEF Waits
  <2>2. /\ to.returnTo \notin Rows(to, m, o) /\ to.returnTo # NoId /\ ~(settling /\ Settled(m, o))
        /\ f.heading = ((to.heading \/ FALSE) /\ ~HasHeading(to, m, o))
    BY <2>1, <1>1 DEF Focused, NavT
  <2>3. to.route = n.route /\ n.route.view = "library"
    BY <1>4, <2>2
  <2>4. HasHeading(to, m, o)
    BY <2>3 DEF HasHeading
  <2>5. ~Settled(m, o)
    <3>1. CASE settling
      BY <3>1, <2>2
    <3>2. CASE ~settling
      <4>1. nav.route.view = "library"
        BY <3>2, <2>3, <1>2 DEF LibraryTyped, Mount
      <4>2. nav.returnTo # NoId /\ o.state = own.state
        BY <4>1, <3>2, <2>3, <2>2, <1>1, <1>2 DEF Focuses, LibraryTyped, Mount
      <4>3. ~Settled(lists, own)
        BY <4>2 DEF LibraryTyped, Waits
      <4>4. QED
        BY <4>2, <4>3, <3>2 DEF Settled
    <3>3. QED
      BY <3>1, <3>2
  <2>6. QED
    BY <2>1, <2>2, <2>3, <2>4, <2>5, <1>5
<1> HIDE DEF f
<1>7. nav' = [f EXCEPT !.last = IF f.route.view = "lesson" \/ Found(f.route, o) THEN f.route ELSE @] /\ lists' = m /\ own' = o
  BY DEF Rendered, to, m, f
<1>8. f.route.view = "lesson" \/ Found(f.route, o) => f.route \in LessonRoutes
  <2>1. f.route \in Routes
    BY <1>5 DEF NavT
  <2>2. QED
    BY <2>1, RouteFields DEF Found
<1>9. nav' \in NavT /\ nav'.route = f.route /\ nav'.returnTo = f.returnTo /\ nav'.heading = f.heading
  BY <1>5, <1>7, <1>8 DEF NavT
<1>10. Waits(nav', m, o) /\ Mount(nav', m)
  BY <1>2, <1>5, <1>6, <1>9 DEF Waits, Mount
<1>11. QED
  BY <1>2, <1>5, <1>7, <1>9, <1>10 DEF to, m

\* The steps of the library.
LibraryStep ==
  \/ \E page \in Pages : GoTo(page)
  \/ \E row \in {ImportTitle, YourData} : GoToRow(row)
  \/ \E id \in LibraryLessons \cup OwnLessons : OpenLesson(id)
  \/ NextLesson \/ Continued \/ Back \/ Follow
  \/ \E i \in OwnCalls : LandOwn(i)
  \/ \E state \in {"loaded", "failed"} : LibraryLoads(state) \/ LessonLoads(state)
  \/ RetryLibrary
  \/ \E url \in Routes \cup {Malformed} : ChangeUrl(url)
  \/ \E id \in OwnLessons : Create(id) \/ Delete(id)
  \/ \E i \in OwnCalls : CommitWrite(i) \/ FailOwnWrite(i) \/ ReadOwn(i)
  \/ UNCHANGED libraryVars

SceneTyped == scene \in Scenes

\* A step of the App is one of the library or leaves it alone.
LEMMA NextIsLibraryStep ==
  ASSUME SceneTyped, [Next]_vars
  PROVE  LibraryStep /\ scene' = scene
<1>1. SceneLessons \subseteq LibraryLessons \cup OwnLessons /\ ScenePages \subseteq Pages
  BY LearnerAssumption DEF SceneTyped, SceneLessons, ScenePages, Pages
<1>2. \A id \in SceneLessons : LessonRoute(id) \in Routes
  BY <1>1 DEF Routes, LessonRoutes
<1>3. CASE AppStep
  BY <1>1, <1>3 DEF AppStep, LibraryStep
<1>4. CASE ListStep
  BY <1>4 DEF ListStep, LibraryStep
<1>5. CASE Elsewhere
  BY <1>1, <1>2, <1>5 DEF Elsewhere, LibraryStep, Routes
<1>6. CASE ~(AppStep \/ ListStep \/ Elsewhere)
  BY <1>6 DEF Next, vars, pageVars, libraryVars, LibraryStep, ProgressCalls, Lesson, DeckRefreshes, DeckLands, Ratings,
              SaveButtons, ReviewPage, Background
<1>7. QED
  BY <1>3, <1>4, <1>5, <1>6

\* But for its form, q is r.
SameCall(q, r) ==
  /\ q.kind = r.kind /\ q.id = r.id /\ q.pc = r.pc /\ q.seen = r.seen
  /\ q.failed = r.failed /\ q.after = r.after /\ q.overtaken = r.overtaken

\* Own calls keep their type as the form they came from is unmounted.
LEMMA CallsInType ==
  ASSUME NEW cs \in [OwnCalls -> {NoCall} \cup CallT]
  PROVE  /\ CallsIn(cs) \in [OwnCalls -> {NoCall} \cup CallT]
         /\ \A i \in OwnCalls :
              /\ CallsIn(cs)[i] = NoCall <=> cs[i] = NoCall
              /\ cs[i] # NoCall => SameCall(CallsIn(cs)[i], cs[i])
<1>1. ASSUME NEW i \in OwnCalls
      PROVE  /\ CallsIn(cs)[i] \in {NoCall} \cup CallT
             /\ CallsIn(cs)[i] = NoCall <=> cs[i] = NoCall
             /\ cs[i] # NoCall => SameCall(CallsIn(cs)[i], cs[i])
  <2>1. CASE cs[i] = NoCall
    BY <2>1 DEF CallsIn, NoCall
  <2>2. CASE cs[i] # NoCall
    <3>1. cs[i] \in CallT
      BY <2>2
    <3>2. CallsIn(cs)[i] = cs[i] \/ CallsIn(cs)[i] = [cs[i] EXCEPT !.mounted = FALSE]
      BY DEF CallsIn
    <3>3. ASSUME NEW r \in CallT
          PROVE  r # NoCall /\ [r EXCEPT !.mounted = FALSE] \in CallT /\ SameCall([r EXCEPT !.mounted = FALSE], r)
      <4>1. r.kind # NoCall.kind
        BY DEF CallT, NoCall
      <4>2. [r EXCEPT !.mounted = FALSE] \in CallT /\ SameCall([r EXCEPT !.mounted = FALSE], r)
        BY DEF CallT, SameCall
      <4>3. QED
        BY <4>1, <4>2
    <3>4. QED
      BY <3>1, <3>2, <3>3 DEF SameCall
  <2>3. QED
    BY <2>1, <2>2
<1>2. QED
  BY <1>1 DEF CallsIn

CallsTyped(cs, o) ==
  /\ cs \in [OwnCalls -> {NoCall} \cup CallT]
  /\ \A i \in OwnCalls : cs[i] # NoCall => (cs[i].failed => cs[i].seen = {}) /\ (cs[i].kind # "load" => cs[i].id \in OwnLessons)
                                           /\ (cs[i].kind = "load" => cs[i].pc # "writing")

\* A creation that has not been stored, and a read that may be installed.
Adds(c)  == c.kind = "create" /\ c.pc = "writing"
WillList(c) == c.pc = "landing" /\ ~c.failed

\* Of the calls cs and the own lessons o: nothing has seen a lesson that is
\* still to be stored; a read that was not overtaken has what is on screen and
\* stored, and of two reads the later has what is stored of the earlier.
Ordered(cs, o) ==
  /\ o.stored \subseteq o.created /\ o.lessons \subseteq o.created
  /\ \A i \in OwnCalls : cs[i] # NoCall =>
       /\ cs[i].seen \subseteq o.created
       /\ cs[i].kind = "create" => cs[i].id \in o.created
       /\ Adds(cs[i]) =>
            /\ cs[i].id \notin o.stored \cup o.lessons
            /\ \A j \in OwnCalls : cs[j] # NoCall =>
                 cs[i].id \notin cs[j].seen /\ (j # i /\ Adds(cs[j]) => cs[j].id # cs[i].id)
       /\ WillList(cs[i]) =>
            /\ ~cs[i].overtaken => o.lessons \cap o.stored \subseteq cs[i].seen
            /\ \A j \in OwnCalls \ {i} : cs[j] # NoCall /\ WillList(cs[j]) /\ i \notin cs[j].after =>
                 cs[j].seen \cap o.stored \subseteq cs[i].seen

LibraryInv == LibraryTyped /\ Ordered(calls, own)

\* Only the forms of calls differ.
LEMMA CallsInOrdered ==
  ASSUME NEW cs, NEW o, CallsTyped(cs, o), Ordered(cs, o)
  PROVE  CallsTyped(CallsIn(cs), o) /\ Ordered(CallsIn(cs), o)
<1> DEFINE ds == CallsIn(cs)
<1>1. /\ ds \in [OwnCalls -> {NoCall} \cup CallT]
      /\ \A i \in OwnCalls : (ds[i] = NoCall <=> cs[i] = NoCall) /\ (cs[i] # NoCall => SameCall(ds[i], cs[i]))
  BY CallsInType DEF CallsTyped
<1> HIDE DEF ds
<1>2. CallsTyped(ds, o)
  BY <1>1 DEF CallsTyped, SameCall
<1>3. Ordered(ds, o)
  BY <1>1 DEF Ordered, SameCall, Adds, WillList
<1>4. QED
  BY <1>2, <1>3 DEF ds

\* A navigation.
LEMMA NavigateKeeps ==
  ASSUME LibraryInv, NEW next \in Routes, NEW returnTo \in LibraryLessons \cup OwnLessons \cup {NoId, ImportTitle, YourData},
         \/ returnTo = NoId
         \/ next.view = "manage" /\ returnTo \in {ImportTitle, YourData}
         \/ next.view = "library" /\ nav.route.view # "library",
         Navigate(next, returnTo)
  PROVE  LibraryInv'
<1> DEFINE n == To(next, returnTo)
<1>1. n \in NavT /\ n.route = next /\ n.returnTo = returnTo
  BY DEF To, ShowRoute, NavT, LibraryInv, LibraryTyped
<1>2. Focuses(n, lists, own, FALSE)
  BY <1>1 DEF Focuses
<1> HIDE DEF n
<1>3. /\ nav' \in NavT /\ lists' \in ListsT /\ own' = own
      /\ Mount(nav', lists') /\ Waits(nav', lists', own)
  <2>1. Rendered(n, lists, own, FALSE)
    BY DEF Navigate, n
  <2>2. lists \in ListsT /\ own \in OwnT /\ Listed(own) /\ FALSE \in BOOLEAN
    BY DEF LibraryInv, LibraryTyped
  <2>3. QED
    BY <1>1, <1>2, <2>1, <2>2, RenderedKeeps DEF LibraryInv
<1>4. CallsTyped(calls', own') /\ Ordered(calls', own')
  <2>1. CallsTyped(calls, own) /\ Ordered(calls, own)
    BY DEF LibraryInv, LibraryTyped, CallsTyped
  <2>2. calls' = CallsIn(calls)
    BY DEF Navigate
  <2>3. QED
    BY <1>3, <2>1, <2>2, CallsInOrdered
<1>5. QED
  BY <1>3, <1>4 DEF LibraryInv, LibraryTyped, CallsTyped

\* A load of a list or of the lesson that starts again, ends or fails.
LEMMA LoadKeeps ==
  ASSUME LibraryInv, NEW n \in NavT, NEW l \in ListsT,
         n.route = nav.route, n.returnTo = nav.returnTo,
         l.library = "none" <=> lists.library = "none", l.lesson = "none" <=> lists.lesson = "none",
         Rendered(n, l, own, FALSE), UNCHANGED calls
  PROVE  LibraryInv'
<1>1. own \in OwnT /\ Listed(own) /\ FALSE \in BOOLEAN
  BY DEF LibraryInv, LibraryTyped
<1>2. Focuses(n, l, own, FALSE)
  BY DEF Focuses, LibraryInv, LibraryTyped, Waits
<1>3. /\ nav' \in NavT /\ lists' \in ListsT /\ own' = own
      /\ Mount(nav', lists') /\ Waits(nav', lists', own)
  BY <1>1, <1>2, RenderedKeeps DEF LibraryInv
<1>4. QED
  BY <1>3 DEF LibraryInv, LibraryTyped

\* Own lessons land.
LEMMA LandOwnKeeps ==
  ASSUME LibraryInv, NEW i \in OwnCalls, LandOwn(i)
  PROVE  LibraryInv'
<1> DEFINE o == [own EXCEPT !.state = IF calls[i].failed THEN "failed" ELSE "loaded", !.lessons = calls[i].seen]
           n == IF calls[i].kind = "create" THEN To(LessonRoute(calls[i].id), NoId) ELSE nav
           rest == [j \in OwnCalls |-> IF j = i THEN NoCall
                      ELSE IF calls[j] = NoCall THEN NoCall
                      ELSE [calls[j] EXCEPT !.overtaken = @ \/ j \in calls[i].after, !.after = @ \ {i}]]
<1>1. Rendered(n, lists, o, TRUE) /\ calls' = CallsIn(rest)
  BY DEF LandOwn
<1>2. calls[i] \in CallT /\ calls[i] # NoCall /\ calls[i].pc = "landing" /\ nav \in NavT /\ lists \in ListsT /\ own \in OwnT
      /\ (calls[i].failed => calls[i].seen = {}) /\ (calls[i].kind # "load" => calls[i].id \in OwnLessons)
  BY DEF LandOwn, Landing, LibraryInv, LibraryTyped
<1>3. o \in OwnT /\ Listed(o) /\ o.stored = own.stored /\ o.created = own.created /\ o.lessons = calls[i].seen
  BY <1>2 DEF OwnT, Listed, CallT
<1>4. n \in NavT /\ Focuses(n, lists, o, TRUE)
  <2>1. calls[i].kind = "create" => LessonRoute(calls[i].id) \in Routes
    BY <1>2 DEF Routes, LessonRoutes
  <2>2. CASE calls[i].kind = "create"
    <3>1. n \in NavT /\ n.returnTo = NoId
      BY <1>2, <2>1, <2>2 DEF To, ShowRoute, NavT
    <3>2. QED
      BY <3>1 DEF Focuses
  <2>3. CASE calls[i].kind # "create"
    BY <1>2, <2>3 DEF Focuses, LibraryInv, LibraryTyped, Waits
  <2>4. QED
    BY <2>2, <2>3
<1>5. \A j \in OwnCalls : calls[j] # NoCall =>
        LET q == [calls[j] EXCEPT !.overtaken = @ \/ j \in calls[i].after, !.after = @ \ {i}] IN
        /\ q \in CallT /\ q # NoCall
        /\ q.kind = calls[j].kind /\ q.id = calls[j].id /\ q.pc = calls[j].pc /\ q.seen = calls[j].seen /\ q.failed = calls[j].failed
        /\ q.overtaken = (calls[j].overtaken \/ j \in calls[i].after) /\ q.after = calls[j].after \ {i}
  <2> SUFFICES ASSUME NEW j \in OwnCalls, calls[j] # NoCall
               PROVE LET q == [calls[j] EXCEPT !.overtaken = @ \/ j \in calls[i].after, !.after = @ \ {i}] IN
        /\ q \in CallT /\ q # NoCall
        /\ q.kind = calls[j].kind /\ q.id = calls[j].id /\ q.pc = calls[j].pc /\ q.seen = calls[j].seen /\ q.failed = calls[j].failed
        /\ q.overtaken = (calls[j].overtaken \/ j \in calls[i].after) /\ q.after = calls[j].after \ {i}
    OBVIOUS
  <2>1. calls[j] \in CallT
    BY DEF LibraryInv, LibraryTyped
  <2>2. QED
    BY <1>2, <2>1 DEF CallT, NoCall
<1> DEFINE At(j) == [calls[j] EXCEPT !.overtaken = @ \/ j \in calls[i].after, !.after = @ \ {i}]
<1>6. /\ rest \in [OwnCalls -> {NoCall} \cup CallT] /\ rest[i] = NoCall
      /\ \A j \in OwnCalls : rest[j] # NoCall =>
           /\ j # i /\ calls[j] # NoCall
           /\ rest[j].kind = calls[j].kind /\ rest[j].id = calls[j].id /\ rest[j].pc = calls[j].pc /\ rest[j].seen = calls[j].seen
           /\ rest[j].failed = calls[j].failed
           /\ rest[j].overtaken = (calls[j].overtaken \/ j \in calls[i].after) /\ rest[j].after = calls[j].after \ {i}
  BY <1>5
<1> HIDE DEF rest, o, n
<1>7. CallsTyped(rest, o)
  BY <1>6 DEF CallsTyped, LibraryInv, LibraryTyped
<1>8. Ordered(rest, o)
  <2> USE DEF Adds, WillList
  <2> SUFFICES ASSUME NEW j \in OwnCalls, rest[j] # NoCall
               PROVE  /\ rest[j].seen \subseteq o.created
                      /\ rest[j].kind = "create" => rest[j].id \in o.created
                      /\ Adds(rest[j]) =>
                           /\ rest[j].id \notin o.stored \cup o.lessons
                           /\ \A k \in OwnCalls : rest[k] # NoCall =>
                                rest[j].id \notin rest[k].seen /\ (k # j /\ Adds(rest[k]) => rest[k].id # rest[j].id)
                      /\ WillList(rest[j]) =>
                           /\ ~rest[j].overtaken => o.lessons \cap o.stored \subseteq rest[j].seen
                           /\ \A k \in OwnCalls \ {j} : rest[k] # NoCall /\ WillList(rest[k]) /\ j \notin rest[k].after =>
                                rest[k].seen \cap o.stored \subseteq rest[j].seen
    BY <1>2, <1>3 DEF Ordered, LibraryInv
  <2>1. /\ rest[j].seen \subseteq o.created
        /\ rest[j].kind = "create" => rest[j].id \in o.created
    BY <1>3, <1>6 DEF Ordered, LibraryInv
  <2>2. Adds(rest[j]) => rest[j].id \notin o.stored \cup o.lessons
    BY <1>2, <1>3, <1>6 DEF Ordered, LibraryInv
  <2>3. ASSUME Adds(rest[j]), NEW k \in OwnCalls, rest[k] # NoCall
        PROVE  rest[j].id \notin rest[k].seen /\ (k # j /\ Adds(rest[k]) => rest[k].id # rest[j].id)
    BY <2>3, <1>6 DEF Ordered, LibraryInv
  <2>4. WillList(rest[j]) /\ ~rest[j].overtaken => o.lessons \cap o.stored \subseteq rest[j].seen
    BY <1>2, <1>3, <1>6 DEF Ordered, LibraryInv
  <2>5. ASSUME WillList(rest[j]), NEW k \in OwnCalls \ {j}, rest[k] # NoCall, WillList(rest[k]), j \notin rest[k].after
        PROVE  rest[k].seen \cap o.stored \subseteq rest[j].seen
    BY <2>5, <1>3, <1>6 DEF Ordered, LibraryInv
  <2>6. QED
    BY <2>1, <2>2, <2>3, <2>4, <2>5
<1>9. CallsTyped(calls', o) /\ Ordered(calls', o)
  BY <1>1, <1>7, <1>8, CallsInOrdered
<1>10. /\ nav' \in NavT /\ lists' \in ListsT /\ own' = o
       /\ Mount(nav', lists') /\ Waits(nav', lists', o)
  BY <1>1, <1>2, <1>3, <1>4, RenderedKeeps DEF LibraryInv
<1>11. QED
  BY <1>3, <1>9, <1>10 DEF LibraryInv, LibraryTyped, CallsTyped

\* A step that renders nothing: own lessons and calls alone.
OwnOnly == UNCHANGED <<nav, lists>> /\ own' \in OwnT /\ own'.state = own.state /\ own'.lessons = own.lessons

\* A change of the calls of the own lessons alone.
LEMMA OwnOnlyKeeps ==
  ASSUME LibraryInv, OwnOnly, CallsTyped(calls', own'), Ordered(calls', own')
  PROVE  LibraryInv'
<1>1. Mount(nav, lists)' /\ Listed(own)' /\ Waits(nav, lists, own)'
  BY DEF OwnOnly, Mount, Listed, Waits, Settled, LibraryInv, LibraryTyped
<1>2. QED
  BY <1>1 DEF OwnOnly, LibraryInv, LibraryTyped, CallsTyped

\* A call that starts in a free slot: its fields.
LEMMA StartCallIs ==
  ASSUME LibraryInv, NEW kind \in {"create", "delete"}, NEW id \in OwnLessons, StartCall(OwnCall(kind, id))
  PROVE  \E k \in OwnCalls :
           /\ calls[k] = NoCall /\ calls' = [calls EXCEPT ![k] = OwnCall(kind, id)]
           /\ OwnCall(kind, id) \in CallT /\ OwnCall(kind, id) # NoCall
           /\ OwnCall(kind, id).kind = kind /\ OwnCall(kind, id).id = id /\ OwnCall(kind, id).pc = "writing"
           /\ OwnCall(kind, id).seen = {} /\ ~OwnCall(kind, id).failed
<1>1. Min(FreeCalls) \in FreeCalls
  <2>1. FreeCalls \in SUBSET Nat /\ FreeCalls # {}
    BY LibraryAssumption DEF FreeCalls, StartCall
  <2>2. QED
    BY <2>1, LeastNumber
<1>2. OwnCall(kind, id) \in CallT /\ OwnCall(kind, id).kind # NoCall.kind
  BY DEF OwnCall, CallT, NoCall
<1>3. /\ OwnCall(kind, id).kind = kind /\ OwnCall(kind, id).id = id /\ OwnCall(kind, id).pc = "writing"
      /\ OwnCall(kind, id).seen = {} /\ ~OwnCall(kind, id).failed
  BY DEF OwnCall
<1>4. QED
  BY <1>1, <1>2, <1>3 DEF FreeCalls, StartCall

\* useUserLessons' create.
LEMMA CreateKeeps ==
  ASSUME LibraryInv, NEW id \in OwnLessons, Create(id)
  PROVE  LibraryInv'
<1>1. PICK k \in OwnCalls :
        /\ calls[k] = NoCall /\ calls' = [calls EXCEPT ![k] = OwnCall("create", id)]
        /\ OwnCall("create", id) \in CallT /\ OwnCall("create", id) # NoCall
        /\ OwnCall("create", id).kind = "create" /\ OwnCall("create", id).id = id /\ OwnCall("create", id).pc = "writing"
        /\ OwnCall("create", id).seen = {} /\ ~OwnCall("create", id).failed
  BY StartCallIs DEF Create
<1>2. /\ id \notin own.created /\ own' = [own EXCEPT !.created = @ \cup {id}] /\ UNCHANGED <<nav, lists>> /\ own \in OwnT
      /\ calls \in [OwnCalls -> {NoCall} \cup CallT]
  BY DEF Create, LibraryInv, LibraryTyped
<1>3. own' \in OwnT /\ own'.created = own.created \cup {id} /\ own'.stored = own.stored /\ own'.lessons = own.lessons /\ own'.state = own.state
  BY <1>2 DEF OwnT
<1> DEFINE call == OwnCall("create", id)
<1> HIDE DEF call
<1>4. /\ \A j \in OwnCalls : calls'[j] = IF j = k THEN call ELSE calls[j]
      /\ calls' \in [OwnCalls -> {NoCall} \cup CallT]
      /\ call # NoCall /\ call.kind = "create" /\ call.id = id /\ call.pc = "writing" /\ call.seen = {} /\ ~call.failed
  BY <1>1, <1>2 DEF call
<1>5. CallsTyped(calls', own')
  BY <1>4 DEF CallsTyped, LibraryInv, LibraryTyped
<1>6. Ordered(calls', own')
  BY <1>2, <1>3, <1>4 DEF Ordered, LibraryInv, Adds, WillList
<1>7. QED
  BY <1>2, <1>3, <1>5, <1>6, OwnOnlyKeeps DEF OwnOnly

\* useUserLessons' remove.
LEMMA DeleteKeeps ==
  ASSUME LibraryInv, NEW id \in OwnLessons, Delete(id)
  PROVE  LibraryInv'
<1>1. PICK k \in OwnCalls :
        /\ calls[k] = NoCall /\ calls' = [calls EXCEPT ![k] = OwnCall("delete", id)]
        /\ OwnCall("delete", id) \in CallT /\ OwnCall("delete", id) # NoCall
        /\ OwnCall("delete", id).kind = "delete" /\ OwnCall("delete", id).id = id /\ OwnCall("delete", id).pc = "writing"
        /\ OwnCall("delete", id).seen = {} /\ ~OwnCall("delete", id).failed
  BY StartCallIs DEF Delete
<1>2. UNCHANGED <<nav, lists, own>> /\ own \in OwnT /\ calls \in [OwnCalls -> {NoCall} \cup CallT]
  BY DEF Delete, LibraryInv, LibraryTyped
<1> DEFINE call == OwnCall("delete", id)
<1> HIDE DEF call
<1>4. /\ \A j \in OwnCalls : calls'[j] = IF j = k THEN call ELSE calls[j]
      /\ calls' \in [OwnCalls -> {NoCall} \cup CallT]
      /\ call # NoCall /\ call.kind = "delete" /\ call.id = id /\ call.pc = "writing" /\ call.seen = {} /\ ~call.failed
  BY <1>1, <1>2 DEF call
<1>5. CallsTyped(calls', own')
  BY <1>4 DEF CallsTyped, LibraryInv, LibraryTyped
<1>6. Ordered(calls', own')
  BY <1>2, <1>4 DEF Ordered, LibraryInv, Adds, WillList
<1>7. QED
  BY <1>2, <1>5, <1>6, OwnOnlyKeeps DEF OwnOnly

\* The transaction of a create or a delete.
LEMMA CommitWriteKeeps ==
  ASSUME LibraryInv, NEW i \in OwnCalls, CommitWrite(i)
  PROVE  LibraryInv'
<1>1. calls[i] \in CallT /\ calls[i] # NoCall /\ calls[i].pc = "writing" /\ own \in OwnT /\ calls \in [OwnCalls -> {NoCall} \cup CallT]
      /\ (calls[i].kind # "load" => calls[i].id \in OwnLessons) /\ calls[i].kind \in {"create", "delete"}
  BY DEF CommitWrite, LibraryInv, LibraryTyped, CallT
<1>2. /\ own' \in OwnT /\ own'.created = own.created /\ own'.lessons = own.lessons /\ own'.state = own.state
      /\ own'.stored = IF calls[i].kind = "create" THEN own.stored \cup {calls[i].id} ELSE own.stored \ {calls[i].id}
  BY <1>1 DEF CommitWrite, OwnT
<1> DEFINE call == [calls[i] EXCEPT !.pc = "reading"]
<1>3. /\ call \in CallT /\ call # NoCall /\ call.kind = calls[i].kind /\ call.id = calls[i].id /\ call.pc = "reading"
      /\ call.seen = calls[i].seen /\ call.failed = calls[i].failed
  BY <1>1 DEF CallT, NoCall
<1> HIDE DEF call
<1>4. /\ \A j \in OwnCalls : calls'[j] = IF j = i THEN call ELSE calls[j]
      /\ calls' \in [OwnCalls -> {NoCall} \cup CallT] /\ UNCHANGED <<nav, lists>>
  BY <1>1, <1>3 DEF CommitWrite, call
<1>5. CallsTyped(calls', own')
  BY <1>1, <1>3, <1>4 DEF CallsTyped, LibraryInv, LibraryTyped
<1>6. Ordered(calls', own')
  BY <1>1, <1>2, <1>3, <1>4 DEF Ordered, LibraryInv, Adds, WillList
<1>7. QED
  BY <1>2, <1>4, <1>5, <1>6, OwnOnlyKeeps DEF OwnOnly

\* The rejection of one.
LEMMA FailOwnWriteKeeps ==
  ASSUME LibraryInv, NEW i \in OwnCalls, FailOwnWrite(i)
  PROVE  LibraryInv'
<1>1. /\ \A j \in OwnCalls : calls'[j] = IF j = i THEN NoCall ELSE calls[j]
      /\ calls' \in [OwnCalls -> {NoCall} \cup CallT] /\ UNCHANGED <<nav, lists, own>> /\ own \in OwnT
  BY DEF FailOwnWrite, LibraryInv, LibraryTyped
<1>5. CallsTyped(calls', own')
  BY <1>1 DEF CallsTyped, LibraryInv, LibraryTyped
<1>6. Ordered(calls', own')
  BY <1>1 DEF Ordered, LibraryInv, Adds, WillList
<1>7. QED
  BY <1>1, <1>5, <1>6, OwnOnlyKeeps DEF OwnOnly

\* The reload that follows it reads the store.
LEMMA ReadOwnKeeps ==
  ASSUME LibraryInv, NEW i \in OwnCalls, ReadOwn(i)
  PROVE  LibraryInv'
<1>1. calls[i] \in CallT /\ calls[i] # NoCall /\ calls[i].pc = "reading" /\ own \in OwnT /\ calls \in [OwnCalls -> {NoCall} \cup CallT]
      /\ (calls[i].kind # "load" => calls[i].id \in OwnLessons)
  BY DEF ReadOwn, LibraryInv, LibraryTyped, CallT
<1>2. PICK failed \in BOOLEAN :
        calls' = [calls EXCEPT ![i].pc = "landing", ![i].seen = IF failed THEN {} ELSE own.stored,
                               ![i].failed = failed, ![i].after = Landing]
  BY DEF ReadOwn
<1> DEFINE call == [calls[i] EXCEPT !.pc = "landing", !.seen = IF failed THEN {} ELSE own.stored,
                                    !.failed = failed, !.after = Landing]
<1>3. /\ call \in CallT /\ call # NoCall /\ call.kind = calls[i].kind /\ call.id = calls[i].id /\ call.pc = "landing"
      /\ call.seen = (IF failed THEN {} ELSE own.stored) /\ call.failed = failed /\ call.after = Landing
  BY <1>1 DEF CallT, NoCall, OwnT, Landing
<1> HIDE DEF call
<1>4. /\ \A j \in OwnCalls : calls'[j] = IF j = i THEN call ELSE calls[j]
      /\ calls' \in [OwnCalls -> {NoCall} \cup CallT] /\ UNCHANGED <<nav, lists, own>>
  <2>1. calls' = [calls EXCEPT ![i] = call]
    BY <1>2 DEF call
  <2>2. QED
    BY <1>1, <1>3, <2>1 DEF ReadOwn
<1>5. CallsTyped(calls', own')
  BY <1>1, <1>3, <1>4 DEF CallsTyped, LibraryInv, LibraryTyped
<1>6. Ordered(calls', own')
  BY <1>1, <1>3, <1>4 DEF Ordered, LibraryInv, Adds, WillList, Landing
<1>7. QED
  BY <1>1, <1>4, <1>5, <1>6, OwnOnlyKeeps DEF OwnOnly

\* The library's operations keep its invariant.
LEMMA LibraryKeeps == LibraryInv /\ LibraryStep => LibraryInv'
<1> SUFFICES ASSUME LibraryInv, LibraryStep PROVE LibraryInv'
  OBVIOUS
<1>1. nav \in NavT /\ lists \in ListsT /\ own \in OwnT /\ nav.route \in Routes /\ nav.last \in LessonRoutes \cup {Page("none")}
      /\ nav.url \in Routes \cup {Malformed}
  BY DEF LibraryInv, LibraryTyped, NavT
<1>2. NoId \in LibraryLessons \cup OwnLessons \cup {NoId, ImportTitle, YourData}
  OBVIOUS
<1>3. ASSUME NEW page \in Pages, GoTo(page) PROVE LibraryInv'
  BY <1>3, <1>2, NavigateKeeps DEF GoTo, Routes
<1>4. ASSUME NEW row \in {ImportTitle, YourData}, GoToRow(row) PROVE LibraryInv'
  <2>1. Page("manage") \in Routes /\ Page("manage").view = "manage"
    BY DEF Routes, Pages, Page
  <2>2. QED
    BY <1>4, <2>1, NavigateKeeps DEF GoToRow
<1>5. ASSUME NEW id \in LibraryLessons \cup OwnLessons, OpenLesson(id) PROVE LibraryInv'
  <2>1. LessonRoute(id) \in Routes
    BY DEF Routes, LessonRoutes
  <2>2. QED
    BY <1>2, <1>5, <2>1, NavigateKeeps DEF OpenLesson
<1>6. CASE NextLesson
  <2>1. PICK list \in SUBSET (LibraryLessons \cup OwnLessons) :
          LET after == {j \in DOMAIN Order : Order[j] \in list /\ \E i \in 1..(j - 1) : Order[i] = LessonOnScreen}
          IN after # {} /\ Navigate(LessonRoute(Order[Min(after)]), NoId)
    BY <1>1, <1>6 DEF NextLesson, OwnT
  <2> DEFINE after == {j \in DOMAIN Order : Order[j] \in list /\ \E i \in 1..(j - 1) : Order[i] = LessonOnScreen}
  <2>2. DOMAIN Order \in SUBSET Nat
    BY LibraryAssumption
  <2>3. Min(after) \in after
    <3>1. after \in SUBSET Nat /\ after # {}
      BY <2>1, <2>2
    <3>2. QED
      BY <3>1, LeastNumber
  <2>4. Order[Min(after)] \in LibraryLessons \cup OwnLessons
    BY <2>3
  <2>5. LessonRoute(Order[Min(after)]) \in Routes
    BY <2>4 DEF Routes, LessonRoutes
  <2>6. QED
    BY <1>2, <2>1, <2>5, NavigateKeeps
<1>7. CASE Continued
  BY <1>1, <1>2, <1>7, NavigateKeeps DEF Continued, Routes
<1>8. CASE Back
  <2>1. Page("library") \in Routes /\ Page("library").view = "library"
    BY DEF Routes, Pages, Page
  <2>2. nav.route.id \in LibraryLessons \cup OwnLessons /\ nav.route.view # "library"
    BY <1>1, <1>8, RouteFields DEF Back
  <2>3. QED
    BY <1>8, <2>1, <2>2, NavigateKeeps DEF Back
<1>9. CASE Follow
  <2> DEFINE next == IF nav.url = Malformed THEN Page("library") ELSE nav.url
             returnTo == IF next.view = "library" THEN nav.route.id ELSE NoId
  <2>1. next \in Routes
    BY <1>1 DEF Routes, Pages
  <2>2. CASE next = nav.route
    <3>1. nav' = [nav EXCEPT !.url = next] /\ UNCHANGED <<lists, own, calls>>
      BY <1>9, <2>2 DEF Follow
    <3>2. nav' \in NavT /\ nav'.route = nav.route /\ nav'.returnTo = nav.returnTo /\ nav'.heading = nav.heading
      BY <1>1, <2>1, <3>1 DEF NavT
    <3>3. QED
      BY <3>1, <3>2 DEF LibraryInv, LibraryTyped, Mount, Waits
  <2>3. CASE next # nav.route
    <3>1. Navigate(next, returnTo)
      BY <1>9, <2>3 DEF Follow
    <3>2. returnTo \in LibraryLessons \cup OwnLessons \cup {NoId, ImportTitle, YourData}
      BY <1>1, RouteFields
    <3>3. next.view = "library" => nav.route.view # "library"
      BY <1>1, <2>1, <2>3, RouteFields
    <3> HIDE DEF next
    <3>4. QED
      BY <2>1, <3>1, <3>2, <3>3, NavigateKeeps
  <2>4. QED
    BY <2>2, <2>3
<1>10. ASSUME NEW i \in OwnCalls, LandOwn(i) PROVE LibraryInv'
  BY <1>10, LandOwnKeeps
<1>11. ASSUME NEW state \in {"loaded", "failed"}, LibraryLoads(state) PROVE LibraryInv'
  <2> DEFINE l == [lists EXCEPT !.library = state]
  <2>1. l \in ListsT /\ l.library = state /\ l.lesson = lists.lesson /\ lists.library = "loading"
    BY <1>1, <1>11 DEF ListsT, LoadT, LibraryLoads
  <2>2. QED
    BY <1>1, <1>11, <2>1, LoadKeeps DEF LibraryLoads
<1>12. ASSUME NEW state \in {"loaded", "failed"}, LessonLoads(state) PROVE LibraryInv'
  <2> DEFINE l == [lists EXCEPT !.lesson = state]
  <2>1. l \in ListsT /\ l.lesson = state /\ l.library = lists.library /\ lists.lesson = "loading"
    BY <1>1, <1>12 DEF ListsT, LoadT, LessonLoads
  <2>2. QED
    BY <1>1, <1>12, <2>1, LoadKeeps DEF LessonLoads
<1>13. CASE RetryLibrary
  <2> DEFINE l == [lists EXCEPT !.library = "loading"]
             n == [nav EXCEPT !.heading = TRUE]
  <2>1. l \in ListsT /\ l.library = "loading" /\ l.lesson = lists.lesson /\ lists.library = "failed"
        /\ n \in NavT /\ n.route = nav.route /\ n.returnTo = nav.returnTo
    BY <1>1, <1>13 DEF ListsT, LoadT, NavT, RetryLibrary
  <2>2. QED
    BY <1>1, <1>13, <2>1, LoadKeeps DEF RetryLibrary
<1>14. ASSUME NEW url \in Routes \cup {Malformed}, ChangeUrl(url) PROVE LibraryInv'
  <2>1. nav' = [nav EXCEPT !.url = url] /\ UNCHANGED <<lists, own, calls>>
    BY <1>14 DEF ChangeUrl
  <2>2. nav' \in NavT /\ nav'.route = nav.route /\ nav'.returnTo = nav.returnTo /\ nav'.heading = nav.heading
    BY <1>1, <2>1 DEF NavT
  <2>3. QED
    BY <2>1, <2>2 DEF LibraryInv, LibraryTyped, Mount, Waits
<1>15. CASE UNCHANGED libraryVars
  BY <1>15 DEF libraryVars, LibraryInv, LibraryTyped, Mount, Listed, Waits, Settled, Ordered, Adds, WillList
<1>16. QED
  BY <1>3, <1>4, <1>5, <1>6, <1>7, <1>8, <1>9, <1>10, <1>11, <1>12, <1>13, <1>14, <1>15,
     CreateKeeps, DeleteKeeps, CommitWriteKeeps, FailOwnWriteKeeps, ReadOwnKeeps DEF LibraryStep

\* It holds when the App starts.
LEMMA InitLibrary == Init => SceneTyped /\ LibraryInv
<1> SUFFICES ASSUME Init PROVE SceneTyped /\ LibraryInv
  OBVIOUS
<1> DEFINE routes == IF Uses("lists") THEN ScenePages \cup {LessonRoute(id) : id \in scene.lessons} ELSE {Page("library")}
           stored == OwnLessons \cap scene.lessons
           instant == ~Uses("lists")
           new == IF instant THEN "loaded" ELSE "loading"
<1>1. scene \in Scenes /\ scene.lessons \subseteq LibraryLessons \cup OwnLessons /\ LibraryInit(routes, stored, instant)
  BY LearnerAssumption DEF Init
<1>2. routes \subseteq Routes /\ instant \in BOOLEAN
  BY <1>1 DEF Routes, Pages, LessonRoutes, ScenePages
<1> HIDE DEF routes, instant
<1>3. PICK route \in routes :
       /\ nav = [route |-> route, url |-> route, returnTo |-> NoId, heading |-> FALSE,
                 last |-> IF route.view = "lesson" THEN route ELSE Page("none")]
       /\ lists = [library |-> IF route.view = "library" THEN new ELSE "none",
                   lesson |-> IF route.view = "lesson" THEN new ELSE "none", instant |-> instant]
  BY <1>1 DEF LibraryInit
<1>4. route \in Routes
  BY <1>2
<1>5. nav \in NavT /\ lists \in ListsT
  BY <1>2, <1>3, <1>4, RouteFields DEF NavT, ListsT, LoadT
<1>6. own \in OwnT /\ Listed(own) /\ own.stored = stored /\ own.created = stored /\ own.lessons \subseteq stored
  BY <1>1, <1>2 DEF LibraryInit, OwnT, Listed
<1>7. Mount(nav, lists) /\ Waits(nav, lists, own)
  BY <1>2, <1>3 DEF Mount, Waits
<1>8. OwnCall("load", NoId) \in CallT /\ OwnCall("load", NoId).pc = "reading" /\ OwnCall("load", NoId).kind = "load"
      /\ OwnCall("load", NoId).seen = {} /\ ~OwnCall("load", NoId).failed
  BY DEF OwnCall, CallT
<1>9. calls \in [OwnCalls -> {NoCall} \cup CallT] /\ \A i \in OwnCalls : calls[i] # NoCall => calls[i] = OwnCall("load", NoId)
  BY <1>1, <1>8 DEF LibraryInit
<1>10. LibraryTyped
  BY <1>5, <1>6, <1>7, <1>8, <1>9 DEF LibraryTyped
<1>11. Ordered(calls, own)
  BY <1>6, <1>8, <1>9 DEF Ordered, Adds, WillList
<1>12. QED
  BY <1>1, <1>10, <1>11 DEF LibraryInv, SceneTyped

\* It always holds, whatever the rest of the App does.
LEMMA LibraryAlways == Spec => [](SceneTyped /\ LibraryInv)
<1>1. SceneTyped /\ LibraryInv /\ [Next]_vars => SceneTyped' /\ LibraryInv'
  BY NextIsLibraryStep, LibraryKeeps DEF SceneTyped
<1>2. QED
  BY <1>1, InitLibrary, PTL DEF Spec

\* "Once both lesson lists have settled, a return focus no row took goes to the
\* view's h1", whichever settles last, and a move drops it: a return focus
\* waits only in the library, for a list that loads (useAppNavigation).
THEOREM FocusAlwaysTaken == Spec => []FocusTaken
<1>1. LibraryInv => FocusTaken
  BY DEF LibraryInv, LibraryTyped, Waits, FocusTaken
<1>2. QED
  BY <1>1, LibraryAlways, PTL

\* The lesson on screen, if the own lessons that are listed are o.lessons.
LEMMA OnScreenIs ==
  ASSUME NEW n \in NavT, NEW l \in ListsT, NEW o \in OwnT, NEW id \in OwnLessons
  PROVE  Shown(n, l, o) = id <=> n.route.view = "my" /\ o.state = "loaded" /\ id \in o.lessons /\ n.route.id = id
<1>1. n.route \in Routes
  BY DEF NavT
<1>2. id # NoId /\ id \notin LibraryLessons
  BY LearnerAssumption, LibraryAssumption DEF NoId, NoLesson
<1>3. QED
  BY <1>1, <1>2, RouteFields DEF Shown, Found, Loaded

\* "A lesson of the learner's own that is open and stored is not closed" by a
\* reload, unless that failed, was overtaken, or ends the creation of another
\* lesson (useUserLessons).
LEMMA StepStaysOpen ==
  ASSUME LibraryInv, LibraryInv', LibraryStep, NEW id \in OwnLessons,
         LessonOnScreen = id, LessonOnScreen' # id, own' # own, id \in own.stored'
  PROVE  \E i \in Landing : calls'[i] = NoCall /\ (calls[i].kind = "create" \/ calls[i].failed \/ calls[i].overtaken)
<1>1. /\ nav \in NavT /\ lists \in ListsT /\ own \in OwnT /\ nav' \in NavT /\ lists' \in ListsT /\ own' \in OwnT
      /\ calls \in [OwnCalls -> {NoCall} \cup CallT]
  BY DEF LibraryInv, LibraryTyped
<1>2. /\ nav.route.view = "my" /\ own.state = "loaded" /\ id \in own.lessons /\ nav.route.id = id
      /\ ~(nav'.route.view = "my" /\ own'.state = "loaded" /\ id \in own'.lessons /\ nav'.route.id = id)
  BY <1>1, OnScreenIs DEF LessonOnScreen
<1>3. PICK i \in OwnCalls : LandOwn(i)
  <2>1. \A n, l : Rendered(n, l, own, FALSE) => own' = own
    BY DEF Rendered
  <2>2. \A next, to : Navigate(next, to) => own' = own
    BY <2>1 DEF Navigate
  <2>3. ASSUME NEW j \in OwnCalls, CommitWrite(j) PROVE FALSE
    <3>1. own'.state = own.state /\ own'.lessons = own.lessons /\ nav' = nav
      BY <2>3, <1>1 DEF CommitWrite, OwnT
    <3>2. QED
      BY <1>2, <3>1
  <2>4. ASSUME NEW j \in OwnLessons, Create(j) PROVE FALSE
    <3>1. own'.state = own.state /\ own'.lessons = own.lessons /\ nav' = nav
      BY <2>4, <1>1 DEF Create, OwnT
    <3>2. QED
      BY <1>2, <3>1
  <2>5. ~\E page \in Pages : GoTo(page)
    BY <2>2 DEF GoTo
  <2>6. ~\E row \in {ImportTitle, YourData} : GoToRow(row)
    BY <2>2 DEF GoToRow
  <2>7. ~\E j \in LibraryLessons \cup OwnLessons : OpenLesson(j)
    BY <2>2 DEF OpenLesson
  <2>8. ~(NextLesson \/ Continued \/ Back \/ Follow)
    BY <2>2 DEF NextLesson, Continued, Back, Follow
  <2>9. ~\E state \in {"loaded", "failed"} : LibraryLoads(state) \/ LessonLoads(state)
    BY <2>1 DEF LibraryLoads, LessonLoads
  <2>10. ~(RetryLibrary \/ \E url \in Routes \cup {Malformed} : ChangeUrl(url))
    BY <2>1 DEF RetryLibrary, ChangeUrl
  <2>11. ~\E j \in OwnLessons : Delete(j)
    BY DEF Delete
  <2>12. ~\E j \in OwnCalls : FailOwnWrite(j) \/ ReadOwn(j)
    BY DEF FailOwnWrite, ReadOwn
  <2>13. ~UNCHANGED libraryVars
    BY DEF libraryVars
  <2>14. QED
    BY <2>3, <2>4, <2>5, <2>6, <2>7, <2>8, <2>9, <2>10, <2>11, <2>12, <2>13 DEF LibraryStep
<1>4. i \in Landing /\ calls[i] \in CallT /\ calls[i] # NoCall /\ calls[i].pc = "landing"
  BY <1>1, <1>3 DEF LandOwn, Landing
<1>5. calls'[i] = NoCall
  <2>1. PICK rest : rest = [j \in OwnCalls |-> IF j = i THEN NoCall
                    ELSE IF calls[j] = NoCall THEN NoCall
                    ELSE [calls[j] EXCEPT !.overtaken = @ \/ j \in calls[i].after, !.after = @ \ {i}]]
                    /\ calls' = CallsIn(rest)
    BY <1>3 DEF LandOwn
  <2>2. rest[i] = NoCall /\ NoCall.kind # "create"
    BY <2>1 DEF NoCall
  <2>3. QED
    BY <2>1, <2>2 DEF CallsIn
<1>6. ASSUME calls[i].kind # "create", ~calls[i].failed, ~calls[i].overtaken PROVE FALSE
  <2> DEFINE o == [own EXCEPT !.state = IF calls[i].failed THEN "failed" ELSE "loaded", !.lessons = calls[i].seen]
  <2>1. Rendered(nav, lists, o, TRUE)
    BY <1>3, <1>6 DEF LandOwn
  <2>2. o \in OwnT /\ o.state = "loaded" /\ o.lessons = calls[i].seen /\ o.stored = own.stored
    BY <1>1, <1>4, <1>6 DEF OwnT, CallT
  <2>3. id \in calls[i].seen
    <3>1. own' = o
      BY <2>1 DEF Rendered
    <3>2. own.lessons \cap own.stored \subseteq calls[i].seen
      BY <1>4, <1>6 DEF LibraryInv, Ordered, WillList
    <3>3. QED
      BY <1>2, <2>2, <3>1, <3>2
  <2> HIDE DEF o
  <2>4. Redirected(nav, o) = nav
    BY <1>2, <2>2, <2>3 DEF Redirected, Found, Loaded
  <2>5. nav'.route = nav.route /\ own' = o
    <3>1. Focuses(nav, lists, o, TRUE)
      BY <1>2 DEF Focuses, LibraryInv, LibraryTyped, Waits
    <3>2. Listed(o) /\ TRUE \in BOOLEAN
      BY <2>2 DEF Listed
    <3>3. QED
      BY <1>1, <2>1, <2>2, <2>4, <3>1, <3>2, RenderedKeeps DEF LibraryInv
  <2>6. QED
    BY <1>2, <2>2, <2>3, <2>5
<1>7. QED
  BY <1>4, <1>5, <1>6

\* No reload closes a lesson of the learner's own that is open and stored
\* (useUserLessons), whatever is created, deleted and reloaded meanwhile, but one
\* that failed, was overtaken by a later one, or ends a creation.
THEOREM OpenLessonStays == Spec => LessonStaysOpen
<1>1. ASSUME SceneTyped, LibraryInv, SceneTyped', LibraryInv', [Next]_vars
      PROVE  [\A id \in OwnLessons :
       LessonOnScreen = id /\ LessonOnScreen' # id /\ own' # own /\ id \in own.stored' =>
         \E i \in Landing : calls'[i] = NoCall /\ (calls[i].kind = "create" \/ calls[i].failed \/ calls[i].overtaken)]_libraryVars
  BY <1>1, NextIsLibraryStep, StepStaysOpen
<1>2. QED
  BY <1>1, LibraryAlways, PTL DEF Spec, LessonStaysOpen

-----------------------------------------------------------------------------
(* Progress and visits.                                                    *)

Kinds     == {"practice", "rating", "complete", "reload"}
Practices == {"practice", "rating"}
Modes     == ShadowModes \cup Quizzes

SnapT  == [date : Days, actions : Nat, new : Nat, days : SUBSET Int, done : SUBSET Lessons]
JobT   == [kind : Kinds, pc : {"saving", "reading", "landing"}, new : BOOLEAN,
           lesson : Lessons \cup {NoLesson}, date : Days, got : Nat, seen : SnapT, owned : BOOLEAN]
StoreT == [actions : [Days -> Nat], new : [Days -> Nat], past : Pasts, done : SUBSET Lessons]
\* Of the words a visit missed, missed, nothing is said here.
VisitT(missed) == [lesson : Lessons \cup {NoLesson}, practised : SUBSET (Sentences \X Modes), missed : {missed},
                   started : BOOLEAN, failed : BOOLEAN, view : Views, checked : [Sentences -> SUBSET Answers],
                   selected : SUBSET WordT]

\* s was read no later than day d, of the store st or one before it.
Practised(st) == st.past \cup {d \in Days : st.actions[d] > 0}
Past(s, d, st) == s.date <= d /\ s.days \subseteq Practised(st) /\ s.done \subseteq st.done
Grows(old, new) == /\ new.past = old.past /\ old.done \subseteq new.done
                   /\ \A d \in Days : old.actions[d] <= new.actions[d]

ProgressTyped ==
  /\ day \in Days /\ at \in Days /\ at <= day
  /\ store \in StoreT /\ jobs \in [Slots -> {Idle} \cup JobT]
  /\ shown \in SnapT /\ Past(shown, day, store) /\ shown.date <= at
  /\ \A j \in Slots : jobs[j] # Idle => jobs[j].date <= day /\ Past(jobs[j].seen, day, store)
  /\ goal \in Goals /\ announced \in BOOLEAN /\ lapsed \in BOOLEAN

\* The visit of no lesson.
Unvisited(v) == /\ v.practised = {} /\ v.missed = <<>> /\ ~v.started /\ ~v.failed
                /\ v.view = "shadow" /\ v.checked = NoneChecked /\ v.selected = {}

VisitTyped ==
  /\ visit \in VisitT(visit.missed) /\ (visit.lesson = NoLesson => Unvisited(visit))
  /\ ~SaveDue(visit, shown.done)
  /\ \A j \in Slots : jobs[j].kind = "complete" =>
       jobs[j].lesson # NoLesson /\ (jobs[j].owned => jobs[j].lesson = visit.lesson)

\* No call is idle.
LEMMA IdleIsNoJob == Idle \notin JobT
<1>1. Idle.kind \notin Kinds
  BY DEF Idle, Kinds
<1>2. QED
  BY <1>1 DEF JobT

\* Days are numbered from the first.
LEMMA DaysNat == Days \subseteq Nat /\ 1 \in Days /\ LastDay \in Nat
BY ProgressAssumption DEF Days

\* What was read before stays so.
LEMMA PastStays ==
  ASSUME NEW s \in SnapT, NEW old \in StoreT, NEW new \in StoreT, Grows(old, new),
         NEW d \in Days, NEW e \in Days, d <= e, Past(s, d, old)
  PROVE  Past(s, e, new)
<1>1. ASSUME NEW x \in Practised(old) PROVE x \in Practised(new)
  <2>1. CASE x \in Days /\ old.actions[x] > 0
    <3>1. old.actions[x] \in Nat /\ new.actions[x] \in Nat /\ old.actions[x] <= new.actions[x]
      BY <2>1 DEF StoreT, Grows
    <3>2. new.actions[x] > 0
      BY <2>1, <3>1
    <3>3. QED
      BY <2>1, <3>2 DEF Practised
  <2>2. QED
    BY <1>1, <2>1 DEF Practised, Grows
<1>2. s.date <= e
  <2>1. s.date \in Nat /\ d \in Nat /\ e \in Nat /\ s.date <= d
    BY DaysNat DEF SnapT, Past
  <2>2. QED
    BY <2>1
<1>3. QED
  BY <1>1, <1>2 DEF Past, Grows

\* A job that starts.
IsNew(job, kind, new, lesson) ==
  /\ job \in JobT /\ job # Idle /\ job.seen = Unread /\ Past(Unread, day, store)
  /\ job.kind = kind /\ job.new = new /\ job.lesson = lesson /\ job.date = day /\ job.got = 0 /\ job.owned = TRUE
  /\ job.pc = IF kind = "reload" THEN "reading" ELSE "saving"

\* A call carries what it was started with.
LEMMA JobIs ==
  ASSUME ProgressTyped, NEW kind \in Kinds, NEW new \in BOOLEAN, NEW lesson \in Lessons \cup {NoLesson}
  PROVE  IsNew(Job(kind, new, lesson), kind, new, lesson)
<1> DEFINE job == Job(kind, new, lesson)
<1>1. Unread \in SnapT /\ Unread.date = 1 /\ Unread.days = {} /\ Unread.done = {}
  BY DaysNat DEF Unread, SnapT
<1>2. 1 <= day
  BY DaysNat DEF ProgressTyped, Days
<1>3. Past(Unread, day, store)
  BY <1>1, <1>2 DEF Past
<1>4. job \in JobT /\ job.seen = Unread
  BY <1>1 DEF Job, JobT, ProgressTyped
<1>5. /\ job.kind = kind /\ job.new = new /\ job.lesson = lesson /\ job.date = day /\ job.got = 0 /\ job.owned = TRUE
      /\ job.pc = IF kind = "reload" THEN "reading" ELSE "saving"
  BY DEF Job
<1> HIDE DEF job
<1>6. QED
  BY <1>3, <1>4, <1>5, IdleIsNoJob DEF IsNew, job

\* The slot of a job that starts.
FirstIdle(js) == Min({j \in Slots : js[j] = Idle})

\* A call takes a free slot and leaves the others alone.
LEMMA StartingIs ==
  ASSUME NEW js \in [Slots -> {Idle} \cup JobT], \E j \in Slots : js[j] = Idle, NEW job \in JobT
  PROVE  /\ FirstIdle(js) \in Slots /\ js[FirstIdle(js)] = Idle
         /\ Starting(js, job) \in [Slots -> {Idle} \cup JobT] /\ Starting(js, job)[FirstIdle(js)] = job
         /\ \A j \in Slots : j # FirstIdle(js) => Starting(js, job)[j] = js[j]
<1> DEFINE S == {j \in Slots : js[j] = Idle}
<1>1. S \in SUBSET Nat /\ S # {}
  BY ProgressAssumption
<1>2. Min(S) \in S
  BY <1>1, LeastNumber
<1>3. QED
  BY <1>2 DEF Starting, FirstIdle

\* With two slots free one stays free.
LEMMA OneMoreFree ==
  ASSUME Cardinality(Free) >= 2, NEW k \in Slots
  PROVE  \E j \in Slots \ {k} : jobs[j] = Idle
<1>1. IsFiniteSet(Free)
  BY ProgressAssumption, FS_Subset DEF Free
<1>2. Cardinality({k}) = 1 /\ IsFiniteSet({k}) /\ Cardinality({}) = 0
  BY FS_Singleton, FS_EmptySet
<1>3. ASSUME Free \subseteq {k} PROVE FALSE
  <2>1. Cardinality(Free) <= Cardinality({k})
    BY <1>2, <1>3, FS_Subset
  <2>2. Cardinality(Free) \in Nat
    BY <1>1, FS_CardinalityType
  <2>3. QED
    BY <1>2, <2>1, <2>2
<1>4. QED
  BY <1>3 DEF Free

\* What a reload reads is of the store and of today.
LEMMA SnapshotIs ==
  ASSUME ProgressTyped
  PROVE  /\ Snapshot \in SnapT /\ Past(Snapshot, day, store) /\ PracticeDays = Practised(store)
         /\ Snapshot.date = day /\ Snapshot.actions = store.actions[day] /\ Snapshot.new = store.new[day] /\ Snapshot.done = store.done
<1>1. PracticeDays = Practised(store)
  BY DEF PracticeDays, Practised
<1>2. store.past \subseteq Int
  <2>1. store.past \in Pasts
    BY DEF ProgressTyped, StoreT
  <2>2. QED
    BY <2>1, ProgressAssumption
<1>3. Practised(store) \subseteq Int
  <2>1. Days \subseteq Int
    BY DaysNat
  <2>2. QED
    BY <1>2, <2>1 DEF Practised
<1>4. Snapshot \in SnapT
  BY <1>1, <1>3 DEF Snapshot, SnapT, ProgressTyped, StoreT
<1>5. /\ Snapshot.date = day /\ Snapshot.actions = store.actions[day] /\ Snapshot.new = store.new[day] /\ Snapshot.done = store.done
      /\ Snapshot.days = PracticeDays
  BY DEF Snapshot
<1>6. Snapshot.date <= day
  BY <1>5, DaysNat DEF ProgressTyped
<1>7. Past(Snapshot, day, store)
  BY <1>1, <1>5, <1>6 DEF Past
<1>8. QED
  BY <1>1, <1>4, <1>5, <1>7

\* Between two steps a job goes on, though its caller may have left, or starts.
Carried(a, b) ==
  b = a \/ (/\ a # Idle /\ b # Idle /\ a.kind = "complete" /\ ~b.owned
            /\ b.kind = a.kind /\ b.pc = a.pc /\ b.new = a.new /\ b.lesson = a.lesson
            /\ b.date = a.date /\ b.got = a.got /\ b.seen = a.seen)
Started(b, kinds) ==
  /\ b # Idle /\ b.kind \in kinds /\ b.date = day /\ b.got = 0 /\ b.seen = Unread /\ b.owned
  /\ b.pc = (IF b.kind = "reload" THEN "reading" ELSE "saving") /\ (b.new => b.kind = "rating")
GoesOn(j, kinds) == Carried(jobs[j], jobs'[j]) \/ (jobs[j] = Idle /\ Started(jobs'[j], kinds))

\* Nothing lands: at most the App renders, and jobs start.
Quiet(kinds) ==
  /\ UNCHANGED <<day, store, shown, goal, lapsed>>
  /\ Render(shown, FALSE) \/ UNCHANGED <<at, announced>>
  /\ \A j \in Slots : GoesOn(j, kinds)
\* The jobs under way stay as they are.
Undisturbed == \A j \in Slots : jobs[j] # Idle => jobs'[j] = jobs[j]
\* The refresh of j lands, and a completion may start.
Lands(j) ==
  /\ Land(j)
  /\ jobs'[j] = Idle \/ Started(jobs'[j], {"complete"})
  /\ \A i \in Slots \ {j} : GoesOn(i, {"complete"})

ProgressStep ==
  \/ \E j \in Slots : CommitPractice(j) \/ CommitComplete(j) \/ Read(j) \/ FailWrite(j) \/ FailRead(j) \/ Lands(j)
  \/ Quiet(Kinds) \/ Midnight
  \/ \E g \in Goals : ChooseGoal(g)

\* The effect of a visit on what v, js and done have become.
LEMMA WithSaveIs ==
  ASSUME ProgressTyped, NEW v, v \in VisitT(v.missed), NEW done, NEW js \in [Slots -> {Idle} \cup JobT],
         WithSave(v, done, js), SaveDue(v, done) => \E j \in Slots : js[j] = Idle
  PROVE  /\ visit' \in VisitT(v.missed) /\ ~SaveDue(visit', done)
         /\ visit'.lesson = v.lesson /\ visit'.practised = v.practised /\ visit'.missed = v.missed /\ visit'.failed = v.failed
         /\ visit'.view = v.view /\ visit'.checked = v.checked /\ visit'.selected = v.selected
         /\ visit'.started = (v.started \/ SaveDue(v, done))
         /\ jobs' \in [Slots -> {Idle} \cup JobT]
         /\ ~SaveDue(v, done) => jobs' = js
         /\ SaveDue(v, done) => LET k == FirstIdle(js) IN
              /\ k \in Slots /\ js[k] = Idle /\ Started(jobs'[k], {"complete"}) /\ Past(jobs'[k].seen, day, store)
              /\ v.lesson \in Lessons /\ jobs'[k].lesson = v.lesson
              /\ \A j \in Slots : j # k => jobs'[j] = js[j]
<1> DEFINE due == SaveDue(v, done)
<1>1. due \in BOOLEAN /\ (due => v.lesson \in Lessons /\ v.lesson \notin done)
  BY DEF SaveDue, AllAttempted, VisitT
<1>2. visit' = [v EXCEPT !.started = @ \/ due] /\ jobs' = (IF due THEN Starting(js, Job("complete", FALSE, v.lesson)) ELSE js)
  BY DEF WithSave
<1>3. ~SaveDue(visit', done)
  <2>1. visit'.lesson = v.lesson /\ visit'.practised = v.practised /\ visit'.started = (v.started \/ due)
    BY <1>2 DEF VisitT
  <2>2. AllAttempted(visit') <=> AllAttempted(v)
    BY <2>1 DEF AllAttempted, Attempted
  <2>3. due <=> AllAttempted(v) /\ v.lesson \notin done /\ ~v.started
    BY DEF SaveDue
  <2>4. QED
    BY <2>1, <2>2, <2>3 DEF SaveDue
<1>4. /\ visit' \in VisitT(v.missed)
      /\ visit'.lesson = v.lesson /\ visit'.practised = v.practised /\ visit'.missed = v.missed /\ visit'.failed = v.failed
      /\ visit'.view = v.view /\ visit'.checked = v.checked /\ visit'.selected = v.selected
      /\ visit'.started = (v.started \/ due)
  <2> HIDE DEF due
  <2>1. QED
    BY <1>1, <1>2 DEF VisitT
<1>5. CASE due
  <2> DEFINE job == Job("complete", FALSE, v.lesson)
  <2>0. "complete" \in Kinds /\ FALSE \in BOOLEAN /\ v.lesson \in Lessons \cup {NoLesson}
    BY <1>1, <1>5 DEF Kinds
  <2>3. IsNew(job, "complete", FALSE, v.lesson)
    BY <2>0, JobIs
  <2>1. job \in JobT /\ Started(job, {"complete"}) /\ Past(job.seen, day, store) /\ job.lesson = v.lesson
    BY <2>3 DEF Started, IsNew
  <2>2. \E j \in Slots : js[j] = Idle
    BY <1>5
  <2> HIDE DEF job
  <2>6. /\ FirstIdle(js) \in Slots /\ js[FirstIdle(js)] = Idle
        /\ Starting(js, job) \in [Slots -> {Idle} \cup JobT] /\ Starting(js, job)[FirstIdle(js)] = job
        /\ \A j \in Slots : j # FirstIdle(js) => Starting(js, job)[j] = js[j]
    BY <2>1, <2>2, StartingIs
  <2>4. jobs' = Starting(js, job)
    BY <1>2, <1>5 DEF job
  <2>5. QED
    BY <1>1, <1>3, <1>4, <1>5, <2>1, <2>4, <2>6
<1>6. CASE ~due
  BY <1>1, <1>2, <1>3, <1>4, <1>6
<1>7. QED
  BY <1>5, <1>6

TypeHyp == ProgressTyped /\ VisitTyped
StepIs  == ProgressStep /\ jobs' \in [Slots -> {Idle} \cup JobT] /\ VisitTyped'

\* The completions of a visit that stays.
LEMMA VisitKept ==
  ASSUME VisitTyped, visit' = visit, shown'.done = shown.done,
         \A j \in Slots : jobs'[j].kind = "complete" =>
           jobs[j].kind = "complete" /\ jobs'[j].lesson = jobs[j].lesson /\ (jobs'[j].owned => jobs[j].owned)
  PROVE  VisitTyped'
<1>1. SaveDue(visit, shown.done)' = SaveDue(visit, shown.done)
  BY DEF SaveDue, AllAttempted, Attempted
<1>2. Unvisited(visit)' = Unvisited(visit)
  BY DEF Unvisited
<1>3. QED
  BY <1>1, <1>2 DEF VisitTyped

\* Jobs that go on are of the types, and completions among them are of this visit.
LEMMA GoOnKeep ==
  ASSUME TypeHyp, NEW j \in Slots, NEW kinds, GoesOn(j, kinds)
  PROVE  jobs'[j].kind = "complete" /\ ~("complete" \in kinds) =>
           jobs[j].kind = "complete" /\ jobs'[j].lesson = jobs[j].lesson /\ (jobs'[j].owned => jobs[j].owned)
BY DEF GoesOn, Carried, Started

\* A slot without a call is of no kind.
LEMMA IdleKind == Idle.kind = "idle" /\ \A job \in JobT : job.kind \in Kinds /\ job # Idle
BY IdleIsNoJob DEF Idle, JobT

\* A job that starts, of no visit.
LEMMA StartKeeps ==
  ASSUME TypeHyp, NEW kind \in Kinds \ {"complete"}, NEW new \in BOOLEAN, new => kind = "rating", Free # {},
         jobs' = Starting(jobs, Job(kind, new, NoLesson)), UNCHANGED <<day, store, shown, goal, lapsed, visit>>,
         Render(shown, FALSE) \/ UNCHANGED <<at, announced>>
  PROVE  StepIs /\ Quiet({kind}) /\ Undisturbed
<1> DEFINE job == Job(kind, new, NoLesson)
           k == FirstIdle(jobs)
<1>1. IsNew(job, kind, new, NoLesson)
  BY JobIs DEF TypeHyp
<1>2. Started(job, {kind}) /\ Started(job, Kinds) /\ job \in JobT /\ job.kind # "complete"
  BY <1>1 DEF IsNew, Started
<1> HIDE DEF job
<1>3. /\ k \in Slots /\ jobs[k] = Idle
      /\ Starting(jobs, job) \in [Slots -> {Idle} \cup JobT] /\ Starting(jobs, job)[k] = job
      /\ \A j \in Slots : j # k => Starting(jobs, job)[j] = jobs[j]
  <2>1. jobs \in [Slots -> {Idle} \cup JobT] /\ \E j \in Slots : jobs[j] = Idle
    BY DEF Free, TypeHyp, ProgressTyped
  <2>2. QED
    BY <1>2, <2>1, StartingIs
<1>4. jobs' = Starting(jobs, job)
  BY DEF job
<1> HIDE DEF k
<1>5. \A j \in Slots : GoesOn(j, {kind}) /\ GoesOn(j, Kinds)
  BY <1>2, <1>3, <1>4 DEF GoesOn, Carried
<1>6. VisitTyped'
  <2>1. \A j \in Slots : jobs'[j].kind = "complete" => jobs'[j] = jobs[j]
    BY <1>2, <1>3, <1>4
  <2>2. QED
    BY <2>1, VisitKept DEF TypeHyp
<1>7. QED
  BY <1>3, <1>4, <1>5, <1>6 DEF StepIs, ProgressStep, Quiet, Undisturbed

\* The visit follows the lesson on screen.
LEMMA FollowKeeps ==
  ASSUME TypeHyp, NEW lesson \in Lessons \cup {NoLesson}, VisitFollows(lesson),
         UNCHANGED <<day, store, shown, goal, lapsed>>, Render(shown, FALSE) \/ UNCHANGED <<at, announced>>
  PROVE  StepIs /\ Quiet({}) /\ visit'.lesson = lesson
<1>1. CASE lesson = visit.lesson
  <2>1. visit' = visit /\ jobs' = jobs
    BY <1>1 DEF VisitFollows
  <2>2. \A j \in Slots : GoesOn(j, {}) /\ GoesOn(j, Kinds)
    BY <2>1 DEF GoesOn, Carried
  <2>3. VisitTyped'
    BY <2>1, VisitKept DEF TypeHyp
  <2>4. QED
    BY <1>1, <2>1, <2>2, <2>3 DEF StepIs, ProgressStep, Quiet, TypeHyp, ProgressTyped
<1>2. CASE lesson # visit.lesson
  <2>1. visit' = [NoVisit EXCEPT !.lesson = lesson] /\ jobs' = Disowned
    BY <1>2 DEF VisitFollows
  <2>2. visit'.lesson = lesson /\ Unvisited(visit') /\ visit' \in VisitT(visit'.missed)
    <3>1. NoneChecked \in [Sentences -> SUBSET Answers]
      BY DEF NoneChecked
    <3>2. QED
      BY <2>1, <3>1 DEF NoVisit, Unvisited, VisitT, Views
  <2>3. ~SaveDue(visit', shown'.done)
    <3>1. Attempted(visit') = {}
      BY <2>2 DEF Unvisited, Attempted
    <3>2. QED
      BY <3>1, VisitAssumption DEF SaveDue, AllAttempted
  <2>4. ASSUME NEW j \in Slots
        PROVE  /\ jobs'[j] \in {Idle} \cup JobT /\ Carried(jobs[j], jobs'[j])
               /\ jobs'[j].kind = "complete" => ~jobs'[j].owned /\ jobs'[j].lesson # NoLesson
    <3>1. jobs[j] \in {Idle} \cup JobT
      BY DEF TypeHyp, ProgressTyped
    <3>2. CASE jobs[j].kind # "complete"
      <4>1. jobs'[j] = jobs[j]
        BY <2>1, <3>2 DEF Disowned
      <4>2. QED
        BY <3>1, <3>2, <4>1 DEF Carried
    <3>3. CASE jobs[j].kind = "complete"
      <4>1. jobs[j] \in JobT
        BY <3>1, <3>3, IdleKind
      <4>2. jobs'[j] = [jobs[j] EXCEPT !.owned = FALSE]
        BY <2>1, <3>3 DEF Disowned
      <4>3. /\ jobs'[j] \in JobT /\ ~jobs'[j].owned
            /\ jobs'[j].kind = jobs[j].kind /\ jobs'[j].pc = jobs[j].pc /\ jobs'[j].new = jobs[j].new
            /\ jobs'[j].lesson = jobs[j].lesson /\ jobs'[j].date = jobs[j].date /\ jobs'[j].got = jobs[j].got
            /\ jobs'[j].seen = jobs[j].seen
        BY <4>1, <4>2 DEF JobT
      <4>4. QED
        BY <3>3, <4>1, <4>3, IdleKind DEF Carried, TypeHyp, VisitTyped
    <3>4. QED
      BY <3>2, <3>3
  <2>5. jobs' \in [Slots -> {Idle} \cup JobT]
    BY <2>1, <2>4 DEF Disowned
  <2>6. VisitTyped'
    BY <2>2, <2>3, <2>4 DEF VisitTyped
  <2>7. \A j \in Slots : GoesOn(j, {}) /\ GoesOn(j, Kinds)
    BY <2>4 DEF GoesOn
  <2>8. QED
    BY <2>2, <2>5, <2>6, <2>7 DEF StepIs, ProgressStep, Quiet
<1>3. QED
  BY <1>1, <1>2

\* A save of the visit's completion is under way.
Saving(js, lesson) ==
  \E j \in Slots : js[j].kind = "complete" /\ js[j].owned /\ js[j].lesson = lesson /\ js[j].pc = "saving"

\* Try again of a failed completion.
LEMMA RetryKeeps ==
  ASSUME TypeHyp, RetrySave
  PROVE  StepIs /\ Quiet({"complete"}) /\ visit' = visit
<1> DEFINE job == Job("complete", FALSE, visit.lesson)
           k == FirstIdle(jobs)
<1>1. visit.lesson \in Lessons /\ visit.lesson # NoLesson
  BY DEF RetrySave, AllAttempted, TypeHyp, VisitTyped, VisitT
<1>2. IsNew(job, "complete", FALSE, visit.lesson)
  <2>1. "complete" \in Kinds
    BY DEF Kinds
  <2>2. QED
    BY <1>1, <2>1, JobIs DEF TypeHyp
<1>3. Started(job, {"complete"}) /\ Started(job, Kinds) /\ job \in JobT /\ job.kind = "complete" /\ job.lesson = visit.lesson
  BY <1>2 DEF IsNew, Started, Kinds
<1> HIDE DEF job
<1>4. /\ k \in Slots /\ jobs[k] = Idle
      /\ Starting(jobs, job) \in [Slots -> {Idle} \cup JobT] /\ Starting(jobs, job)[k] = job
      /\ \A j \in Slots : j # k => Starting(jobs, job)[j] = jobs[j]
  <2>1. jobs \in [Slots -> {Idle} \cup JobT] /\ \E j \in Slots : jobs[j] = Idle
    BY DEF Free, RetrySave, TypeHyp, ProgressTyped
  <2>2. QED
    BY <1>3, <2>1, StartingIs
<1>5. jobs' = Starting(jobs, job) /\ UNCHANGED <<day, at, store, shown, goal, announced, lapsed, visit>>
  BY DEF job, RetrySave
<1> HIDE DEF k
<1>6. \A j \in Slots : GoesOn(j, {"complete"}) /\ GoesOn(j, Kinds)
  BY <1>3, <1>4, <1>5 DEF GoesOn, Carried
<1>7. VisitTyped'
  <2>1. SaveDue(visit, shown.done)' = SaveDue(visit, shown.done) /\ Unvisited(visit)' = Unvisited(visit)
    BY <1>5 DEF SaveDue, AllAttempted, Attempted, Unvisited
  <2>2. \A j \in Slots : jobs'[j].kind = "complete" => jobs'[j].lesson # NoLesson /\ (jobs'[j].owned => jobs'[j].lesson = visit.lesson)
    BY <1>1, <1>3, <1>4, <1>5 DEF TypeHyp, VisitTyped
  <2>3. QED
    BY <1>5, <2>1, <2>2 DEF TypeHyp, VisitTyped
<1>8. QED
  BY <1>4, <1>5, <1>6, <1>7 DEF StepIs, ProgressStep, Quiet

\* Practice in a visit that v differs from in its missed words and checked answers.
LEMMA PracticeKeeps ==
  ASSUME TypeHyp, NEW v, v \in VisitT(v.missed), visit.lesson # NoLesson,
         v.lesson = visit.lesson, v.practised = visit.practised, v.started = visit.started, v.failed = visit.failed,
         NEW s \in Sentences, NEW mode \in Modes, Practice(v, s, mode)
  PROVE  /\ StepIs /\ Quiet({"practice", "complete"}) /\ Undisturbed
         /\ visit'.lesson = visit.lesson /\ visit'.failed = visit.failed /\ visit.practised \subseteq visit'.practised
         /\ visit.started => visit'.started
         /\ visit'.started /\ ~visit.started => AllAttempted(visit') /\ Saving(jobs', visit.lesson)
<1> DEFINE first == <<s, mode>> \notin v.practised
           w == [v EXCEPT !.practised = @ \cup {<<s, mode>>}]
           k == FirstIdle(jobs)
           job == Job("practice", FALSE, v.lesson)
           js == IF first THEN Starting(jobs, job) ELSE jobs
           due == SaveDue(w, shown.done)
<1>1. /\ w \in VisitT(w.missed) /\ w.lesson = visit.lesson /\ w.practised = visit.practised \cup {<<s, mode>>}
      /\ w.missed = v.missed /\ w.started = visit.started /\ w.failed = visit.failed
  BY DEF VisitT
<1>2. /\ WithSave(w, shown.done, js)
      /\ UNCHANGED <<day, at, store, shown, goal, announced, lapsed>>
      /\ first => Cardinality(Free) >= 2
  BY DEF Practice
<1>3. ASSUME ~first PROVE ~due
  <2>1. w.practised = visit.practised
    BY <1>1, <1>3
  <2>2. due = SaveDue(visit, shown.done)
    BY <1>1, <2>1 DEF SaveDue, AllAttempted, Attempted
  <2>3. QED
    BY <2>2 DEF TypeHyp, VisitTyped
<1>4. ASSUME first
      PROVE  /\ Started(job, {"practice"}) /\ job \in JobT /\ job.kind = "practice"
             /\ k \in Slots /\ jobs[k] = Idle /\ js[k] = job /\ js \in [Slots -> {Idle} \cup JobT]
             /\ \A j \in Slots : j # k => js[j] = jobs[j]
             /\ \E j \in Slots : js[j] = Idle
  <2>1. IsNew(job, "practice", FALSE, v.lesson)
    <3>1. "practice" \in Kinds /\ v.lesson \in Lessons \cup {NoLesson}
      BY DEF Kinds, VisitT
    <3>2. QED
      BY <3>1, JobIs DEF TypeHyp
  <2>2. Started(job, {"practice"}) /\ job \in JobT /\ job.kind = "practice"
    BY <2>1 DEF IsNew, Started
  <2>3. jobs \in [Slots -> {Idle} \cup JobT] /\ \E j \in Slots : jobs[j] = Idle
    <3>1. Free # {}
      BY <1>2, <1>4, FS_EmptySet
    <3>2. QED
      BY <3>1 DEF Free, TypeHyp, ProgressTyped
  <2> HIDE DEF job
  <2>4. js = Starting(jobs, job)
    BY <1>4
  <2> HIDE DEF js
  <2>5. k \in Slots /\ jobs[k] = Idle /\ js[k] = job /\ js \in [Slots -> {Idle} \cup JobT] /\ \A j \in Slots : j # k => js[j] = jobs[j]
    BY <2>2, <2>3, <2>4, StartingIs
  <2>6. PICK i \in Slots \ {k} : jobs[i] = Idle
    BY <1>2, <1>4, <2>5, OneMoreFree
  <2>7. QED
    BY <2>2, <2>5, <2>6
<1>5. js \in [Slots -> {Idle} \cup JobT] /\ (due => \E j \in Slots : js[j] = Idle)
  BY <1>3, <1>4 DEF TypeHyp, ProgressTyped
<1>6. \A j \in Slots : js[j] = jobs[j] \/ (jobs[j] = Idle /\ Started(js[j], {"practice"}) /\ js[j] \in JobT /\ js[j].kind = "practice")
  <2> HIDE DEF job, k
  <2>1. QED
    BY <1>4
<1> HIDE DEF js, job, k, w
<1>7. /\ visit' \in VisitT(w.missed) /\ ~SaveDue(visit', shown.done)
      /\ visit'.lesson = w.lesson /\ visit'.practised = w.practised /\ visit'.missed = w.missed /\ visit'.failed = w.failed
      /\ visit'.started = (w.started \/ due)
      /\ jobs' \in [Slots -> {Idle} \cup JobT]
      /\ ~due => jobs' = js
      /\ due => LET i == FirstIdle(js) IN
           /\ i \in Slots /\ js[i] = Idle /\ Started(jobs'[i], {"complete"})
           /\ w.lesson \in Lessons /\ jobs'[i].lesson = w.lesson
           /\ \A j \in Slots : j # i => jobs'[j] = js[j]
  <2>1. ProgressTyped
    BY DEF TypeHyp
  <2>2. QED
    BY <1>1, <1>2, <1>5, <2>1, WithSaveIs
<1>8. \A j \in Slots : \/ jobs'[j] = jobs[j]
                       \/ /\ jobs[j] = Idle /\ Started(jobs'[j], {"practice", "complete"}) /\ Started(jobs'[j], Kinds)
                          /\ (jobs'[j].kind = "complete" => jobs'[j].lesson = visit.lesson)
  <2>1. \A job_ : Started(job_, {"practice"}) \/ Started(job_, {"complete"}) =>
          Started(job_, {"practice", "complete"}) /\ Started(job_, Kinds)
    BY DEF Started, Kinds
  <2>2. \A job_ : Started(job_, {"practice"}) => job_.kind = "practice"
    BY DEF Started
  <2>3. Idle \notin JobT
    BY IdleIsNoJob
  <2>4. CASE ~due
    BY <1>6, <1>7, <2>1, <2>2, <2>4
  <2>5. CASE due
    BY <1>1, <1>6, <1>7, <2>1, <2>2, <2>3, <2>5
  <2>6. QED
    BY <2>4, <2>5
<1>9. VisitTyped'
  <2>1. \A j \in Slots : jobs'[j].kind = "complete" => jobs'[j].lesson # NoLesson /\ (jobs'[j].owned => jobs'[j].lesson = visit.lesson)
    BY <1>8 DEF TypeHyp, VisitTyped
  <2>2. QED
    BY <1>1, <1>2, <1>7, <2>1 DEF VisitTyped
<1>10. visit'.started /\ ~visit.started => AllAttempted(visit') /\ Saving(jobs', visit.lesson)
  <2>1. SUFFICES ASSUME due PROVE AllAttempted(visit') /\ Saving(jobs', visit.lesson)
    BY <1>1, <1>7
  <2>2. AllAttempted(w)
    BY <2>1 DEF SaveDue
  <2>3. AllAttempted(visit')
    BY <1>7, <2>2 DEF AllAttempted, Attempted
  <2>4. QED
    BY <1>1, <1>7, <2>1, <2>3 DEF Saving, Started
<1>11. \A j \in Slots : GoesOn(j, {"practice", "complete"}) /\ GoesOn(j, Kinds)
  BY <1>8 DEF GoesOn, Carried
<1>12. QED
  BY <1>1, <1>2, <1>7, <1>8, <1>9, <1>10, <1>11 DEF StepIs, ProgressStep, Quiet, Undisturbed

\* A change of the visit that practises nothing.
LEMMA VisitChanges ==
  ASSUME TypeHyp, UNCHANGED progressVars, visit.lesson # NoLesson, visit' \in VisitT(visit'.missed),
         visit'.lesson = visit.lesson, visit'.practised = visit.practised, visit'.started = visit.started
  PROVE  StepIs /\ Quiet({"practice", "complete"}) /\ Undisturbed
<1>1. UNCHANGED <<day, at, store, shown, jobs, goal, announced, lapsed>>
  BY DEF progressVars
<1>2. SaveDue(visit', shown'.done) = SaveDue(visit, shown.done)
  BY <1>1 DEF SaveDue, AllAttempted, Attempted
<1>3. VisitTyped' /\ jobs' \in [Slots -> {Idle} \cup JobT]
  BY <1>1, <1>2 DEF VisitTyped, TypeHyp, ProgressTyped
<1>4. \A j \in Slots : GoesOn(j, {"practice", "complete"}) /\ GoesOn(j, Kinds)
  BY <1>1 DEF GoesOn, Carried
<1>5. QED
  BY <1>1, <1>3, <1>4 DEF StepIs, ProgressStep, Quiet, Undisturbed

\* What the visit makes of an answer.
LEMMA AnsweredIs ==
  ASSUME TypeHyp, NEW j \in Slots, NEW failed \in BOOLEAN
  PROVE  LET v == Answered(j, failed) IN
         /\ v \in VisitT(v.missed) /\ v.lesson = visit.lesson /\ v.practised = visit.practised
         /\ v.started = visit.started /\ (v.lesson = NoLesson => Unvisited(v))
         /\ jobs[j].kind = "complete" /\ jobs[j].owned => v.failed = failed /\ jobs[j].lesson = visit.lesson
         /\ ~(jobs[j].kind = "complete" /\ jobs[j].owned) => v = visit
<1>1. CASE jobs[j].kind = "complete" /\ jobs[j].owned
  <2>1. jobs[j].lesson = visit.lesson /\ visit.lesson # NoLesson
    BY <1>1 DEF TypeHyp, VisitTyped
  <2>2. Answered(j, failed) = [visit EXCEPT !.failed = failed]
    BY <1>1 DEF Answered
  <2>3. QED
    BY <1>1, <2>1, <2>2 DEF TypeHyp, VisitTyped, VisitT
<1>2. CASE ~(jobs[j].kind = "complete" /\ jobs[j].owned)
  BY <1>2 DEF Answered, TypeHyp, VisitTyped
<1>3. QED
  BY <1>1, <1>2

\* A call that fails.
LEMMA FailKeeps ==
  ASSUME TypeHyp, NEW j \in Slots, VisitFailWrite(j) \/ VisitFailRead(j)
  PROVE  StepIs
<1>1. PICK failed \in BOOLEAN : visit' = Answered(j, failed)
  BY DEF VisitFailWrite, VisitFailRead
<1>2. FailWrite(j) \/ FailRead(j)
  BY DEF VisitFailWrite, VisitFailRead
<1>3. shown' = shown /\ jobs' = [jobs EXCEPT ![j] = Idle]
  BY <1>2 DEF FailWrite, FailRead, Render
<1>4. jobs' \in [Slots -> {Idle} \cup JobT]
  BY <1>3 DEF TypeHyp, ProgressTyped
<1>5. visit' \in VisitT(visit'.missed) /\ visit'.lesson = visit.lesson /\ visit'.practised = visit.practised
      /\ visit'.started = visit.started /\ (visit'.lesson = NoLesson => Unvisited(visit'))
  BY <1>1, AnsweredIs
<1>6. ~SaveDue(visit', shown'.done)
  BY <1>3, <1>5 DEF SaveDue, AllAttempted, Attempted, TypeHyp, VisitTyped
<1>7. \A i \in Slots : jobs'[i].kind = "complete" => jobs'[i] = jobs[i]
  BY <1>3, IdleKind DEF TypeHyp, ProgressTyped
<1>8. VisitTyped'
  BY <1>5, <1>6, <1>7 DEF VisitTyped, TypeHyp
<1>9. QED
  BY <1>2, <1>4, <1>8 DEF StepIs, ProgressStep

\* A refresh that lands, and the completion it may start.
LEMMA LandKeeps ==
  ASSUME TypeHyp, NEW j \in Slots, VisitLand(j)
  PROVE  /\ StepIs /\ Lands(j)
         /\ visit'.lesson = visit.lesson /\ visit'.practised = visit.practised
         /\ visit'.failed = Answered(j, FALSE).failed /\ (visit.started => visit'.started)
         /\ visit'.started /\ ~visit.started => AllAttempted(visit') /\ Saving(jobs', visit.lesson)
<1> DEFINE v == Answered(j, FALSE)
           js == [jobs EXCEPT ![j] = Idle]
           done == jobs[j].seen.done
           due == SaveDue(v, done)
<1>1. Land(j) /\ WithSave(v, done, js) /\ jobs \in [Slots -> {Idle} \cup JobT]
  BY DEF VisitLand, TypeHyp, ProgressTyped
<1>2. js \in [Slots -> {Idle} \cup JobT] /\ js[j] = Idle /\ \A i \in Slots : i # j => js[i] = jobs[i]
  BY <1>1
<1>3. /\ v \in VisitT(v.missed) /\ v.lesson = visit.lesson /\ v.practised = visit.practised
      /\ v.started = visit.started /\ (v.lesson = NoLesson => Unvisited(v))
  BY AnsweredIs
<1>4. shown'.done = done
  BY <1>1 DEF Land, Render
<1> HIDE DEF v, js, done
<1>5. /\ visit' \in VisitT(v.missed) /\ ~SaveDue(visit', done)
      /\ visit'.lesson = v.lesson /\ visit'.practised = v.practised /\ visit'.missed = v.missed /\ visit'.failed = v.failed
      /\ visit'.view = v.view /\ visit'.checked = v.checked /\ visit'.selected = v.selected
      /\ visit'.started = (v.started \/ due)
      /\ jobs' \in [Slots -> {Idle} \cup JobT]
      /\ ~due => jobs' = js
      /\ due => LET i == FirstIdle(js) IN
           /\ i \in Slots /\ js[i] = Idle /\ Started(jobs'[i], {"complete"})
           /\ v.lesson \in Lessons /\ jobs'[i].lesson = v.lesson
           /\ \A k \in Slots : k # i => jobs'[k] = js[k]
  <2>1. ProgressTyped
    BY DEF TypeHyp
  <2>2. QED
    BY <1>1, <1>2, <1>3, <2>1, WithSaveIs
<1>6. \A i \in Slots : jobs'[i] = js[i] \/ (js[i] = Idle /\ Started(jobs'[i], {"complete"}) /\ jobs'[i].lesson = visit.lesson /\ due)
  BY <1>3, <1>5
<1>7. due => visit.lesson # NoLesson
  BY <1>3 DEF SaveDue, AllAttempted
<1>8. \A i \in Slots : jobs'[i].kind = "complete" => jobs'[i].lesson # NoLesson /\ (jobs'[i].owned => jobs'[i].lesson = visit.lesson)
  <2>1. Idle.kind # "complete"
    BY IdleKind
  <2>2. QED
    BY <1>2, <1>6, <1>7, <2>1 DEF TypeHyp, VisitTyped
<1>9. VisitTyped'
  <2>1. visit'.lesson = NoLesson => Unvisited(visit')
    BY <1>3, <1>5, <1>7 DEF Unvisited
  <2>2. QED
    BY <1>3, <1>4, <1>5, <1>8, <2>1 DEF VisitTyped
<1>10. Lands(j)
  BY <1>1, <1>2, <1>6 DEF Lands, GoesOn, Carried
<1>11. visit'.started /\ ~visit.started => AllAttempted(visit') /\ Saving(jobs', visit.lesson)
  <2>1. SUFFICES ASSUME due PROVE AllAttempted(visit') /\ Saving(jobs', visit.lesson)
    BY <1>3, <1>5
  <2>2. AllAttempted(visit')
    BY <1>5, <2>1 DEF SaveDue, AllAttempted, Attempted
  <2>3. QED
    BY <1>3, <1>5, <2>1, <2>2 DEF Saving, Started
<1>12. QED
  BY <1>3, <1>5, <1>9, <1>10, <1>11 DEF StepIs, ProgressStep, v

\* A job that moves on.
LEMMA CallKeeps ==
  ASSUME TypeHyp, NEW j \in Slots, CommitPractice(j) \/ CommitComplete(j) \/ Read(j), visit' = visit
  PROVE  StepIs
<1>1. jobs[j] \in JobT /\ jobs \in [Slots -> {Idle} \cup JobT] /\ store.actions[jobs[j].date] + 1 \in Nat
  <2>1. jobs[j] \in JobT /\ jobs \in [Slots -> {Idle} \cup JobT]
    BY IdleKind DEF CommitPractice, CommitComplete, Read, TypeHyp, ProgressTyped
  <2>2. jobs[j].date \in Days /\ store.actions \in [Days -> Nat]
    BY <2>1 DEF JobT, TypeHyp, ProgressTyped, StoreT
  <2>3. QED
    BY <2>1, <2>2
<1>2. PICK job \in JobT : /\ jobs' = [jobs EXCEPT ![j] = job]
                          /\ job.kind = jobs[j].kind /\ job.lesson = jobs[j].lesson /\ job.owned = jobs[j].owned
  <2>1. CASE CommitPractice(j)
    <3> DEFINE job == [jobs[j] EXCEPT !.pc = "reading", !.new = FALSE, !.got = store.actions[jobs[j].date] + 1]
    <3>1. job \in JobT /\ job.kind = jobs[j].kind /\ job.lesson = jobs[j].lesson /\ job.owned = jobs[j].owned
      BY <1>1 DEF JobT
    <3>2. jobs' = [jobs EXCEPT ![j] = job]
      BY <1>1, <2>1 DEF CommitPractice
    <3>3. QED
      BY <3>1, <3>2
  <2>2. CASE CommitComplete(j)
    <3> DEFINE job == [jobs[j] EXCEPT !.pc = "reading"]
    <3>1. job \in JobT /\ job.kind = jobs[j].kind /\ job.lesson = jobs[j].lesson /\ job.owned = jobs[j].owned
      BY <1>1 DEF JobT
    <3>2. jobs' = [jobs EXCEPT ![j] = job]
      BY <1>1, <2>2 DEF CommitComplete
    <3>3. QED
      BY <3>1, <3>2
  <2>3. CASE Read(j)
    <3> DEFINE job == [jobs[j] EXCEPT !.pc = "landing", !.seen = Snapshot]
    <3>0. Snapshot \in SnapT
      BY SnapshotIs DEF TypeHyp
    <3>1. job \in JobT /\ job.kind = jobs[j].kind /\ job.lesson = jobs[j].lesson /\ job.owned = jobs[j].owned
      BY <1>1, <3>0 DEF JobT
    <3>2. jobs' = [jobs EXCEPT ![j] = job]
      BY <1>1, <2>3 DEF Read
    <3>3. QED
      BY <3>1, <3>2
  <2>4. QED
    BY <2>1, <2>2, <2>3
<1>3. shown' = shown
  BY DEF CommitPractice, CommitComplete, Read
<1>4. jobs' \in [Slots -> {Idle} \cup JobT] /\ VisitTyped'
  <2>1. \A i \in Slots : jobs'[i].kind = "complete" =>
           jobs[i].kind = "complete" /\ jobs'[i].lesson = jobs[i].lesson /\ (jobs'[i].owned => jobs[i].owned)
    BY <1>1, <1>2
  <2>2. QED
    BY <1>1, <1>2, <1>3, <2>1, VisitKept DEF TypeHyp
<1>5. QED
  BY <1>4 DEF StepIs, ProgressStep

\* The ratings under way; one that waits for a refresh, or its practice, waits for
\* one of its own.
RateT == [pc : {"saving", "fetching", "recording"}, card : Cards \cup {0}, version : Nat, new : BOOLEAN,
          again : BOOLEAN, saved : BOOLEAN, fetch : Fetches \cup {0}, job : Slots \cup {0}, mounted : BOOLEAN]
Records(i, j) == ratings[i].pc = "recording" /\ ratings[i].job = j
RatingInv ==
  /\ ratings \in [Raters -> {NoRating} \cup RateT]
  /\ \A i \in Raters : ratings[i].pc = "fetching" =>
       /\ ratings[i].fetch \in Fetches /\ fetches[ratings[i].fetch].by = "rating"
       /\ \A r \in Raters \ {i} : ~Awaits(r, ratings[i].fetch)
  /\ \A i \in Raters : ratings[i].pc = "recording" =>
       /\ ratings[i].job \in Slots /\ jobs[ratings[i].job].kind = "rating"
       /\ \A r \in Raters \ {i} : ~Records(r, ratings[i].job)

\* A rating under way is saving, refreshing or recording.
LEMMA NoRatingIs == NoRating.pc = "idle" /\ \A r \in RateT : r # NoRating /\ r.pc \in {"saving", "fetching", "recording"}
<1>1. NoRating.pc = "idle"
  BY DEF NoRating
<1>2. QED
  BY <1>1 DEF RateT

\* A rating that awaits a refresh goes on or is over when it ends.
LEMMA ContinueIs ==
  ASSUME RatingInv, NEW k, Continue(k)
  PROVE  \/ UNCHANGED <<ratings, jobs, recap>> /\ \A i \in Raters : ~Awaits(i, k)
         \/ \E i \in Raters : /\ Awaits(i, k) /\ ratings[i] \in RateT /\ ratings[i].new \in BOOLEAN
                              /\ Recording(i) \/ (EndRating(i) /\ UNCHANGED <<jobs, recap>>)
<1>1. CASE \A i \in Raters : ~Awaits(i, k)
  BY <1>1 DEF Continue
<1>2. CASE ~\A i \in Raters : ~Awaits(i, k)
  <2>1. PICK i \in Raters : Awaits(i, k) /\ (Recording(i) \/ (EndRating(i) /\ UNCHANGED <<jobs, recap>>))
    BY <1>2 DEF Continue
  <2>2. ratings[i] \in RateT /\ ratings[i].new \in BOOLEAN
    BY <2>1, NoRatingIs DEF Awaits, RatingInv, RateT
  <2>3. QED
    BY <2>1, <2>2
<1>3. QED
  BY <1>1, <1>2

\* A step, as the visit sees it.
VisitStep ==
  \/ \E j \in Slots : (CommitPractice(j) \/ CommitComplete(j) \/ Read(j)) /\ visit' = visit
  \/ \E j \in Slots : VisitFailWrite(j) \/ VisitFailRead(j) \/ VisitLand(j)
  \/ \E lesson \in Lessons \cup {NoLesson} : VisitFollows(lesson) /\ UNCHANGED <<store, shown>>
  \/ RetrySave
  \/ /\ Quiet({"practice", "complete"}) /\ Undisturbed
     /\ visit'.lesson = visit.lesson /\ visit'.failed = visit.failed /\ visit.practised \subseteq visit'.practised
     /\ visit.started => visit'.started
     /\ visit'.started /\ ~visit.started => AllAttempted(visit') /\ Saving(jobs', visit.lesson)
  \/ UNCHANGED <<store, shown, jobs, visit>>
  \/ Quiet({"reload", "rating"}) /\ Undisturbed /\ visit' = visit

\* A step that leaves progress and visit alone.
LEMMA SameVisit ==
  ASSUME TypeHyp, UNCHANGED <<day, store, shown, jobs, goal, lapsed, visit>>, Render(shown, FALSE) \/ UNCHANGED <<at, announced>>
  PROVE  StepIs /\ VisitStep
<1>1. VisitTyped'
  BY VisitKept DEF TypeHyp
<1>2. \A j \in Slots : GoesOn(j, Kinds)
  BY DEF GoesOn, Carried
<1>3. QED
  BY <1>1, <1>2 DEF StepIs, ProgressStep, Quiet, VisitStep, TypeHyp, ProgressTyped

\* What the steps of a lesson do to its visit.
LEMMA LessonSteps ==
  ASSUME TypeHyp, SceneTyped, Lesson
  PROVE  StepIs /\ VisitStep /\ Quiet({"practice", "complete"}) /\ visit'.lesson = visit.lesson
<1>1. scene.modes \subseteq Modes /\ scene.views \subseteq Views /\ scene.answers \subseteq Answers
  BY LearnerAssumption DEF SceneTyped, Modes
<1>2. visit \in VisitT(visit.missed) /\ (visit.lesson = NoLesson => Unvisited(visit))
  BY DEF TypeHyp, VisitTyped
<1>3. CASE RetrySave
  BY <1>3, RetryKeeps DEF VisitStep, Quiet, GoesOn, Started
<1>4. ASSUME NEW s \in Sentences, NEW mode \in scene.modes, Shadow(s, mode) PROVE StepIs /\ VisitStep /\ Quiet({"practice", "complete"}) /\ visit'.lesson = visit.lesson
  <2>1. visit.lesson # NoLesson /\ Practice(visit, s, mode) /\ mode \in Modes
    BY <1>1, <1>4 DEF Shadow
  <2>2. QED
    BY <1>2, <2>1, PracticeKeeps DEF VisitStep
<1>5. ASSUME NEW s \in Sentences, NEW answer \in Answers, NEW words, visit.view \in Quizzes, Check(s, answer, words)
      PROVE  StepIs /\ VisitStep /\ Quiet({"practice", "complete"}) /\ visit'.lesson = visit.lesson
  <2> DEFINE v == [visit EXCEPT !.checked[s] = {answer}]
             w == Miss(v, s, words)
  <2>1. visit.lesson # NoLesson
    BY <1>2, <1>5 DEF Unvisited, Quizzes
  <2>2. v \in VisitT(v.missed) /\ v.lesson = visit.lesson /\ v.practised = visit.practised /\ v.started = visit.started /\ v.failed = visit.failed
    BY <1>2 DEF VisitT
  <2>3. w \in VisitT(w.missed) /\ w.lesson = visit.lesson /\ w.practised = visit.practised /\ w.started = visit.started /\ w.failed = visit.failed
    BY <2>2 DEF Miss, VisitT
  <2>4. (visit' = v /\ UNCHANGED progressVars) \/ Practice(w, s, visit.view)
    BY <1>5 DEF Check
  <2> HIDE DEF w
  <2>5. visit.view \in Modes
    BY <1>5 DEF Modes
  <2>6. CASE Practice(w, s, visit.view)
    BY <2>1, <2>3, <2>5, <2>6, PracticeKeeps DEF VisitStep
  <2>7. CASE visit' = v /\ UNCHANGED progressVars
    BY <2>1, <2>2, <2>7, VisitChanges DEF VisitStep
  <2>8. QED
    BY <2>4, <2>6, <2>7
<1>6. ASSUME NEW s \in Sentences, NEW answer \in scene.answers, CheckDictation(s, answer) \/ CheckBlank(s, answer) PROVE StepIs /\ VisitStep /\ Quiet({"practice", "complete"}) /\ visit'.lesson = visit.lesson
  <2>1. visit.view \in Quizzes /\ \E words : Check(s, answer, words)
    BY <1>6 DEF CheckDictation, CheckBlank, Quizzes
  <2>2. QED
    BY <1>1, <1>5, <2>1
<1>7. ASSUME NEW s \in Sentences, NEW word \in CardWords, SelectWord(s, word) PROVE StepIs /\ VisitStep /\ Quiet({"practice", "complete"}) /\ visit'.lesson = visit.lesson
  <2>1. visit' = [visit EXCEPT !.selected = {WordOf(word, s)}] /\ WordOf(word, s) \in WordT /\ UNCHANGED progressVars /\ visit.lesson # NoLesson
    BY <1>7 DEF SelectWord, WordOf, WordT
  <2>2. visit' \in VisitT(visit'.missed) /\ visit'.lesson = visit.lesson /\ visit'.practised = visit.practised /\ visit'.started = visit.started
        /\ visit'.failed = visit.failed
    BY <1>2, <2>1 DEF VisitT
  <2>3. QED
    BY <2>1, <2>2, VisitChanges DEF VisitStep
<1>8. ASSUME NEW s \in Sentences, TryAgain(s) PROVE StepIs /\ VisitStep /\ Quiet({"practice", "complete"}) /\ visit'.lesson = visit.lesson
  <2>1. visit' = [visit EXCEPT !.checked[s] = {}] /\ UNCHANGED progressVars /\ visit.checked[s] # {}
    BY <1>8 DEF TryAgain
  <2>2. visit.lesson # NoLesson
    BY <1>2, <2>1 DEF Unvisited, NoneChecked
  <2>3. visit' \in VisitT(visit'.missed) /\ visit'.lesson = visit.lesson /\ visit'.practised = visit.practised /\ visit'.started = visit.started
        /\ visit'.failed = visit.failed
    BY <1>2, <2>1 DEF VisitT
  <2>4. QED
    BY <2>1, <2>2, <2>3, VisitChanges DEF VisitStep
<1>9. ASSUME NEW view \in Views, ChooseView(view) PROVE StepIs /\ VisitStep /\ Quiet({"practice", "complete"}) /\ visit'.lesson = visit.lesson
  <2>1. visit' = [visit EXCEPT !.view = view, !.checked = NoneChecked] /\ UNCHANGED progressVars /\ visit.lesson # NoLesson
    BY <1>9 DEF ChooseView
  <2>2. NoneChecked \in [Sentences -> SUBSET Answers]
    BY DEF NoneChecked
  <2>3. visit' \in VisitT(visit'.missed) /\ visit'.lesson = visit.lesson /\ visit'.practised = visit.practised /\ visit'.started = visit.started
        /\ visit'.failed = visit.failed
    BY <1>2, <2>1, <2>2 DEF VisitT
  <2>4. QED
    BY <2>1, <2>3, VisitChanges DEF VisitStep
<1>10. QED
  BY <1>1, <1>3, <1>4, <1>6, <1>7, <1>8, <1>9 DEF Lesson

\* The page shows a lesson or none.
LEMMA OnScreenTyped ==
  ASSUME NEW n \in NavT, NEW l, NEW o
  PROVE  Shown(n, l, o) \in Lessons \cup {NoLesson}
<1>1. n.route \in Routes /\ Lessons = LibraryLessons \cup OwnLessons /\ NoId = NoLesson
  BY LearnerAssumption DEF NavT, NoId, NoLesson
<1>2. QED
  BY <1>1, RouteFields DEF Shown, Found

\* Every step of the App is one of these.
LEMMA NextSteps ==
  ASSUME TypeHyp, RatingInv, LibraryInv', SceneTyped, [Next]_vars
  PROVE  StepIs /\ VisitStep
<1>1. CASE ProgressCalls
  <2>1. PICK j \in Slots : Commit(j) \/ ReadProgress(j) \/ LandProgress(j) \/ WriteFails(j) \/ ReadFails(j)
    BY <1>1 DEF ProgressCalls
  <2>2. CASE Commit(j) \/ ReadProgress(j)
    <3>1. (CommitPractice(j) \/ CommitComplete(j) \/ Read(j)) /\ visit' = visit
      BY <2>2 DEF Commit, ReadProgress
    <3>2. QED
      BY <3>1, CallKeeps DEF VisitStep
  <2>3. CASE WriteFails(j) \/ ReadFails(j)
    <3>1. VisitFailWrite(j) \/ VisitFailRead(j)
      BY <2>3 DEF WriteFails, ReadFails
    <3>2. QED
      BY <3>1, FailKeeps DEF VisitStep
  <2>4. CASE LandProgress(j)
    <3>1. VisitLand(j)
      BY <2>4 DEF LandProgress
    <3>2. QED
      BY <3>1, LandKeeps DEF VisitStep
  <2>5. QED
    BY <2>1, <2>2, <2>3, <2>4
<1>2. CASE AppStep \/ ListStep
  <2>1. VisitFollows(LessonOnScreen') /\ UNCHANGED <<day, store, shown, goal, lapsed>> /\ (Render(shown, FALSE) \/ UNCHANGED <<at, announced>>)
    BY <1>2 DEF AppStep, ListStep, PagesFollow, Render
  <2>2. LessonOnScreen' \in Lessons \cup {NoLesson}
    BY OnScreenTyped DEF LessonOnScreen, LibraryInv, LibraryTyped
  <2>3. QED
    BY <2>1, <2>2, FollowKeeps DEF VisitStep
<1>3. CASE Elsewhere \/ UNCHANGED vars \/ ReviewPage
  <2>1. UNCHANGED <<progressVars, visit>>
    BY <1>3 DEF Elsewhere, vars, pageVars, ReviewPage, Reveal, Listen, SpeechEnds, ListenFirst, SayIt, SaidIt, SayItAgain, RecapListen, Rate
  <2>2. QED
    BY <2>1, SameVisit DEF progressVars
<1>4. CASE Lesson
  BY <1>4, LessonSteps
<1>5. CASE DeckRefreshes \/ Ratings \/ SaveButtons
  <2>1. (Rerender \/ UNCHANGED progressVars) /\ visit' = visit
    BY <1>5 DEF DeckRefreshes, Refresh, ReadCards, Ratings, SaveReview, FailReview, ChangeCard, SaveButtons, Toggle, Undo, CommitSave, FailSave, pageVars
  <2>2. QED
    BY <2>1, SameVisit DEF progressVars, Rerender, Render
<1>6. CASE DeckLands
  <2>1. PICK k \in Fetches : LandCards(k) \/ FailCards(k)
    BY <1>6 DEF DeckLands
  <2>2. Continue(k) /\ Render(shown, FALSE) /\ UNCHANGED <<day, store, shown, goal, lapsed, visit>>
    BY <1>6, <2>1 DEF DeckLands, LandCards, FailCards, Render, pageVars
  <2>3. CASE jobs' = jobs
    BY <2>2, <2>3, SameVisit
  <2>4. CASE jobs' # jobs
    <3>1. PICK i \in Raters : ratings[i].new \in BOOLEAN /\ Recording(i)
      BY <2>2, <2>4, ContinueIs
    <3>2. Free # {} /\ jobs' = Starting(jobs, Job("rating", ratings[i].new, NoLesson))
      BY <3>1 DEF Recording
    <3>3. "rating" \in Kinds \ {"complete"}
      BY DEF Kinds
    <3>4. StepIs /\ Quiet({"rating"}) /\ Undisturbed
      BY <2>2, <3>1, <3>2, <3>3, StartKeeps
    <3>5. Quiet({"reload", "rating"})
      BY <3>4 DEF Quiet, GoesOn, Started
    <3>6. QED
      BY <2>2, <3>4, <3>5 DEF VisitStep
  <2>5. QED
    BY <2>3, <2>4
<1>7. CASE Background
  <2>1. visit' = visit
    BY <1>7 DEF Background, pageVars
  <2>2. ASSUME NEW g \in Goals, ChooseGoal(g) PROVE StepIs /\ VisitStep
    <3>1. UNCHANGED <<day, store, shown, jobs>>
      BY <2>2 DEF ChooseGoal
    <3>2. VisitTyped'
      BY <2>1, <3>1, VisitKept DEF TypeHyp
    <3>3. QED
      BY <2>1, <2>2, <3>1, <3>2 DEF StepIs, ProgressStep, VisitStep, TypeHyp, ProgressTyped
  <2>3. CASE Midnight
    <3>1. UNCHANGED <<store, shown, jobs>>
      BY <2>3 DEF Midnight
    <3>2. VisitTyped'
      BY <2>1, <3>1, VisitKept DEF TypeHyp
    <3>3. QED
      BY <2>1, <2>3, <3>1, <3>2 DEF StepIs, ProgressStep, VisitStep, TypeHyp, ProgressTyped
  <2>4. CASE Reload
    <3>1. Free # {} /\ jobs' = Starting(jobs, Job("reload", FALSE, NoLesson)) /\ UNCHANGED <<day, at, store, shown, goal, announced, lapsed>>
      BY <2>4 DEF Reload
    <3>2. "reload" \in Kinds \ {"complete"}
      BY DEF Kinds
    <3>3. StepIs /\ Quiet({"reload"}) /\ Undisturbed
      BY <2>1, <3>1, <3>2, StartKeeps
    <3>4. Quiet({"reload", "rating"})
      BY <3>3 DEF Quiet, GoesOn, Started
    <3>5. QED
      BY <2>1, <3>3, <3>4 DEF VisitStep
  <2>5. scene.goals \subseteq Goals
    BY LearnerAssumption DEF SceneTyped
  <2>6. QED
    BY <1>7, <2>2, <2>3, <2>4, <2>5 DEF Background, GoalPicker
<1>8. QED
  BY <1>1, <1>2, <1>3, <1>4, <1>5, <1>6, <1>7 DEF Next

\* recordPractice adds one to its day, and one New card for a rating of one.
LEMMA CommitIs ==
  ASSUME TypeHyp, NEW j \in Slots, CommitPractice(j)
  PROVE  LET d == jobs[j].date IN
         /\ jobs[j] \in JobT /\ d \in Days /\ store' \in StoreT /\ Grows(store, store')
         /\ store'.actions[d] = store.actions[d] + 1 /\ store'.new[d] = store.new[d] + (IF jobs[j].new THEN 1 ELSE 0)
         /\ \A e \in Days \ {d} : store'.actions[e] = store.actions[e] /\ store'.new[e] = store.new[e]
         /\ store'.past = store.past /\ store'.done = store.done
         /\ jobs'[j].kind = jobs[j].kind /\ jobs'[j].pc = "reading" /\ ~jobs'[j].new /\ jobs'[j].got = store.actions[d] + 1
         /\ jobs'[j].date = d /\ jobs'[j].seen = jobs[j].seen /\ jobs'[j].lesson = jobs[j].lesson /\ jobs'[j] # Idle
         /\ \A i \in Slots \ {j} : jobs'[i] = jobs[i]
<1> DEFINE d == jobs[j].date
           n == IF jobs[j].new THEN 1 ELSE 0
<1>1. jobs[j] \in JobT /\ jobs \in [Slots -> {Idle} \cup JobT] /\ store \in StoreT
  BY IdleKind DEF CommitPractice, TypeHyp, ProgressTyped
<1>2. /\ store' = [store EXCEPT !.actions[d] = @ + 1, !.new[d] = @ + n]
      /\ jobs' = [jobs EXCEPT ![j].pc = "reading", ![j].new = FALSE, ![j].got = store.actions[d] + 1]
  BY DEF CommitPractice
<1>3. n \in Nat /\ d \in Days
  BY <1>1 DEF JobT
<1> HIDE DEF n, d
<1>4. /\ store' \in StoreT /\ store'.actions[d] = store.actions[d] + 1 /\ store'.new[d] = store.new[d] + n
      /\ \A e \in Days \ {d} : store'.actions[e] = store.actions[e] /\ store'.new[e] = store.new[e]
      /\ store'.past = store.past /\ store'.done = store.done
  <2>1. store.actions \in [Days -> Nat] /\ store.new \in [Days -> Nat] /\ store.past \in Pasts /\ store.done \in SUBSET Lessons
    BY <1>1 DEF StoreT
  <2>2. [store.actions EXCEPT ![d] = @ + 1] \in [Days -> Nat] /\ [store.new EXCEPT ![d] = @ + n] \in [Days -> Nat]
    BY <1>3, <2>1
  <2>3. store' = [store EXCEPT !.actions = [store.actions EXCEPT ![d] = @ + 1], !.new = [store.new EXCEPT ![d] = @ + n]]
    BY <1>1, <1>2 DEF StoreT
  <2>4. /\ store' \in StoreT
        /\ store'.actions = [store.actions EXCEPT ![d] = @ + 1] /\ store'.new = [store.new EXCEPT ![d] = @ + n]
        /\ store'.past = store.past /\ store'.done = store.done
    BY <1>1, <2>2, <2>3 DEF StoreT
  <2>5. QED
    BY <1>3, <2>1, <2>4
<1>5. Grows(store, store')
  <2>1. \A e \in Days : store.actions[e] \in Nat
    BY <1>1 DEF StoreT
  <2>2. QED
    BY <1>3, <1>4, <2>1 DEF Grows
<1>6. /\ jobs'[j].kind = jobs[j].kind /\ jobs'[j].pc = "reading" /\ ~jobs'[j].new /\ jobs'[j].got = store.actions[d] + 1
      /\ jobs'[j].date = jobs[j].date /\ jobs'[j].seen = jobs[j].seen /\ jobs'[j].lesson = jobs[j].lesson
      /\ \A i \in Slots \ {j} : jobs'[i] = jobs[i]
  BY <1>1, <1>2 DEF JobT
<1>7. jobs'[j] # Idle
  BY <1>1, <1>6, IdleKind DEF Kinds
<1>8. QED
  BY <1>1, <1>3, <1>4, <1>5, <1>6, <1>7 DEF d, n

\* markLessonComplete adds its lesson.
LEMMA CompleteIs ==
  ASSUME TypeHyp, NEW j \in Slots, CommitComplete(j)
  PROVE  /\ jobs[j] \in JobT /\ store' \in StoreT /\ Grows(store, store')
         /\ store'.actions = store.actions /\ store'.new = store.new
         /\ store'.past = store.past /\ store'.done = store.done \cup {jobs[j].lesson}
         /\ jobs'[j].kind = "complete" /\ jobs'[j].pc = "reading" /\ jobs'[j].lesson = jobs[j].lesson /\ jobs'[j].got = jobs[j].got
         /\ jobs'[j].date = jobs[j].date /\ jobs'[j].seen = jobs[j].seen /\ jobs'[j].new = jobs[j].new /\ jobs'[j] # Idle
         /\ \A i \in Slots \ {j} : jobs'[i] = jobs[i]
<1>1. jobs[j] \in JobT /\ jobs \in [Slots -> {Idle} \cup JobT] /\ store \in StoreT /\ jobs[j].lesson \in Lessons
  <2>1. jobs[j] \in JobT /\ jobs \in [Slots -> {Idle} \cup JobT] /\ store \in StoreT /\ jobs[j].lesson # NoLesson
    BY IdleKind DEF CommitComplete, TypeHyp, ProgressTyped, VisitTyped
  <2>2. QED
    BY <2>1 DEF JobT
<1>2. /\ store' = [store EXCEPT !.done = @ \cup {jobs[j].lesson}] /\ jobs[j].kind = "complete"
      /\ jobs' = [jobs EXCEPT ![j].pc = "reading"]
  BY DEF CommitComplete
<1>3. /\ store' \in StoreT /\ store'.actions = store.actions /\ store'.new = store.new
      /\ store'.past = store.past /\ store'.done = store.done \cup {jobs[j].lesson}
  BY <1>1, <1>2 DEF StoreT
<1>4. Grows(store, store')
  <2>1. \A e \in Days : store.actions[e] \in Nat
    BY <1>1 DEF StoreT
  <2>2. QED
    BY <1>3, <2>1 DEF Grows
<1>5. /\ jobs'[j].kind = "complete" /\ jobs'[j].pc = "reading" /\ jobs'[j].lesson = jobs[j].lesson /\ jobs'[j].got = jobs[j].got
      /\ jobs'[j].date = jobs[j].date /\ jobs'[j].seen = jobs[j].seen /\ jobs'[j].new = jobs[j].new
      /\ \A i \in Slots \ {j} : jobs'[i] = jobs[i]
  BY <1>1, <1>2 DEF JobT
<1>6. jobs'[j] # Idle
  BY <1>1, <1>5, IdleKind DEF Kinds
<1>7. QED
  BY <1>1, <1>3, <1>4, <1>5, <1>6

\* The reload that follows a write reads what is stored.
LEMMA ReadIs ==
  ASSUME TypeHyp, NEW j \in Slots, Read(j)
  PROVE  /\ jobs[j] \in JobT /\ jobs[j].pc = "reading"
         /\ jobs'[j].kind = jobs[j].kind /\ jobs'[j].pc = "landing" /\ jobs'[j].lesson = jobs[j].lesson /\ jobs'[j].got = jobs[j].got
         /\ jobs'[j].date = jobs[j].date /\ jobs'[j].seen = Snapshot /\ jobs'[j].new = jobs[j].new /\ jobs'[j] # Idle
         /\ \A i \in Slots \ {j} : jobs'[i] = jobs[i]
<1>1. jobs[j] \in JobT /\ jobs \in [Slots -> {Idle} \cup JobT]
  BY IdleKind DEF Read, TypeHyp, ProgressTyped
<1>2. jobs' = [jobs EXCEPT ![j].pc = "landing", ![j].seen = Snapshot] /\ jobs[j].pc = "reading"
  BY DEF Read
<1>3. /\ jobs'[j].kind = jobs[j].kind /\ jobs'[j].pc = "landing" /\ jobs'[j].lesson = jobs[j].lesson /\ jobs'[j].got = jobs[j].got
      /\ jobs'[j].date = jobs[j].date /\ jobs'[j].seen = Snapshot /\ jobs'[j].new = jobs[j].new
      /\ \A i \in Slots \ {j} : jobs'[i] = jobs[i]
  BY <1>1, <1>2 DEF JobT
<1>4. jobs'[j] # Idle
  BY <1>1, <1>3, IdleKind DEF Kinds
<1>5. QED
  BY <1>1, <1>2, <1>3, <1>4

\* A completion that is not stored fails its lesson alone; any other failure is a
\* lapse, and renders the App.
LEMMA FailIs ==
  ASSUME NEW j \in Slots, FailWrite(j) \/ FailRead(j)
  PROVE  /\ UNCHANGED <<day, store, shown, goal>> /\ jobs' = [jobs EXCEPT ![j] = Idle]
         /\ \/ lapsed' = TRUE /\ \E reached \in BOOLEAN : Render(shown, reached)
            \/ jobs[j].kind = "complete" /\ UNCHANGED <<at, shown, announced, lapsed>>
<1>1. CASE FailRead(j)
  <2>1. Reached(j) \in BOOLEAN
    BY DEF Reached
  <2>2. QED
    BY <1>1, <2>1 DEF FailRead, Render
<1>2. CASE FailWrite(j)
  BY <1>2 DEF FailWrite, Render
<1>3. QED
  BY <1>1, <1>2

\* The days, counts and lessons that were read are of the past, whatever happens.
LEMMA ProgressKeeps ==
  ASSUME TypeHyp, StepIs
  PROVE  ProgressTyped' /\ Grows(store, store') /\ day <= day'
<1>1. /\ day \in Days /\ at \in Days /\ at <= day /\ store \in StoreT /\ jobs \in [Slots -> {Idle} \cup JobT]
      /\ shown \in SnapT /\ Past(shown, day, store) /\ shown.date <= at
      /\ \A j \in Slots : jobs[j] # Idle => jobs[j] \in JobT /\ jobs[j].date <= day /\ Past(jobs[j].seen, day, store) /\ jobs[j].seen \in SnapT
      /\ goal \in Goals /\ announced \in BOOLEAN /\ lapsed \in BOOLEAN
  BY DEF TypeHyp, ProgressTyped, JobT
<1>2. Grows(store, store) /\ Unread \in SnapT /\ Past(Unread, day, store)
  <2>1. Unread \in SnapT /\ Unread.date = 1 /\ Unread.days = {} /\ Unread.done = {}
    BY DaysNat DEF Unread, SnapT
  <2>2. 1 <= day
    BY <1>1, DaysNat DEF Days
  <2>3. \A d \in Days : store.actions[d] \in Nat
    BY <1>1 DEF StoreT
  <2>4. QED
    BY <2>1, <2>2, <2>3 DEF Past, Grows
<1>3. ASSUME day' \in Days, day <= day', store' \in StoreT, Grows(store, store'), jobs' \in [Slots -> {Idle} \cup JobT],
             \A j \in Slots : jobs'[j] # Idle =>
               \/ jobs[j] # Idle /\ jobs'[j].date = jobs[j].date /\ (jobs'[j].seen = jobs[j].seen \/ jobs'[j].seen = Snapshot)
               \/ jobs'[j].date = day /\ jobs'[j].seen = Unread
      PROVE  \A j \in Slots : jobs'[j] # Idle => jobs'[j].date <= day' /\ Past(jobs'[j].seen, day', store')
  <2> TAKE j \in Slots
  <2> HAVE jobs'[j] # Idle
  <2>1. \A s \in SnapT : Past(s, day, store) => Past(s, day', store')
    BY <1>1, <1>3, PastStays
  <2>2. jobs'[j].seen \in SnapT /\ Past(jobs'[j].seen, day, store)
    BY <1>1, <1>2, <1>3, SnapshotIs DEF TypeHyp
  <2>3. jobs'[j].date \in Days /\ jobs'[j].date <= day
    BY <1>1, <1>3, DaysNat DEF JobT
  <2>4. jobs'[j].date <= day'
    <3>1. jobs'[j].date \in Nat /\ day \in Nat /\ day' \in Nat /\ day <= day'
      BY <1>1, <1>3, <2>3, DaysNat
    <3>2. QED
      BY <2>3, <3>1
  <2>5. QED
    BY <2>1, <2>2, <2>4
<1>4. jobs' \in [Slots -> {Idle} \cup JobT]
  BY DEF StepIs
<1>5. ASSUME NEW s, NEW reached \in BOOLEAN, Render(s, reached), s \in SnapT, s.date <= day, UNCHANGED day
      PROVE  at' \in Days /\ at' <= day' /\ shown' = s /\ shown.date <= at /\ announced' \in BOOLEAN /\ shown'.date <= at'
  BY <1>1, <1>5, DaysNat DEF Render
<1>6. ASSUME NEW j \in Slots, CommitPractice(j) PROVE ProgressTyped' /\ Grows(store, store') /\ day <= day'
  <2>1. UNCHANGED <<day, at, shown, goal, announced, lapsed>>
    BY <1>6 DEF CommitPractice
  <2>2. /\ store' \in StoreT /\ Grows(store, store') /\ jobs'[j].date = jobs[j].date /\ jobs'[j].seen = jobs[j].seen /\ jobs[j] \in JobT
        /\ \A i \in Slots \ {j} : jobs'[i] = jobs[i]
    BY <1>6, CommitIs
  <2>3. day <= day' /\ day' \in Days
    BY <1>1, <2>1, DaysNat
  <2>4. \A i \in Slots : jobs'[i] # Idle => jobs'[i].date <= day' /\ Past(jobs'[i].seen, day', store')
    BY <1>3, <1>4, <2>2, <2>3, IdleIsNoJob
  <2>5. Past(shown', day', store')
    BY <1>1, <2>1, <2>2, <2>3, PastStays
  <2>6. QED
    BY <1>1, <1>4, <2>1, <2>2, <2>3, <2>4, <2>5 DEF ProgressTyped
<1>7. ASSUME NEW j \in Slots, CommitComplete(j) PROVE ProgressTyped' /\ Grows(store, store') /\ day <= day'
  <2>1. UNCHANGED <<day, at, shown, goal, announced, lapsed>>
    BY <1>7 DEF CommitComplete
  <2>2. /\ store' \in StoreT /\ Grows(store, store') /\ jobs'[j].date = jobs[j].date /\ jobs'[j].seen = jobs[j].seen /\ jobs[j] \in JobT
        /\ \A i \in Slots \ {j} : jobs'[i] = jobs[i]
    BY <1>7, CompleteIs
  <2>3. day <= day' /\ day' \in Days
    BY <1>1, <2>1, DaysNat
  <2>4. \A i \in Slots : jobs'[i] # Idle => jobs'[i].date <= day' /\ Past(jobs'[i].seen, day', store')
    BY <1>3, <1>4, <2>2, <2>3, IdleIsNoJob
  <2>5. Past(shown', day', store')
    BY <1>1, <2>1, <2>2, <2>3, PastStays
  <2>6. QED
    BY <1>1, <1>4, <2>1, <2>2, <2>3, <2>4, <2>5 DEF ProgressTyped
<1>8. ASSUME NEW j \in Slots, Read(j) PROVE ProgressTyped' /\ Grows(store, store') /\ day <= day'
  <2>1. UNCHANGED <<day, at, store, shown, goal, announced, lapsed>>
    BY <1>8 DEF Read
  <2>2. /\ jobs'[j].date = jobs[j].date /\ jobs'[j].seen = Snapshot /\ jobs[j] \in JobT
        /\ \A i \in Slots \ {j} : jobs'[i] = jobs[i]
    BY <1>8, ReadIs
  <2>3. day <= day' /\ day' \in Days
    BY <1>1, <2>1, DaysNat
  <2>4. \A i \in Slots : jobs'[i] # Idle => jobs'[i].date <= day' /\ Past(jobs'[i].seen, day', store')
    BY <1>1, <1>2, <1>3, <1>4, <2>1, <2>2, <2>3, IdleIsNoJob
  <2>5. QED
    BY <1>1, <1>2, <1>4, <2>1, <2>3, <2>4 DEF ProgressTyped
<1>9. ASSUME NEW j \in Slots, FailWrite(j) \/ FailRead(j) PROVE ProgressTyped' /\ Grows(store, store') /\ day <= day'
  <2>1. UNCHANGED <<day, store, goal>> /\ jobs' = [jobs EXCEPT ![j] = Idle] /\ lapsed' \in BOOLEAN
    BY <1>1, <1>9, FailIs
  <2>2. at' \in Days /\ at' <= day' /\ shown' = shown /\ announced' \in BOOLEAN /\ shown'.date <= at'
    <3>1. CASE UNCHANGED <<at, shown, announced>>
      BY <1>1, <2>1, <3>1
    <3>2. CASE \E reached \in BOOLEAN : Render(shown, reached)
      BY <1>1, <1>5, <2>1, <3>2 DEF Past
    <3>3. QED
      BY <1>9, <3>1, <3>2, FailIs
  <2>3. \A i \in Slots : jobs'[i] # Idle => jobs'[i] = jobs[i]
    BY <1>1, <2>1
  <2>4. day <= day'
    BY <1>1, <2>1, DaysNat
  <2>5. QED
    BY <1>1, <1>2, <1>4, <2>1, <2>2, <2>3, <2>4 DEF ProgressTyped
<1>10. ASSUME NEW j \in Slots, Lands(j) PROVE ProgressTyped' /\ Grows(store, store') /\ day <= day'
  <2>1. UNCHANGED <<day, store, goal>> /\ lapsed' \in BOOLEAN /\ Render(jobs[j].seen, Reached(j)) /\ Reached(j) \in BOOLEAN /\ jobs[j].kind # "idle"
    BY <1>1, <1>10 DEF Lands, Land, Reached, Older
  <2>2. jobs[j].seen \in SnapT /\ Past(jobs[j].seen, day, store)
    BY <1>1, <2>1, IdleKind
  <2>3. at' \in Days /\ at' <= day' /\ shown' = jobs[j].seen /\ announced' \in BOOLEAN /\ shown'.date <= at'
    BY <1>5, <2>1, <2>2 DEF Past
  <2>4. day <= day' /\ day' \in Days
    BY <1>1, <2>1, DaysNat
  <2>5. \A i \in Slots : jobs'[i] # Idle =>
               \/ jobs[i] # Idle /\ jobs'[i].date = jobs[i].date /\ jobs'[i].seen = jobs[i].seen
               \/ jobs'[i].date = day /\ jobs'[i].seen = Unread
    BY <1>10 DEF Lands, GoesOn, Carried, Started
  <2>6. \A i \in Slots : jobs'[i] # Idle => jobs'[i].date <= day' /\ Past(jobs'[i].seen, day', store')
    BY <1>1, <1>2, <1>3, <1>4, <2>1, <2>4, <2>5
  <2>7. QED
    BY <1>1, <1>2, <1>4, <2>1, <2>2, <2>3, <2>4, <2>6 DEF ProgressTyped
<1>11. ASSUME Quiet(Kinds) PROVE ProgressTyped' /\ Grows(store, store') /\ day <= day'
  <2>1. UNCHANGED <<day, store, shown, goal, lapsed>> /\ (Render(shown, FALSE) \/ UNCHANGED <<at, announced>>)
    BY <1>11 DEF Quiet
  <2>2. day <= day' /\ day' \in Days
    BY <1>1, <2>1, DaysNat
  <2>3. at' \in Days /\ at' <= day' /\ announced' \in BOOLEAN /\ shown'.date <= at'
    BY <1>1, <1>5, <2>1 DEF Past
  <2>4. \A i \in Slots : jobs'[i] # Idle =>
               \/ jobs[i] # Idle /\ jobs'[i].date = jobs[i].date /\ jobs'[i].seen = jobs[i].seen
               \/ jobs'[i].date = day /\ jobs'[i].seen = Unread
    BY <1>11 DEF Quiet, GoesOn, Carried, Started
  <2>5. \A i \in Slots : jobs'[i] # Idle => jobs'[i].date <= day' /\ Past(jobs'[i].seen, day', store')
    BY <1>1, <1>2, <1>3, <1>4, <2>1, <2>2, <2>4
  <2>6. QED
    BY <1>1, <1>2, <1>4, <2>1, <2>2, <2>3, <2>5 DEF ProgressTyped
<1>12. ASSUME Midnight PROVE ProgressTyped' /\ Grows(store, store') /\ day <= day'
  <2>1. UNCHANGED <<at, store, shown, jobs, goal, announced, lapsed>> /\ day' = day + 1 /\ day < LastDay
    BY <1>12 DEF Midnight
  <2>2. day <= day' /\ day' \in Days /\ at <= day'
    BY <1>1, <2>1, DaysNat DEF Days
  <2>3. \A i \in Slots : jobs'[i] # Idle => jobs'[i].date <= day' /\ Past(jobs'[i].seen, day', store')
    BY <1>1, <1>2, <1>3, <1>4, <2>1, <2>2
  <2>4. Past(shown', day', store')
    BY <1>1, <1>2, <2>1, <2>2, PastStays
  <2>5. QED
    BY <1>1, <1>2, <1>4, <2>1, <2>2, <2>3, <2>4 DEF ProgressTyped
<1>13. ASSUME NEW g \in Goals, ChooseGoal(g) PROVE ProgressTyped' /\ Grows(store, store') /\ day <= day'
  <2>1. UNCHANGED <<day, store, shown, jobs>> /\ at' = day /\ goal' = g /\ announced' \in BOOLEAN /\ lapsed' \in BOOLEAN
    BY <1>1, <1>13 DEF ChooseGoal
  <2>2. day <= day' /\ at' <= day' /\ shown'.date <= at'
    <3>1. shown.date \in Nat /\ at \in Nat /\ day \in Nat
      BY <1>1, DaysNat DEF SnapT
    <3>2. QED
      BY <1>1, <2>1, <3>1
  <2>3. QED
    BY <1>1, <1>2, <2>1, <2>2 DEF ProgressTyped
<1>14. QED
  BY <1>6, <1>7, <1>8, <1>9, <1>10, <1>11, <1>12, <1>13 DEF StepIs, ProgressStep

\* What a started save has come to; a completion that was committed is stored.
CompletionInv ==
  /\ visit.started => AllAttempted(visit) /\ (visit.failed \/ visit.lesson \in store.done \/ Saving(jobs, visit.lesson))
  /\ \A j \in Slots : jobs[j].kind = "complete" /\ jobs[j].pc # "saving" => jobs[j].lesson \in store.done

\* No step forgets a completion.
LEMMA CompletionKeeps ==
  ASSUME TypeHyp, CompletionInv, StepIs, VisitStep
  PROVE  CompletionInv'
<1>1. /\ jobs \in [Slots -> {Idle} \cup JobT] /\ store.done \subseteq store'.done /\ visit.started \in BOOLEAN
      /\ visit' \in VisitT(visit'.missed)
  BY ProgressKeeps DEF TypeHyp, ProgressTyped, VisitTyped, VisitT, Grows, StepIs
<1>2. ASSUME NEW j \in Slots, GoesOn(j, Kinds), jobs'[j].kind = "complete", jobs'[j].pc # "saving"
      PROVE  jobs'[j].lesson \in store'.done
  BY <1>1, <1>2 DEF GoesOn, Carried, Started, CompletionInv
\* A save that is still under way, or committed since.
<1>3. ASSUME Saving(jobs, visit.lesson), visit'.lesson = visit.lesson,
             \A j \in Slots : jobs[j].kind = "complete" /\ jobs[j].owned /\ jobs[j].lesson = visit.lesson /\ jobs[j].pc = "saving" =>
                jobs'[j] = jobs[j] \/ visit.lesson \in store'.done
      PROVE  visit'.lesson \in store'.done \/ Saving(jobs', visit'.lesson)
  BY <1>3 DEF Saving
<1>4. AllAttempted(visit) /\ visit'.lesson = visit.lesson /\ visit.practised \subseteq visit'.practised => AllAttempted(visit')
  <2>1. SUFFICES ASSUME AllAttempted(visit), visit'.lesson = visit.lesson, visit.practised \subseteq visit'.practised
                 PROVE  AllAttempted(visit')
    OBVIOUS
  <2>2. Attempted(visit') \subseteq Sentences /\ Attempted(visit) \subseteq Attempted(visit')
    BY <1>1, <2>1 DEF Attempted, VisitT
  <2>3. QED
    BY <2>1, <2>2 DEF AllAttempted
<1>5. ASSUME NEW j \in Slots, CommitPractice(j), visit' = visit PROVE CompletionInv'
  <2>1. /\ store'.done = store.done /\ jobs'[j].kind = jobs[j].kind /\ jobs[j].kind # "complete"
        /\ \A i \in Slots \ {j} : jobs'[i] = jobs[i]
    BY <1>5, CommitIs DEF CommitPractice
  <2>2. QED
    BY <1>3, <1>4, <1>5, <2>1 DEF CompletionInv
<1>6. ASSUME NEW j \in Slots, CommitComplete(j), visit' = visit PROVE CompletionInv'
  <2>1. /\ store'.done = store.done \cup {jobs[j].lesson} /\ jobs'[j].lesson = jobs[j].lesson
        /\ \A i \in Slots \ {j} : jobs'[i] = jobs[i]
    BY <1>6, CompleteIs
  <2>2. QED
    BY <1>3, <1>4, <1>6, <2>1 DEF CompletionInv
<1>7. ASSUME NEW j \in Slots, Read(j), visit' = visit PROVE CompletionInv'
  <2>1. /\ jobs[j].pc = "reading" /\ jobs'[j].lesson = jobs[j].lesson /\ jobs'[j].kind = jobs[j].kind
        /\ \A i \in Slots \ {j} : jobs'[i] = jobs[i]
    BY <1>7, ReadIs
  <2>2. QED
    BY <1>1, <1>3, <1>4, <1>7, <2>1 DEF CompletionInv
<1>8. ASSUME NEW j \in Slots, VisitFailWrite(j) \/ VisitFailRead(j) PROVE CompletionInv'
  <2>1. PICK failed \in BOOLEAN : visit' = Answered(j, failed) /\ (~failed => jobs[j].pc = "reading")
    BY <1>8 DEF VisitFailWrite, VisitFailRead, FailRead
  <2>2. store' = store /\ jobs' = [jobs EXCEPT ![j] = Idle]
    BY <1>8 DEF VisitFailWrite, VisitFailRead, FailWrite, FailRead
  <2>3. \A i \in Slots : jobs'[i].kind = "complete" => jobs'[i] = jobs[i]
    BY <1>1, <2>2, IdleKind
  <2>4. visit'.lesson = visit.lesson /\ visit'.practised = visit.practised /\ visit'.started = visit.started
    BY <2>1, AnsweredIs
  <2>5. CASE jobs[j].kind = "complete" /\ jobs[j].owned
    <3>1. visit'.failed = failed /\ jobs[j].lesson = visit.lesson
      BY <2>1, <2>5, AnsweredIs
    <3>2. visit'.failed \/ visit.lesson \in store'.done
      BY <2>1, <2>2, <2>5, <3>1 DEF CompletionInv
    <3>3. QED
      BY <1>4, <2>2, <2>3, <2>4, <3>2 DEF CompletionInv
  <2>6. CASE ~(jobs[j].kind = "complete" /\ jobs[j].owned)
    <3>1. visit' = visit
      BY <2>1, <2>6, AnsweredIs
    <3>2. \A i \in Slots : jobs[i].kind = "complete" /\ jobs[i].owned => jobs'[i] = jobs[i]
      BY <2>2, <2>6
    <3>3. QED
      BY <1>3, <1>4, <2>2, <2>3, <3>1, <3>2 DEF CompletionInv
  <2>7. QED
    BY <2>5, <2>6
<1>9. ASSUME NEW j \in Slots, VisitLand(j) PROVE CompletionInv'
  <2>1. /\ Lands(j) /\ visit'.lesson = visit.lesson /\ visit'.practised = visit.practised
        /\ visit'.failed = Answered(j, FALSE).failed /\ (visit.started => visit'.started)
        /\ visit'.started /\ ~visit.started => AllAttempted(visit') /\ Saving(jobs', visit.lesson)
    BY <1>9, LandKeeps
  <2>2. store' = store /\ jobs[j].pc = "landing"
    BY <2>1 DEF Lands, Land
  <2>3. \A i \in Slots : jobs'[i].kind = "complete" /\ jobs'[i].pc # "saving" => i # j /\ jobs[i].kind = "complete" /\ jobs[i].pc # "saving" /\ jobs'[i].lesson = jobs[i].lesson
    BY <2>1, IdleKind DEF Lands, GoesOn, Carried, Started
  <2>4. ASSUME visit.started PROVE visit'.failed \/ visit'.lesson \in store'.done \/ Saving(jobs', visit'.lesson)
    <3>1. CASE jobs[j].kind = "complete" /\ jobs[j].owned
      <4>1. jobs[j].lesson = visit.lesson
        BY <3>1, AnsweredIs
      <4>2. QED
        BY <2>1, <2>2, <3>1, <4>1 DEF CompletionInv
    <3>2. CASE ~(jobs[j].kind = "complete" /\ jobs[j].owned)
      <4>1. Answered(j, FALSE) = visit
        BY <3>2, AnsweredIs
      <4>2. ASSUME NEW i \in Slots, jobs[i].kind = "complete", jobs[i].owned, jobs[i].lesson = visit.lesson, jobs[i].pc = "saving"
            PROVE  jobs'[i].kind = "complete" /\ jobs'[i].owned /\ jobs'[i].lesson = visit.lesson /\ jobs'[i].pc = "saving"
        <5>1. VisitLand(j) /\ i # j
          BY <1>9, <3>2, <4>2
        <5>2. jobs'[i] = jobs[i]
          <6> DEFINE v == Answered(j, FALSE)
                     js == [jobs EXCEPT ![j] = Idle]
          <6>1. js \in [Slots -> {Idle} \cup JobT] /\ js[j] = Idle /\ js[i] = jobs[i] /\ js[i] # Idle
            BY <1>1, <4>2, <5>1, IdleKind
          <6>2. WithSave(v, jobs[j].seen.done, js) /\ v \in VisitT(v.missed) /\ ProgressTyped
            BY <5>1, AnsweredIs DEF VisitLand, TypeHyp
          <6> HIDE DEF v, js
          <6>3. \/ jobs' = js
                \/ FirstIdle(js) \in Slots /\ js[FirstIdle(js)] = Idle /\ \A k \in Slots : k # FirstIdle(js) => jobs'[k] = js[k]
            BY <6>1, <6>2, WithSaveIs
          <6>4. QED
            BY <6>1, <6>3
        <5>3. QED
          BY <4>2, <5>2
      <4>3. QED
        BY <2>1, <2>2, <2>4, <4>1, <4>2 DEF CompletionInv, Saving
    <3>3. QED
      BY <3>1, <3>2
  <2>5. visit'.started => AllAttempted(visit')
    BY <1>4, <2>1 DEF CompletionInv
  <2>6. QED
    BY <1>1, <2>1, <2>2, <2>3, <2>4, <2>5 DEF CompletionInv
<1>10. ASSUME NEW lesson \in Lessons \cup {NoLesson}, VisitFollows(lesson), UNCHANGED <<store, shown>> PROVE CompletionInv'
  <2>1. CASE UNCHANGED <<visit, jobs>>
    BY <1>3, <1>4, <1>10, <2>1 DEF CompletionInv
  <2>2. CASE visit' = [NoVisit EXCEPT !.lesson = lesson] /\ jobs' = Disowned
    <3>1. ~visit'.started
      BY <2>2 DEF NoVisit
    <3>2. \A j \in Slots : /\ jobs'[j].kind = jobs[j].kind
                           /\ jobs[j].kind = "complete" => jobs'[j].pc = jobs[j].pc /\ jobs'[j].lesson = jobs[j].lesson
      <4> TAKE j \in Slots
      <4>1. CASE jobs[j].kind = "complete"
        <5>1. jobs[j] \in JobT
          BY <1>1, <4>1, IdleKind
        <5>2. jobs'[j] = [jobs[j] EXCEPT !.owned = FALSE]
          BY <2>2, <4>1 DEF Disowned
        <5>3. QED
          BY <5>1, <5>2 DEF JobT
      <4>2. CASE jobs[j].kind # "complete"
        BY <2>2, <4>2 DEF Disowned
      <4>3. QED
        BY <4>1, <4>2
    <3>3. QED
      BY <1>10, <3>1, <3>2 DEF CompletionInv
  <2>3. QED
    BY <1>10, <2>1, <2>2 DEF VisitFollows
<1>11. ASSUME Quiet({"practice", "complete"}), Undisturbed, visit'.lesson = visit.lesson, visit'.failed = visit.failed,
              visit.practised \subseteq visit'.practised, visit.started => visit'.started,
              visit'.started /\ ~visit.started => AllAttempted(visit') /\ Saving(jobs', visit.lesson)
       PROVE  CompletionInv'
  <2>1. store' = store /\ \A j \in Slots : GoesOn(j, {"practice", "complete"})
    BY <1>11 DEF Quiet
  <2>2. \A j \in Slots : jobs'[j].kind = "complete" /\ jobs'[j].pc # "saving" => jobs'[j].lesson \in store'.done
    BY <2>1 DEF GoesOn, Carried, Started, CompletionInv
  <2>3. \A j \in Slots : jobs[j].kind = "complete" => jobs'[j] = jobs[j]
    BY <1>11, IdleKind DEF Undisturbed
  <2>4. QED
    BY <1>3, <1>4, <1>11, <2>1, <2>2, <2>3 DEF CompletionInv
<1>12. ASSUME RetrySave PROVE CompletionInv'
  <2>1. Quiet({"complete"}) /\ visit' = visit /\ visit.failed
    BY <1>12, RetryKeeps DEF RetrySave
  <2>2. store' = store /\ \A j \in Slots : jobs'[j].kind = "complete" /\ jobs'[j].pc # "saving" => jobs'[j].lesson \in store'.done
    BY <2>1 DEF Quiet, GoesOn, Carried, Started, CompletionInv
  <2>3. QED
    BY <1>4, <2>1, <2>2 DEF CompletionInv
<1>13. ASSUME Quiet({"reload", "rating"}), Undisturbed, visit' = visit PROVE CompletionInv'
  <2>1. store' = store /\ \A j \in Slots : GoesOn(j, {"reload", "rating"})
    BY <1>13 DEF Quiet
  <2>2. \A j \in Slots : jobs'[j].kind = "complete" /\ jobs'[j].pc # "saving" => jobs'[j].lesson \in store'.done
    BY <2>1 DEF GoesOn, Carried, Started, CompletionInv
  <2>3. \A j \in Slots : jobs[j].kind = "complete" => jobs'[j] = jobs[j]
    BY <1>13, IdleKind DEF Undisturbed
  <2>4. QED
    BY <1>3, <1>4, <1>13, <2>1, <2>2, <2>3 DEF CompletionInv
<1>14. ASSUME UNCHANGED <<store, shown, jobs, visit>> PROVE CompletionInv'
  BY <1>3, <1>4, <1>14 DEF CompletionInv
<1>15. QED
  BY <1>5, <1>6, <1>7, <1>8, <1>9, <1>10, <1>11, <1>12, <1>13, <1>14 DEF VisitStep

-----------------------------------------------------------------------------
(* The review deck.                                                        *)

CardT  == [version : 0..MaxVersion + 1, live : BOOLEAN, new : BOOLEAN, due : BOOLEAN, here : BOOLEAN]
\* Some of the cards.
Decks  == UNION {[S -> CardT] : S \in SUBSET Cards}
DeckT  == [cards : Decks, loading : BOOLEAN, failed : BOOLEAN]
Askers == {"other", "save", "rating"}
FetchT == [by : Askers, latest : BOOLEAN, read : BOOLEAN, seen : Decks]

FetchesTyped ==
  /\ cards \in Decks /\ deck \in DeckT /\ DOMAIN deck.cards \subseteq DOMAIN cards
  /\ fetches \in [Fetches -> {NoFetch} \cup FetchT]
  /\ \A k \in Fetches : fetches[k] # NoFetch => DOMAIN fetches[k].seen \subseteq DOMAIN cards

\* A place without a refresh is of nobody's.
LEMMA NoFetchIs == NoFetch.by = "none" /\ NoFetch \notin FetchT /\ \A f \in FetchT : f.by \in Askers /\ f # NoFetch
<1>1. NoFetch.by = "none" /\ "none" \notin Askers
  BY DEF NoFetch, Askers
<1>2. QED
  BY <1>1 DEF FetchT

\* A deck's cards are cards.
LEMMA DeckIs ==
  /\ <<>> \in Decks /\ DOMAIN <<>> = {}
  /\ \A s \in Decks : DOMAIN s \subseteq Cards /\ \A c \in DOMAIN s : s[c] \in CardT
<1>1. <<>> \in [{} -> CardT]
  OBVIOUS
<1>2. QED
  BY <1>1 DEF Decks

\* A write of one card.
LEMMA DeckExcept ==
  ASSUME NEW s \in Decks, NEW c \in DOMAIN s, NEW r \in CardT
  PROVE  /\ [s EXCEPT ![c] = r] \in Decks /\ DOMAIN [s EXCEPT ![c] = r] = DOMAIN s
         /\ [s EXCEPT ![c] = r][c] = r /\ \A d \in DOMAIN s \ {c} : [s EXCEPT ![c] = r][d] = s[d]
<1>1. PICK S \in SUBSET Cards : s \in [S -> CardT]
  BY DEF Decks
<1>2. [s EXCEPT ![c] = r] \in [S -> CardT]
  BY <1>1
<1>3. QED
  BY <1>1, <1>2 DEF Decks

\* The place of a refresh that starts.
FirstFetch == Min({i \in Fetches : fetches[i] = NoFetch})

\* A refresh that starts supersedes the others, and reads later.
LEMMA StartRefreshIs ==
  ASSUME FetchesTyped, CanFetch, NEW by \in Askers, StartRefresh(by)
  PROVE  /\ FirstFetch \in Fetches /\ fetches[FirstFetch] = NoFetch
         /\ fetches' \in [Fetches -> {NoFetch} \cup FetchT] /\ deck' \in DeckT
         /\ deck'.cards = deck.cards /\ deck'.failed = deck.failed /\ deck'.loading
         /\ fetches'[FirstFetch] # NoFetch /\ fetches'[FirstFetch].by = by /\ fetches'[FirstFetch].latest
         /\ ~fetches'[FirstFetch].read /\ fetches'[FirstFetch].seen = <<>>
         /\ \A i \in Fetches : i # FirstFetch =>
              /\ fetches[i] = NoFetch <=> fetches'[i] = NoFetch
              /\ fetches'[i].by = fetches[i].by
              /\ fetches[i] # NoFetch => fetches'[i].seen = fetches[i].seen /\ ~fetches'[i].latest
<1> DEFINE S == {i \in Fetches : fetches[i] = NoFetch}
           k == FirstFetch
           f == [by |-> by, latest |-> TRUE, read |-> FALSE, seen |-> <<>>]
<1>1. S \in SUBSET Nat /\ S # {}
  BY ReviewAssumption DEF CanFetch
<1>2. k \in S
  BY <1>1, LeastNumber DEF FirstFetch
<1>3. fetches' = [i \in Fetches |-> IF i = k THEN f ELSE IF fetches[i] = NoFetch THEN NoFetch ELSE [fetches[i] EXCEPT !.latest = FALSE]]
      /\ deck' = [deck EXCEPT !.loading = TRUE]
  BY DEF StartRefresh, Refreshing, FirstFetch
<1>4. f \in FetchT
  BY DeckIs DEF FetchT
<1>5. \A i \in Fetches : fetches[i] \in {NoFetch} \cup FetchT
  BY DEF FetchesTyped
<1>6. \A g \in FetchT : /\ [g EXCEPT !.latest = FALSE] \in FetchT /\ [g EXCEPT !.latest = FALSE].by = g.by
                        /\ [g EXCEPT !.latest = FALSE].seen = g.seen /\ ~[g EXCEPT !.latest = FALSE].latest
  BY DEF FetchT
<1>7. fetches' \in [Fetches -> {NoFetch} \cup FetchT]
  <2> HIDE DEF f, k
  <2>1. QED
    BY <1>3, <1>4, <1>5, <1>6
<1>8. deck' \in DeckT /\ deck'.cards = deck.cards /\ deck'.failed = deck.failed /\ deck'.loading
  BY <1>3 DEF FetchesTyped, DeckT
<1>9. fetches'[k] # NoFetch /\ fetches'[k].by = by /\ fetches'[k].latest /\ ~fetches'[k].read /\ fetches'[k].seen = <<>>
  BY <1>2, <1>3, <1>4, NoFetchIs
<1>10. ASSUME NEW i \in Fetches, i # k
       PROVE  /\ fetches[i] = NoFetch <=> fetches'[i] = NoFetch
              /\ fetches'[i].by = fetches[i].by
              /\ fetches[i] # NoFetch => fetches'[i].seen = fetches[i].seen /\ ~fetches'[i].latest
  <2> HIDE DEF f, k
  <2>1. QED
    BY <1>3, <1>5, <1>6, <1>10, NoFetchIs
<1>11. QED
  BY <1>2, <1>7, <1>8, <1>9, <1>10

\* s has every card of cs that this App changed last, as it is in cs.
Shows(s, cs) == \A c \in DOMAIN cs : cs[c].here => c \in DOMAIN s /\ s[c] = cs[c]

DeckInv ==
  /\ \A k, l \in Fetches : fetches[k] # NoFetch /\ fetches[l] # NoFetch /\ fetches[k].latest /\ fetches[l].latest => k = l
  /\ \A k \in Fetches : fetches[k] # NoFetch /\ fetches[k].latest /\ fetches[k].read => Shows(fetches[k].seen, cards)
  /\ (\A k \in Fetches : fetches[k] # NoFetch => ~fetches[k].latest) => deck.failed \/ Shows(deck.cards, cards)

\* The refresh k, read or not, is over.
Ends(k) ==
  /\ fetches[k] # NoFetch /\ fetches' = [fetches EXCEPT ![k] = NoFetch] /\ cards' = cards
  /\ deck' = IF ~fetches[k].latest THEN deck
             ELSE IF fetches[k].read THEN [cards |-> fetches[k].seen, loading |-> FALSE, failed |-> FALSE]
             ELSE [deck EXCEPT !.loading = FALSE, !.failed = TRUE]
Reads(k) ==
  /\ fetches[k] # NoFetch /\ ~fetches[k].read
  /\ fetches' = [fetches EXCEPT ![k].read = TRUE, ![k].seen = cards]
  /\ UNCHANGED <<cards, deck>>
\* A write of the App, which refreshes the deck, and one from elsewhere.
Refreshes(by) == CanFetch /\ StartRefresh(by) /\ cards' \in Decks /\ DOMAIN cards \subseteq DOMAIN cards'
Elsewheres(c) ==
  /\ c \in DOMAIN cards /\ UNCHANGED <<deck, fetches>>
  /\ \E r \in CardT : ~r.here /\ cards' = [cards EXCEPT ![c] = r]

CardsStep ==
  \/ UNCHANGED <<cards, deck, fetches>>
  \/ \E by \in Askers : Refreshes(by)
  \/ \E k \in Fetches : Ends(k) \/ Reads(k)
  \/ \E c \in Cards : Elsewheres(c)

\* A refresh that ends shows what it read if none superseded it.
LEMMA EndsIs ==
  ASSUME FetchesTyped, NEW k \in Fetches, Ends(k)
  PROVE  /\ fetches[k] \in FetchT /\ fetches'[k] = NoFetch /\ \A i \in Fetches \ {k} : fetches'[i] = fetches[i]
         /\ fetches' \in [Fetches -> {NoFetch} \cup FetchT] /\ deck' \in DeckT /\ DOMAIN deck'.cards \subseteq DOMAIN cards
         /\ ~fetches[k].latest => deck' = deck
         /\ fetches[k].latest /\ fetches[k].read => deck'.cards = fetches[k].seen
         /\ fetches[k].latest /\ ~fetches[k].read => deck'.failed
<1>1. fetches[k] \in FetchT /\ deck \in DeckT /\ DOMAIN deck.cards \subseteq DOMAIN cards /\ fetches[k] # NoFetch
  BY DEF FetchesTyped, Ends
<1>2. fetches'[k] = NoFetch /\ (\A i \in Fetches \ {k} : fetches'[i] = fetches[i]) /\ fetches' \in [Fetches -> {NoFetch} \cup FetchT]
  BY DEF FetchesTyped, Ends
<1>3. CASE ~fetches[k].latest
  BY <1>1, <1>2, <1>3 DEF Ends
<1>4. CASE fetches[k].latest /\ fetches[k].read
  <2>1. deck' = [cards |-> fetches[k].seen, loading |-> FALSE, failed |-> FALSE]
    BY <1>4 DEF Ends
  <2>2. deck' \in DeckT /\ deck'.cards = fetches[k].seen
    BY <1>1, <2>1 DEF DeckT, FetchT
  <2>3. DOMAIN fetches[k].seen \subseteq DOMAIN cards
    BY <1>1 DEF FetchesTyped
  <2>4. QED
    BY <1>1, <1>2, <1>4, <2>2, <2>3
<1>5. CASE fetches[k].latest /\ ~fetches[k].read
  <2>1. deck' = [deck EXCEPT !.loading = FALSE, !.failed = TRUE]
    BY <1>5 DEF Ends
  <2>2. deck' \in DeckT /\ deck'.cards = deck.cards /\ deck'.failed
    BY <1>1, <2>1 DEF DeckT
  <2>3. QED
    BY <1>1, <1>2, <1>5, <2>2
<1>6. QED
  BY <1>1, <1>3, <1>4, <1>5 DEF FetchT

\* A refresh reads the store as it is.
LEMMA ReadsIs ==
  ASSUME FetchesTyped, NEW k \in Fetches, Reads(k)
  PROVE  /\ fetches[k] \in FetchT /\ \A i \in Fetches \ {k} : fetches'[i] = fetches[i]
         /\ fetches' \in [Fetches -> {NoFetch} \cup FetchT]
         /\ fetches'[k] # NoFetch /\ fetches'[k].by = fetches[k].by /\ fetches'[k].latest = fetches[k].latest /\ fetches'[k].seen = cards
<1>1. fetches[k] \in FetchT /\ fetches \in [Fetches -> {NoFetch} \cup FetchT] /\ cards \in Decks
  BY DEF FetchesTyped, Reads
<1> DEFINE f == [fetches[k] EXCEPT !.read = TRUE, !.seen = cards]
<1>2. f \in FetchT /\ f.by = fetches[k].by /\ f.latest = fetches[k].latest /\ f.seen = cards
  BY <1>1 DEF FetchT
<1>3. fetches' = [fetches EXCEPT ![k] = f]
  BY <1>1 DEF Reads
<1> HIDE DEF f
<1>4. QED
  BY <1>1, <1>2, <1>3, NoFetchIs

\* The deck's steps keep its types, and no card leaves the store.
LEMMA FetchesKeep ==
  ASSUME FetchesTyped, CardsStep
  PROVE  FetchesTyped' /\ DOMAIN cards \subseteq DOMAIN cards'
<1>1. CASE UNCHANGED <<cards, deck, fetches>>
  BY <1>1 DEF FetchesTyped
<1>2. ASSUME NEW by \in Askers, Refreshes(by) PROVE FetchesTyped' /\ DOMAIN cards \subseteq DOMAIN cards'
  <2>1. CanFetch /\ StartRefresh(by) /\ cards' \in Decks /\ DOMAIN cards \subseteq DOMAIN cards'
    BY <1>2 DEF Refreshes
  <2>2. /\ fetches' \in [Fetches -> {NoFetch} \cup FetchT] /\ deck' \in DeckT /\ deck'.cards = deck.cards
        /\ \A i \in Fetches : fetches'[i] # NoFetch => fetches'[i].seen = <<>> \/ (fetches[i] # NoFetch /\ fetches'[i].seen = fetches[i].seen)
    BY <2>1, StartRefreshIs
  <2>3. \A i \in Fetches : fetches'[i] # NoFetch => DOMAIN fetches'[i].seen \subseteq DOMAIN cards'
    BY <2>1, <2>2, DeckIs DEF FetchesTyped
  <2>4. QED
    BY <2>1, <2>2, <2>3 DEF FetchesTyped
<1>3. ASSUME NEW k \in Fetches, Ends(k) PROVE FetchesTyped' /\ DOMAIN cards \subseteq DOMAIN cards'
  <2>1. cards' = cards
    BY <1>3 DEF Ends
  <2>2. QED
    BY <1>3, <2>1, EndsIs DEF FetchesTyped
<1>4. ASSUME NEW k \in Fetches, Reads(k) PROVE FetchesTyped' /\ DOMAIN cards \subseteq DOMAIN cards'
  <2>1. UNCHANGED <<cards, deck>>
    BY <1>4 DEF Reads
  <2>2. QED
    BY <1>4, <2>1, ReadsIs DEF FetchesTyped
<1>5. ASSUME NEW c \in Cards, Elsewheres(c) PROVE FetchesTyped' /\ DOMAIN cards \subseteq DOMAIN cards'
  <2>1. cards' \in Decks /\ DOMAIN cards' = DOMAIN cards /\ UNCHANGED <<deck, fetches>>
    <3>1. PICK r \in CardT : cards' = [cards EXCEPT ![c] = r]
      BY <1>5 DEF Elsewheres
    <3>2. QED
      BY <1>5, <3>1, DeckExcept DEF Elsewheres, FetchesTyped
  <2>2. QED
    BY <2>1 DEF FetchesTyped
<1>6. QED
  BY <1>1, <1>2, <1>3, <1>4, <1>5 DEF CardsStep

\* They keep the deck showing what this App wrote last.
LEMMA DeckKeeps ==
  ASSUME FetchesTyped, DeckInv, CardsStep
  PROVE  DeckInv'
<1>1. CASE UNCHANGED <<cards, deck, fetches>>
  BY <1>1 DEF DeckInv
<1>2. ASSUME NEW by \in Askers, Refreshes(by) PROVE DeckInv'
  <2>1. CanFetch /\ StartRefresh(by)
    BY <1>2 DEF Refreshes
  <2>2. /\ FirstFetch \in Fetches
        /\ fetches'[FirstFetch] # NoFetch /\ fetches'[FirstFetch].latest /\ ~fetches'[FirstFetch].read
        /\ \A i \in Fetches : i # FirstFetch /\ fetches'[i] # NoFetch => ~fetches'[i].latest
    BY <2>1, StartRefreshIs
  <2>3. QED
    BY <2>2 DEF DeckInv
<1>3. ASSUME NEW k \in Fetches, Ends(k) PROVE DeckInv'
  <2>1. cards' = cards /\ fetches[k] # NoFetch
    BY <1>3 DEF Ends
  <2>2. /\ fetches[k] \in FetchT /\ fetches'[k] = NoFetch /\ \A i \in Fetches \ {k} : fetches'[i] = fetches[i]
        /\ ~fetches[k].latest => deck' = deck
        /\ fetches[k].latest /\ fetches[k].read => deck'.cards = fetches[k].seen
        /\ fetches[k].latest /\ ~fetches[k].read => deck'.failed
    BY <1>3, EndsIs
  <2>3. (\A i \in Fetches : fetches'[i] # NoFetch => ~fetches'[i].latest) => deck'.failed \/ Shows(deck'.cards, cards)
    BY <2>1, <2>2 DEF DeckInv
  <2>4. QED
    BY <2>1, <2>2, <2>3 DEF DeckInv
<1>4. ASSUME NEW k \in Fetches, Reads(k) PROVE DeckInv'
  <2>1. UNCHANGED <<cards, deck>> /\ fetches[k] # NoFetch
    BY <1>4 DEF Reads
  <2>2. /\ \A i \in Fetches \ {k} : fetches'[i] = fetches[i]
        /\ fetches'[k] # NoFetch /\ fetches'[k].latest = fetches[k].latest /\ fetches'[k].seen = cards
    BY <1>4, ReadsIs
  <2>3. Shows(cards, cards)
    BY DEF Shows
  <2>4. QED
    BY <2>1, <2>2, <2>3 DEF DeckInv
<1>5. ASSUME NEW c \in Cards, Elsewheres(c) PROVE DeckInv'
  <2>1. PICK r \in CardT : ~r.here /\ cards' = [cards EXCEPT ![c] = r]
    BY <1>5 DEF Elsewheres
  <2>2. c \in DOMAIN cards /\ UNCHANGED <<deck, fetches>>
    BY <1>5 DEF Elsewheres
  <2>3. DOMAIN cards' = DOMAIN cards /\ ~cards'[c].here /\ \A d \in DOMAIN cards \ {c} : cards'[d] = cards[d]
    BY <2>1, <2>2, DeckExcept DEF FetchesTyped
  <2>4. \A s : Shows(s, cards) => Shows(s, cards')
    BY <2>3 DEF Shows
  <2>5. QED
    BY <2>2, <2>4 DEF DeckInv
<1>6. QED
  BY <1>1, <1>2, <1>3, <1>4, <1>5 DEF CardsStep

TurnT  == (Cards \cup {0}) \X Nat
VoiceT == [can : BOOLEAN, first : BOOLEAN, spoken : TurnT, say : {"idle", "listening", "heard"}, turn : TurnT]
CopyT  == CardT \cup [version : 0..MaxVersion + 1]
SaveT  == [kind : {"add", "remove", "undo"}, button : {"card", "panel", "summary", "toast"}, card : Cards,
           pc : {"writing", "refreshing"}, copy : CopyT, fetch : Fetches \cup {0}, mounted : BOOLEAN]

\* What is rated is a card, not at its last version.
RatesCard(i) ==
  /\ ratings[i].pc \in {"saving", "fetching"} => ratings[i].card \in DOMAIN cards
  /\ ratings[i].pc = "saving" => ratings[i].version < MaxVersion

PageTyped ==
  /\ \A i \in Raters : RatesCard(i)
  /\ voice \in VoiceT /\ recap \subseteq Cards

SavesTyped ==
  /\ saves \in [Savers -> {NoSave} \cup SaveT]
  /\ \A i \in Savers : saves[i] # NoSave =>
       /\ saves[i].pc = "refreshing" <=> saves[i].fetch \in Fetches
       /\ saves[i].pc = "writing" /\ saves[i].kind = "remove" => saves[i].copy \in CardT
       /\ saves[i].kind # "add" \/ saves[i].pc = "refreshing" => saves[i].card \in DOMAIN cards
       /\ saves[i].pc = "refreshing" => saves[i].copy \in [version : 0..MaxVersion + 1]
  /\ \A k \in Fetches : fetches[k].by = "save" => \E i \in Savers : saves[i] # NoSave /\ saves[i].fetch = k
  /\ toasts \subseteq [card : DOMAIN cards, version : 0..MaxVersion + 1]

DeckHyp == FetchesTyped /\ PageTyped /\ SavesTyped

\* Versions and cards are numbers.
LEMMA VersionsNat == MaxVersion \in Nat /\ Cards \subseteq Nat /\ 0 \notin Cards
BY ReviewAssumption

\* The deck's review writes one card and starts a refresh.
LEMMA SaveReviewIs ==
  ASSUME DeckHyp, RatingInv, NEW i \in Raters, SaveReview(i)
  PROVE  Refreshes("rating")
<1> DEFINE c == ratings[i].card
           r == [cards[c] EXCEPT !.version = @ + 1, !.new = FALSE, !.due = ratings[i].again, !.here = TRUE]
<1>1. /\ ratings[i] \in RateT /\ c \in DOMAIN cards /\ ratings[i].version < MaxVersion
      /\ ratings[i].version \in Nat /\ ratings[i].again \in BOOLEAN
  <2>1. ratings[i].pc = "saving"
    BY DEF SaveReview
  <2>2. ratings[i] \in RateT
    BY <2>1, NoRatingIs DEF RatingInv
  <2>3. QED
    BY <2>1, <2>2 DEF DeckHyp, PageTyped, RatesCard, RateT
<1>2. cards \in Decks /\ cards[c] \in CardT
  BY <1>1, DeckIs DEF DeckHyp, FetchesTyped
<1>3. CanFetch /\ StartRefresh("rating") /\ (cards' = cards \/ (cards[c].version = ratings[i].version /\ cards' = [cards EXCEPT ![c] = r]))
  BY DEF SaveReview
<1>4. ASSUME cards[c].version = ratings[i].version PROVE r \in CardT
  <2>1. cards[c].version + 1 \in 0..MaxVersion + 1
    BY <1>1, <1>4, VersionsNat
  <2>2. QED
    BY <1>1, <1>2, <2>1 DEF CardT
<1> HIDE DEF r, c
<1>5. cards' \in Decks /\ DOMAIN cards \subseteq DOMAIN cards'
  BY <1>1, <1>2, <1>3, <1>4, DeckExcept
<1>6. QED
  BY <1>3, <1>5 DEF Refreshes

\* So do a save, a removal and an undo.
LEMMA CommitSaveIs ==
  ASSUME DeckHyp, NEW i \in Savers, CommitSave(i)
  PROVE  /\ Refreshes("save") /\ saves[i] \in SaveT /\ saves[i].card \in DOMAIN cards'
         /\ cards'[saves[i].card].version \in 0..MaxVersion + 1
<1> DEFINE c == saves[i].card
           copy == saves[i].copy
<1>1. saves[i] \in SaveT /\ saves[i] # NoSave /\ saves[i].pc = "writing" /\ c \in Cards /\ cards \in Decks
      /\ saves[i].kind \in {"add", "remove", "undo"}
  BY DEF CommitSave, DeckHyp, SavesTyped, SaveT, FetchesTyped
<1>2. CanFetch /\ StartRefresh("save")
  BY DEF CommitSave
<1>3. ASSUME c \in DOMAIN cards PROVE cards[c] \in CardT /\ cards[c].version + 1 \in 0..MaxVersion + 1
  <2>1. cards[c] \in CardT
    BY <1>1, <1>3, DeckIs
  <2>2. cards[c].version < MaxVersion /\ cards[c].version \in 0..MaxVersion + 1
    BY <1>3, <2>1 DEF CommitSave, CardT
  <2>3. QED
    BY <2>1, <2>2, VersionsNat
<1>4. CASE saves[i].kind = "add"
  <2>1. cards' = Added(c)
    BY <1>4 DEF CommitSave
  <2> DEFINE r == IF c \in DOMAIN cards THEN [cards[c] EXCEPT !.version = @ + 1, !.live = TRUE, !.here = TRUE]
                  ELSE [version |-> 0, live |-> TRUE, new |-> TRUE, due |-> TRUE, here |-> TRUE]
  <2>2. r \in CardT
    <3>1. CASE c \in DOMAIN cards
      BY <1>3, <3>1 DEF CardT
    <3>2. CASE c \notin DOMAIN cards
      BY <3>2, VersionsNat DEF CardT
    <3>3. QED
      BY <3>1, <3>2
  <2>3. cards' = [d \in DOMAIN cards \cup {c} |-> IF d = c THEN r ELSE cards[d]]
    BY <2>1 DEF Added
  <2> HIDE DEF r
  <2>4. cards' \in [DOMAIN cards \cup {c} -> CardT] /\ DOMAIN cards \subseteq Cards /\ cards'[c] = r
    BY <1>1, <2>2, <2>3, DeckIs
  <2>5. cards' \in Decks
    BY <1>1, <2>4 DEF Decks
  <2>6. cards'[c].version \in 0..MaxVersion + 1
    BY <2>2, <2>4 DEF CardT
  <2>7. QED
    BY <1>1, <1>2, <2>4, <2>5, <2>6 DEF Refreshes
<1>5. CASE saves[i].kind = "remove"
  <2>1. cards' = Removed(c, copy) /\ c \in DOMAIN cards /\ copy \in CardT
    BY <1>1, <1>5 DEF CommitSave, DeckHyp, SavesTyped
  <2> DEFINE r == [copy EXCEPT !.version = cards[c].version + 1, !.live = FALSE, !.here = TRUE]
  <2>2. r \in CardT
    BY <1>3, <2>1 DEF CardT
  <2>3. cards' = [cards EXCEPT ![c] = r]
    BY <2>1 DEF Removed
  <2> HIDE DEF r
  <2>4. cards' \in Decks /\ DOMAIN cards' = DOMAIN cards /\ cards'[c] = r
    <3> HIDE DEF c
    <3>1. c \in DOMAIN cards /\ cards \in Decks
      BY <1>1, <2>1
    <3>2. QED
      BY <2>2, <2>3, <3>1, DeckExcept
  <2>5. r.version \in 0..MaxVersion + 1
    BY <2>2 DEF CardT
  <2>6. QED
    BY <1>1, <1>2, <2>1, <2>4, <2>5 DEF Refreshes
<1>6. CASE saves[i].kind = "undo"
  <2>1. cards' = Restored(c, copy) /\ c \in DOMAIN cards
    BY <1>1, <1>6 DEF CommitSave, DeckHyp, SavesTyped
  <2> DEFINE r == [cards[c] EXCEPT !.version = @ + 1, !.live = TRUE, !.here = TRUE]
  <2>2. r \in CardT /\ cards[c].version \in 0..MaxVersion + 1
    BY <1>3, <2>1 DEF CardT
  <2>3. cards' = cards \/ cards' = [cards EXCEPT ![c] = r]
    BY <2>1 DEF Restored
  <2> HIDE DEF r
  <2>4. cards' \in Decks /\ DOMAIN cards' = DOMAIN cards /\ (cards'[c] = r \/ cards'[c] = cards[c])
    BY <1>1, <2>1, <2>2, <2>3, DeckExcept
  <2>5. r.version \in 0..MaxVersion + 1
    BY <2>2 DEF CardT
  <2>6. QED
    BY <1>1, <1>2, <2>1, <2>2, <2>4, <2>5 DEF Refreshes
<1>7. QED
  BY <1>1, <1>4, <1>5, <1>6

\* Another tab or a sync changes a card and no refresh.
LEMMA ChangeCardIs ==
  ASSUME DeckHyp, NEW c, NEW most, most <= MaxVersion + 1, most \in Nat, ChangeCard(c, most)
  PROVE  Elsewheres(c)
<1>1. c \in DOMAIN cards /\ cards \in Decks /\ cards[c] \in CardT /\ cards[c].version < most
  BY DeckIs DEF ChangeCard, DeckHyp, FetchesTyped
<1> DEFINE r == [cards[c] EXCEPT !.version = @ + 1, !.here = FALSE]
<1>2. r \in CardT /\ ~r.here
  <2>1. cards[c].version \in 0..MaxVersion + 1 /\ MaxVersion \in Nat
    BY <1>1, VersionsNat DEF CardT
  <2>2. cards[c].version + 1 \in 0..MaxVersion + 1
    BY <1>1, <2>1
  <2>3. QED
    BY <1>1, <2>2 DEF CardT
<1>3. cards' = [cards EXCEPT ![c] = [r EXCEPT !.new = FALSE]] \/ cards' = [cards EXCEPT ![c] = [r EXCEPT !.live = FALSE]]
  BY DEF ChangeCard
<1> HIDE DEF r
<1>4. /\ [r EXCEPT !.new = FALSE] \in CardT /\ ~[r EXCEPT !.new = FALSE].here
      /\ [r EXCEPT !.live = FALSE] \in CardT /\ ~[r EXCEPT !.live = FALSE].here
  BY <1>2 DEF CardT
<1>5. UNCHANGED <<deck, fetches>>
  BY DEF ChangeCard
<1>6. QED
  BY <1>1, <1>3, <1>4, <1>5 DEF Elsewheres

\* Whatever the App does is one of the deck's steps.
LEMMA NextCards ==
  ASSUME DeckHyp, RatingInv, [Next]_vars
  PROVE  CardsStep
<1>1. CASE ProgressCalls
  BY <1>1 DEF ProgressCalls, Commit, ReadProgress, LandProgress, WriteFails, ReadFails, RestOfReview, reviewVars, CardsStep
<1>2. CASE AppStep \/ ListStep
  BY <1>2 DEF AppStep, ListStep, PagesFollow, ReviewFollows, CardsStep
<1>3. CASE Elsewhere \/ Lesson \/ Background \/ UNCHANGED vars
  BY <1>3 DEF Elsewhere, Lesson, Background, vars, reviewVars, CardsStep
<1>4. CASE DeckRefreshes
  <2>1. CASE \E k \in Fetches : ReadCards(k)
    BY <2>1 DEF ReadCards, Reads, CardsStep
  <2>2. CASE Refresh
    <3>1. Refreshes("other")
      BY <2>2 DEF Refresh, Refreshes, DeckHyp, FetchesTyped
    <3>2. QED
      BY <3>1 DEF CardsStep, Askers
  <2>3. QED
    BY <1>4, <2>1, <2>2 DEF DeckRefreshes
<1>5. CASE DeckLands
  BY <1>5 DEF DeckLands, LandCards, FailCards, Ends, CardsStep
<1>6. CASE Ratings
  <2>1. ASSUME NEW i \in Raters, SaveReview(i) PROVE CardsStep
    BY <2>1, SaveReviewIs DEF CardsStep, Askers
  <2>2. ASSUME NEW i \in Raters, FailReview(i) PROVE CardsStep
    BY <2>2 DEF FailReview, CardsStep
  <2>3. ASSUME NEW c \in Cards, ChangeCard(c, IF Uses("speech") THEN MaxVersion + 1 ELSE MaxVersion) PROVE CardsStep
    <3> DEFINE most == IF Uses("speech") THEN MaxVersion + 1 ELSE MaxVersion
    <3>1. most \in Nat /\ most <= MaxVersion + 1
      BY VersionsNat
    <3> HIDE DEF most
    <3>2. Elsewheres(c)
      BY <2>3, <3>1, ChangeCardIs DEF most
    <3>3. QED
      BY <3>2 DEF CardsStep
  <2>4. QED
    BY <1>6, <2>1, <2>2, <2>3 DEF Ratings
<1>7. CASE SaveButtons
  <2>1. ASSUME NEW i \in Savers, CommitSave(i) PROVE CardsStep
    BY <2>1, CommitSaveIs DEF CardsStep, Askers
  <2>2. ASSUME \/ \E button, c : Toggle(button, c)
               \/ \E toast : Undo(toast)
               \/ \E i \in Savers : FailSave(i)
        PROVE  CardsStep
    BY <2>2 DEF Toggle, Undo, FailSave, reviewVars, CardsStep
  <2>3. QED
    BY <1>7, <2>1, <2>2 DEF SaveButtons
<1>8. CASE ReviewPage
  BY <1>8 DEF ReviewPage, Reveal, Listen, SpeechEnds, ListenFirst, SayIt, SaidIt, SayItAgain, RecapListen, Rate, CardsStep
<1>9. QED
  BY <1>1, <1>2, <1>3, <1>4, <1>5, <1>6, <1>7, <1>8 DEF Next

SameRatings == \A j \in Slots : jobs'[j].kind = "rating" <=> jobs[j].kind = "rating"
SameAsks    == \A k \in Fetches : fetches'[k].by = "rating" <=> fetches[k].by = "rating"

\* A change of calls other than a rating's leaves the rating's alone.
LEMMA QuietRatings ==
  ASSUME TypeHyp, NEW kinds, "rating" \notin kinds, Quiet(kinds)
  PROVE  SameRatings
<1>1. Idle.kind # "rating"
  BY IdleKind
<1>2. SUFFICES ASSUME NEW j \in Slots PROVE jobs'[j].kind = "rating" <=> jobs[j].kind = "rating"
  BY DEF SameRatings
<1>3. GoesOn(j, kinds)
  BY DEF Quiet
<1>4. QED
  BY <1>1, <1>3 DEF GoesOn, Carried, Started

\* The ratings, of a page that may have been left.
RatingsGo ==
  /\ ratings' = [i \in Raters |-> ratings'[i]]
  /\ \A i \in Raters : ratings'[i] = ratings[i] \/ (ratings[i] # NoRating /\ ratings'[i] = [ratings[i] EXCEPT !.mounted = FALSE])

\* What is known of a rating.
RatingHyp == RatingInv /\ \A i \in Raters : RatesCard(i)

\* What a rating waits for is still under way.
StillAnswered(i) ==
  /\ ratings[i].pc = "fetching" => fetches'[ratings[i].fetch].by = "rating"
  /\ ratings[i].pc = "recording" => jobs'[ratings[i].job].kind = "rating"

\* Where the refreshes and recordings stay, it is.
LEMMA SameAnswers ==
  ASSUME RatingHyp, SameRatings, SameAsks
  PROVE  \A i \in Raters : StillAnswered(i)
BY DEF RatingHyp, RatingInv, SameRatings, SameAsks, StillAnswered

\* Ratings that stay as they are go on.
LEMMA RatingsSame ==
  ASSUME RatingHyp, ratings' = ratings
  PROVE  RatingsGo
BY DEF RatingHyp, RatingInv, RatingsGo

\* Where their refreshes and recordings stay, ratings stay answerable.
LEMMA RatingStays ==
  ASSUME RatingHyp, RatingsGo, \A i \in Raters : StillAnswered(i), DOMAIN cards \subseteq DOMAIN cards'
  PROVE  RatingHyp'
<1>1. ASSUME NEW i \in Raters
      PROVE  /\ ratings'[i] \in {NoRating} \cup RateT /\ ratings'[i].pc = ratings[i].pc
             /\ ratings[i].pc # "idle" => /\ ratings'[i].card = ratings[i].card /\ ratings'[i].version = ratings[i].version
                                          /\ ratings'[i].fetch = ratings[i].fetch /\ ratings'[i].job = ratings[i].job
  <2>1. ratings[i] \in {NoRating} \cup RateT
    BY DEF RatingHyp, RatingInv
  <2>2. CASE ratings'[i] = ratings[i]
    BY <2>1, <2>2
  <2>3. CASE ratings[i] \in RateT /\ ratings'[i] = [ratings[i] EXCEPT !.mounted = FALSE]
    BY <2>3 DEF RateT
  <2>4. QED
    BY <2>1, <2>2, <2>3 DEF RatingsGo
<1>2. ratings' \in [Raters -> {NoRating} \cup RateT]
  BY <1>1 DEF RatingsGo
<1>3. RatingInv'
  <2>1. ASSUME NEW i \in Raters, ratings'[i].pc = "fetching"
        PROVE  /\ ratings'[i].fetch \in Fetches /\ fetches'[ratings'[i].fetch].by = "rating"
               /\ \A r \in Raters \ {i} : ~(ratings'[r].pc = "fetching" /\ ratings'[r].fetch = ratings'[i].fetch)
    BY <1>1, <2>1 DEF RatingHyp, RatingInv, StillAnswered, Awaits
  <2>2. ASSUME NEW i \in Raters, ratings'[i].pc = "recording"
        PROVE  /\ ratings'[i].job \in Slots /\ jobs'[ratings'[i].job].kind = "rating"
               /\ \A r \in Raters \ {i} : ~(ratings'[r].pc = "recording" /\ ratings'[r].job = ratings'[i].job)
    BY <1>1, <2>2 DEF RatingHyp, RatingInv, StillAnswered, Records
  <2>3. QED
    BY <1>2, <2>1, <2>2 DEF RatingInv, Awaits, Records
<1>4. ASSUME NEW i \in Raters PROVE RatesCard(i)'
  BY <1>1 DEF RatingHyp, RatesCard
<1>5. QED
  BY <1>3, <1>4 DEF RatingHyp

\* One rating becomes r, and the others wait for what they waited for.
LEMMA RatingReplaced ==
  ASSUME RatingHyp, NEW i \in Raters, NEW r \in {NoRating} \cup RateT, ratings' = [ratings EXCEPT ![i] = r],
         DOMAIN cards \subseteq DOMAIN cards',
         r.pc \in {"saving", "fetching"} => r.card \in DOMAIN cards', r.pc = "saving" => r.version < MaxVersion,
         r.pc = "fetching" => /\ r.fetch \in Fetches /\ fetches'[r.fetch].by = "rating"
                              /\ \A o \in Raters \ {i} : ~Awaits(o, r.fetch),
         r.pc = "recording" => /\ r.job \in Slots /\ jobs'[r.job].kind = "rating"
                               /\ \A o \in Raters \ {i} : ~Records(o, r.job),
         \A o \in Raters \ {i} : StillAnswered(o)
  PROVE  RatingHyp'
<1>1. /\ ratings' \in [Raters -> {NoRating} \cup RateT] /\ ratings'[i] = r
      /\ \A o \in Raters \ {i} : ratings'[o] = ratings[o]
  BY DEF RatingHyp, RatingInv
<1>2. RatingInv'
  <2>1. ASSUME NEW o \in Raters, ratings'[o].pc = "fetching"
        PROVE  /\ ratings'[o].fetch \in Fetches /\ fetches'[ratings'[o].fetch].by = "rating"
               /\ \A q \in Raters \ {o} : ~(ratings'[q].pc = "fetching" /\ ratings'[q].fetch = ratings'[o].fetch)
    <3>1. CASE o = i
      BY <1>1, <2>1, <3>1 DEF Awaits
    <3>2. CASE o # i
      BY <1>1, <2>1, <3>2 DEF RatingHyp, RatingInv, StillAnswered, Awaits
    <3>3. QED
      BY <3>1, <3>2
  <2>2. ASSUME NEW o \in Raters, ratings'[o].pc = "recording"
        PROVE  /\ ratings'[o].job \in Slots /\ jobs'[ratings'[o].job].kind = "rating"
               /\ \A q \in Raters \ {o} : ~(ratings'[q].pc = "recording" /\ ratings'[q].job = ratings'[o].job)
    <3>1. CASE o = i
      BY <1>1, <2>2, <3>1 DEF Records
    <3>2. CASE o # i
      BY <1>1, <2>2, <3>2 DEF RatingHyp, RatingInv, StillAnswered, Records
    <3>3. QED
      BY <3>1, <3>2
  <2>3. QED
    BY <1>1, <2>1, <2>2 DEF RatingInv, Awaits, Records
<1>3. ASSUME NEW o \in Raters PROVE RatesCard(o)'
  <2>1. CASE o = i
    BY <1>1, <2>1 DEF RatesCard
  <2>2. CASE o # i
    BY <1>1, <2>2 DEF RatingHyp, RatesCard
  <2>3. QED
    BY <2>1, <2>2
<1>4. QED
  BY <1>2, <1>3 DEF RatingHyp

\* A rating that is over waits for nothing.
LEMMA RatingEnds ==
  ASSUME RatingHyp, NEW i \in Raters, EndRating(i), DOMAIN cards \subseteq DOMAIN cards',
         \A o \in Raters \ {i} : StillAnswered(o)
  PROVE  RatingHyp'
<1>1. ratings' = [ratings EXCEPT ![i] = NoRating]
  BY DEF EndRating
<1>2. QED
  BY <1>1, NoRatingIs, RatingReplaced

\* The end of its recording releases isRating.
LEMMA RatingReleased ==
  ASSUME RatingHyp, NEW j \in Slots, ratings' = Recorded(j), UNCHANGED <<fetches, cards>>,
         \A i \in Slots \ {j} : jobs'[i].kind = "rating" <=> jobs[i].kind = "rating"
  PROVE  RatingHyp'
<1>1. \A i \in Raters : ratings'[i] = (IF Records(i, j) THEN NoRating ELSE ratings[i])
  BY DEF Recorded, Records
<1>2. ratings' \in [Raters -> {NoRating} \cup RateT]
  BY DEF Recorded, RatingHyp, RatingInv
<1>3. RatingInv'
  <2>1. ASSUME NEW i \in Raters, ratings'[i].pc = "fetching"
        PROVE  /\ ratings'[i].fetch \in Fetches /\ fetches'[ratings'[i].fetch].by = "rating"
               /\ \A r \in Raters \ {i} : ~(ratings'[r].pc = "fetching" /\ ratings'[r].fetch = ratings'[i].fetch)
    BY <1>1, <2>1, NoRatingIs DEF RatingHyp, RatingInv, Awaits
  <2>2. ASSUME NEW i \in Raters, ratings'[i].pc = "recording"
        PROVE  /\ ratings'[i].job \in Slots /\ jobs'[ratings'[i].job].kind = "rating"
               /\ \A r \in Raters \ {i} : ~(ratings'[r].pc = "recording" /\ ratings'[r].job = ratings'[i].job)
    <3>1. ratings'[i] = ratings[i] /\ ratings[i].job # j
      BY <1>1, <2>2, NoRatingIs DEF Records
    <3>2. QED
      BY <1>1, <2>2, <3>1, NoRatingIs DEF RatingHyp, RatingInv, Records
  <2>3. QED
    BY <1>2, <2>1, <2>2 DEF RatingInv, Awaits, Records
<1>4. ASSUME NEW i \in Raters PROVE RatesCard(i)'
  BY <1>1, NoRatingIs DEF RatingHyp, RatesCard
<1>5. QED
  BY <1>3, <1>4 DEF RatingHyp

\* A rating whose review is stored waits for its refresh.
LEMMA RatingSaved ==
  ASSUME RatingHyp, FetchesTyped, NEW i \in Raters, SaveReview(i), DOMAIN cards \subseteq DOMAIN cards'
  PROVE  RatingHyp'
<1>1. ratings[i].pc = "saving" /\ ratings[i] \in RateT /\ ratings[i].card \in DOMAIN cards
  BY NoRatingIs DEF SaveReview, RatingHyp, RatingInv, RatesCard
<1>2. CanFetch /\ StartRefresh("rating") /\ jobs' = jobs
  BY DEF SaveReview, Rerender
<1>3. PICK saved \in BOOLEAN :
        ratings' = [ratings EXCEPT ![i].pc = "fetching", ![i].saved = saved, ![i].version = 0, ![i].fetch = FirstFetch]
  BY DEF SaveReview, FirstFetch
<1> DEFINE r == [ratings[i] EXCEPT !.pc = "fetching", !.saved = saved, !.version = 0, !.fetch = FirstFetch]
<1>4. FirstFetch \in Fetches /\ fetches[FirstFetch].by # "rating" /\ fetches'[FirstFetch].by = "rating"
      /\ \A k \in Fetches : k # FirstFetch => fetches'[k].by = fetches[k].by
  BY <1>2, StartRefreshIs, NoFetchIs DEF Askers
<1>5. r \in RateT /\ r.pc = "fetching" /\ r.card = ratings[i].card /\ r.fetch = FirstFetch
  BY <1>1, <1>4, VersionsNat DEF RateT
<1>6. ratings' = [ratings EXCEPT ![i] = r]
  BY <1>3
<1> HIDE DEF r
<1>7. \A o \in Raters : ~Awaits(o, FirstFetch) /\ StillAnswered(o)
  BY <1>2, <1>4 DEF RatingHyp, RatingInv, Awaits, StillAnswered
<1>8. QED
  BY <1>1, <1>4, <1>5, <1>6, <1>7, RatingReplaced

\* A recording is of one rating.
LEMMA RecordingIs ==
  ASSUME TypeHyp, RatingInv, NEW i \in Raters, ratings[i] \in RateT, Recording(i)
  PROVE  /\ FirstIdle(jobs) \in Slots /\ jobs[FirstIdle(jobs)] = Idle
         /\ \E r \in RateT : /\ ratings' = [ratings EXCEPT ![i] = r] /\ r.pc = "recording" /\ r.job = FirstIdle(jobs)
                             /\ r.new = ratings[i].new
         /\ LET job == jobs'[FirstIdle(jobs)] IN
            /\ job \in JobT /\ job # Idle /\ job.kind = "rating" /\ job.new = ratings[i].new /\ job.date = day /\ job.pc = "saving"
         /\ \A j \in Slots : j # FirstIdle(jobs) => jobs'[j] = jobs[j]
<1>1. ratings[i].new \in BOOLEAN /\ "rating" \in Kinds
  BY DEF RateT, Kinds
<1> DEFINE job == Job("rating", ratings[i].new, NoLesson)
           k == FirstIdle(jobs)
<1>2. job \in JobT /\ job # Idle /\ job.kind = "rating" /\ job.new = ratings[i].new /\ job.date = day /\ job.pc = "saving"
  <2>1. IsNew(Job("rating", ratings[i].new, NoLesson), "rating", ratings[i].new, NoLesson)
    BY <1>1, JobIs DEF TypeHyp
  <2>2. QED
    BY <2>1 DEF IsNew
<1>3. /\ jobs' = Starting(jobs, job) /\ Free # {}
      /\ ratings' = [ratings EXCEPT ![i].pc = "recording", ![i].job = Min(Free), ![i].fetch = 0, ![i].card = 0, ![i].again = FALSE]
  BY DEF Recording
<1> HIDE DEF job
<1>4. Min(Free) = k
  BY DEF Free, FirstIdle
<1>5. k \in Slots /\ jobs[k] = Idle /\ jobs'[k] = job /\ \A j \in Slots : j # k => jobs'[j] = jobs[j]
  <2>1. jobs \in [Slots -> {Idle} \cup JobT] /\ \E j \in Slots : jobs[j] = Idle
    BY <1>3 DEF Free, TypeHyp, ProgressTyped
  <2>2. QED
    BY <1>2, <1>3, <2>1, StartingIs
<1> HIDE DEF k
<1> DEFINE r == [ratings[i] EXCEPT !.pc = "recording", !.job = k, !.fetch = 0, !.card = 0, !.again = FALSE]
<1>6. r \in RateT /\ r.pc = "recording" /\ r.job = k /\ r.new = ratings[i].new
  BY <1>5 DEF RateT
<1>7. ratings' = [ratings EXCEPT ![i] = r]
  BY <1>3, <1>4
<1> HIDE DEF r
<1>8. \E q \in RateT : ratings' = [ratings EXCEPT ![i] = q] /\ q.pc = "recording" /\ q.job = k /\ q.new = ratings[i].new
  BY <1>6, <1>7
<1>9. QED
  BY <1>2, <1>5, <1>8 DEF k

\* That refresh's end, superseded or not, goes on to the recording.
LEMMA RatingRefreshed ==
  ASSUME RatingHyp, TypeHyp, FetchesTyped, NEW k \in Fetches, Ends(k), Continue(k)
  PROVE  RatingHyp'
<1>1. (\A f \in Fetches \ {k} : fetches'[f] = fetches[f]) /\ cards' = cards
  BY EndsIs DEF Ends
<1>2. ASSUME NEW o \in Raters, ~Awaits(o, k), \A j \in Slots : jobs[j] # Idle => jobs'[j] = jobs[j] PROVE StillAnswered(o)
  <2>1. ratings[o].pc = "fetching" => ratings[o].fetch \in Fetches \ {k}
    BY <1>2 DEF RatingHyp, RatingInv, Awaits
  <2>2. ratings[o].pc = "recording" => jobs[ratings[o].job] # Idle
    BY IdleKind DEF RatingHyp, RatingInv
  <2>3. QED
    BY <1>1, <1>2, <2>1, <2>2 DEF RatingHyp, RatingInv, StillAnswered
<1>3. CASE UNCHANGED <<ratings, jobs, recap>> /\ \A i \in Raters : ~Awaits(i, k)
  <2>1. \A o \in Raters : StillAnswered(o)
    BY <1>2, <1>3
  <2>2. QED
    BY <1>1, <1>3, <2>1, RatingsSame, RatingStays
<1>4. ASSUME NEW i \in Raters, Awaits(i, k), ratings[i] \in RateT, Recording(i) \/ (EndRating(i) /\ UNCHANGED <<jobs, recap>>)
      PROVE  RatingHyp'
  <2>1. \A o \in Raters \ {i} : ~Awaits(o, k)
    BY <1>4 DEF RatingHyp, RatingInv, Awaits
  <2>2. CASE EndRating(i) /\ UNCHANGED <<jobs, recap>>
    <3>1. \A o \in Raters \ {i} : StillAnswered(o)
      BY <1>2, <2>1, <2>2
    <3>2. QED
      BY <1>1, <2>2, <3>1, RatingEnds
  <2>3. CASE Recording(i)
    <3> DEFINE j == FirstIdle(jobs)
    <3>1. PICK r \in RateT : ratings' = [ratings EXCEPT ![i] = r] /\ r.pc = "recording" /\ r.job = j
      BY <1>4, <2>3, RecordingIs DEF RatingHyp
    <3>2. j \in Slots /\ jobs[j] = Idle /\ jobs'[j].kind = "rating" /\ \A n \in Slots : n # j => jobs'[n] = jobs[n]
      BY <1>4, <2>3, RecordingIs DEF RatingHyp
    <3> HIDE DEF j
    <3>3. \A o \in Raters : ~Records(o, j)
      BY <3>2, IdleKind DEF RatingHyp, RatingInv, Records
    <3>4. \A o \in Raters \ {i} : StillAnswered(o)
      BY <1>2, <2>1, <3>2
    <3>5. QED
      BY <1>1, <3>1, <3>2, <3>3, <3>4, RatingReplaced
  <2>4. QED
    BY <1>4, <2>2, <2>3
<1>5. QED
  BY <1>3, <1>4, ContinueIs DEF RatingHyp

\* The card on screen of a deck and the New cards that the day has introduced.
TurnOf(cs, n) == IF CapNewCards(cs, n) = {} THEN NoTurn ELSE <<Min(CapNewCards(cs, n)), cs[Min(CapNewCards(cs, n))].version>>

\* A turn is none, or a card as the deck has it.
LEMMA TurnOfIs ==
  ASSUME NEW cs \in Decks, NEW n
  PROVE  /\ TurnOf(cs, n) \in TurnT
         /\ TurnOf(cs, n) # NoTurn => /\ TurnOf(cs, n)[1] \in DOMAIN cs /\ TurnOf(cs, n)[2] = cs[TurnOf(cs, n)[1]].version
<1> DEFINE Q == CapNewCards(cs, n)
<1>1. Q \subseteq DOMAIN cs /\ DOMAIN cs \subseteq Cards /\ Cards \subseteq Nat
  BY DeckIs, VersionsNat DEF CapNewCards
<1>2. CASE Q = {}
  BY <1>2 DEF TurnOf, NoTurn, TurnT
<1>3. CASE Q # {}
  <2>1. Min(Q) \in Q
    BY <1>1, <1>3, LeastNumber
  <2>2. cs[Min(Q)] \in CardT
    BY <1>1, <2>1, DeckIs
  <2> HIDE DEF Q
  <2>3. cs[Min(Q)].version \in Nat
    BY <2>2, VersionsNat DEF CardT
  <2>4. TurnOf(cs, n) = <<Min(Q), cs[Min(Q)].version>>
    BY <1>3 DEF TurnOf, Q
  <2>5. QED
    BY <1>1, <2>1, <2>3, <2>4 DEF TurnT
<1>4. QED
  BY <1>2, <1>3

\* The turn on screen, before and after a step.
LEMMA TurnIs == Turn = TurnOf(deck.cards, NewCardsToday) /\ Turn' = TurnOf(deck'.cards, NewCardsToday')
BY DEF Turn, Queue, TurnOf

\* A lesson's step renders nothing of the review deck.
LEMMA LessonRenders == Lesson => UNCHANGED <<at, shown>>
<1>1. ASSUME NEW v, NEW s, NEW mode, Practice(v, s, mode) PROVE UNCHANGED <<at, shown>>
  BY <1>1 DEF Practice
<1>2. ASSUME NEW s, NEW answer, NEW words, Check(s, answer, words) PROVE UNCHANGED <<at, shown>>
  BY <1>1, <1>2 DEF Check, progressVars
<1>3. ASSUME NEW s, NEW mode, Shadow(s, mode) PROVE UNCHANGED <<at, shown>>
  BY <1>1, <1>3 DEF Shadow
<1>4. ASSUME NEW s, NEW answer, CheckDictation(s, answer) \/ CheckBlank(s, answer) PROVE UNCHANGED <<at, shown>>
  BY <1>2, <1>4 DEF CheckDictation, CheckBlank
<1>5. ASSUME NEW s, NEW view, SelectWord(s, view) \/ ChooseView(view) \/ TryAgain(s) PROVE UNCHANGED <<at, shown>>
  BY <1>5 DEF SelectWord, ChooseView, TryAgain, progressVars
<1>6. QED
  BY <1>3, <1>4, <1>5 DEF Lesson, RetrySave

\* The page's mount or end goes on with the ratings.
LEMMA FollowRatings ==
  ASSUME RatingHyp, NEW open, ReviewFollows(open)
  PROVE  RatingsGo
<1>1. CASE open = reviewing
  BY <1>1, RatingsSame DEF ReviewFollows
<1>2. CASE open # reviewing
  <2>1. ratings' = [i \in Raters |-> IF ratings[i] = NoRating THEN NoRating ELSE [ratings[i] EXCEPT !.mounted = FALSE]]
    BY <1>2 DEF ReviewFollows
  <2>2. QED
    BY <2>1 DEF RatingsGo
<1>3. QED
  BY <1>1, <1>2

\* A rating of the card on screen.
RatingOf(r) ==
  /\ r.card \in DOMAIN cards /\ r.version < MaxVersion /\ r.card = Turn[1] /\ Turn # NoTurn
  /\ r.new = deck.cards[Turn[1]].new

\* The page starts one rating, of the card on screen.
LEMMA RateIs ==
  ASSUME FetchesTyped, NEW again \in BOOLEAN, Rate(again)
  PROVE  \E i \in Raters : /\ ratings[i] = NoRating
                           /\ overlapped' = (overlapped \/ (deck.cards[Turn[1]].new /\
                                               \E o \in Raters : ratings[o] # NoRating /\ ratings[o].new))
                           /\ \E r \in RateT : ratings' = [ratings EXCEPT ![i] = r] /\ r.pc = "saving" /\ RatingOf(r)
<1> DEFINE c == Turn[1]
           unused == {i \in Raters : ratings[i] = NoRating}
           i == Min(unused)
           r == [pc |-> "saving", card |-> c, version |-> Turn[2], new |-> deck.cards[c].new, again |-> again,
                 saved |-> FALSE, fetch |-> 0, job |-> 0, mounted |-> TRUE]
<1>1. Turn # NoTurn /\ Turn[2] < MaxVersion /\ ratings' = [ratings EXCEPT ![i] = r] /\ unused # {}
      /\ overlapped' = (overlapped \/ (deck.cards[c].new /\ \E o \in Raters \ unused : ratings[o].new))
  BY DEF Rate, ShowAnswer
<1>2. i \in unused
  <2>1. unused \subseteq Nat
    BY ReviewAssumption
  <2> HIDE DEF unused
  <2>2. QED
    BY <1>1, <2>1, LeastNumber
<1>3. deck.cards \in Decks /\ DOMAIN deck.cards \subseteq DOMAIN cards
  BY DEF FetchesTyped, DeckT
<1>4. Turn \in TurnT /\ c \in DOMAIN deck.cards
  BY <1>1, <1>3, TurnIs, TurnOfIs
<1>5. deck.cards[c].new \in BOOLEAN /\ c \in Cards /\ c \in DOMAIN cards
  BY <1>3, <1>4, DeckIs DEF CardT
<1>6. Turn[2] \in Nat
  BY <1>4 DEF TurnT
<1>7. r \in RateT /\ r.pc = "saving" /\ RatingOf(r)
  <2> HIDE DEF c
  <2>1. r \in RateT /\ r.pc = "saving" /\ r.card = c /\ r.version = Turn[2] /\ r.new = deck.cards[c].new
    BY <1>5, <1>6 DEF RateT
  <2> HIDE DEF r
  <2>2. QED
    BY <1>1, <1>5, <2>1 DEF RatingOf, c
<1>8. \E q \in RateT : ratings' = [ratings EXCEPT ![i] = q] /\ q.pc = "saving" /\ RatingOf(q)
  <2> HIDE DEF i, r
  <2>1. QED
    BY <1>1, <1>7
<1>9. i \in Raters /\ ratings[i] = NoRating
  BY <1>2
<1>10. (\E o \in Raters \ unused : ratings[o].new) <=> (\E o \in Raters : ratings[o] # NoRating /\ ratings[o].new)
  OBVIOUS
<1> HIDE DEF i, r, unused
<1>11. QED
  BY <1>1, <1>8, <1>9, <1>10

\* No step leaves a rating without its answer.
LEMMA NextRating ==
  ASSUME TypeHyp, DeckHyp, RatingHyp, SceneTyped, [Next]_vars, DOMAIN cards \subseteq DOMAIN cards'
  PROVE  RatingHyp'
<1>0. FetchesTyped
  BY DEF DeckHyp
<1>1. CASE ProgressCalls
  <2>1. PICK j \in Slots : Commit(j) \/ ReadProgress(j) \/ LandProgress(j) \/ WriteFails(j) \/ ReadFails(j)
    BY <1>1 DEF ProgressCalls
  <2>2. CASE Commit(j) \/ ReadProgress(j)
    <3>1. UNCHANGED <<ratings, fetches, cards>> /\ (CommitPractice(j) \/ CommitComplete(j) \/ Read(j))
      BY <2>2 DEF Commit, ReadProgress, reviewVars
    <3>2. SameRatings
      <4>1. jobs'[j].kind = jobs[j].kind /\ \A i \in Slots \ {j} : jobs'[i] = jobs[i]
        <5>1. CASE CommitPractice(j)
          BY <5>1, CommitIs
        <5>2. CASE CommitComplete(j)
          BY <5>2, CompleteIs DEF CommitComplete
        <5>3. CASE Read(j)
          BY <5>3, ReadIs
        <5>4. QED
          BY <3>1, <5>1, <5>2, <5>3
      <4>2. QED
        BY <4>1 DEF SameRatings
    <3>3. QED
      BY <3>1, <3>2, SameAnswers, RatingsSame, RatingStays DEF SameAsks
  <2>3. CASE LandProgress(j)
    <3>1. Lands(j)
      BY <2>3, LandKeeps DEF LandProgress
    <3>2. \A i \in Slots \ {j} : jobs'[i].kind = "rating" <=> jobs[i].kind = "rating"
      BY <3>1, IdleKind DEF Lands, Started, GoesOn, Carried
    <3>3. QED
      BY <2>3, <3>2, RatingReleased DEF LandProgress, RestOfReview
  <2>4. CASE WriteFails(j) \/ ReadFails(j)
    <3>1. jobs' = [jobs EXCEPT ![j] = Idle] /\ ratings' = Recorded(j) /\ UNCHANGED <<fetches, cards>>
      BY <2>4 DEF WriteFails, ReadFails, VisitFailWrite, VisitFailRead, FailWrite, FailRead, RestOfReview
    <3>2. \A i \in Slots \ {j} : jobs'[i] = jobs[i]
      BY <3>1 DEF TypeHyp, ProgressTyped
    <3>3. QED
      BY <3>1, <3>2, RatingReleased
  <2>5. QED
    BY <2>1, <2>2, <2>3, <2>4
<1>2. CASE AppStep \/ ListStep
  <2>1. RatingsGo /\ UNCHANGED fetches /\ VisitFollows(LessonOnScreen') /\ UNCHANGED <<day, store, shown, goal, lapsed>>
        /\ (Render(shown, FALSE) \/ UNCHANGED <<at, announced>>)
    <3>1. ReviewFollows(nav'.route.view = "review")
      BY <1>2 DEF AppStep, ListStep, PagesFollow
    <3>2. RatingsGo
      BY <3>1, FollowRatings
    <3>3. QED
      BY <1>2, <3>2 DEF AppStep, ListStep, PagesFollow, ReviewFollows, Render
  <2>2. SameRatings
    BY <2>1, IdleKind DEF VisitFollows, Disowned, SameRatings, TypeHyp, ProgressTyped, JobT
  <2>3. QED
    BY <2>1, <2>2, SameAnswers, RatingStays DEF SameAsks
<1>3. CASE Elsewhere \/ UNCHANGED vars
  <2>1. UNCHANGED <<ratings, fetches, jobs>>
    BY <1>3 DEF Elsewhere, vars, progressVars, reviewVars
  <2>2. QED
    BY <2>1, SameAnswers, RatingsSame, RatingStays DEF SameRatings, SameAsks
<1>4. CASE Lesson
  <2>1. SameRatings
    BY <1>4, LessonSteps, QuietRatings
  <2>2. UNCHANGED <<ratings, fetches>>
    BY <1>4 DEF Lesson, reviewVars
  <2>3. QED
    BY <2>1, <2>2, SameAnswers, RatingsSame, RatingStays DEF SameAsks
<1>5. CASE DeckRefreshes
  <2>1. UNCHANGED <<ratings, jobs>>
    BY <1>5 DEF DeckRefreshes, Refresh, ReadCards, Rerender, progressVars
  <2>2. SameAsks
    <3>1. CASE Refresh
      <4>1. CanFetch /\ StartRefresh("other") /\ "other" \in Askers
        BY <3>1 DEF Refresh, Askers
      <4>2. FirstFetch \in Fetches /\ fetches[FirstFetch].by # "rating" /\ fetches'[FirstFetch].by = "other"
            /\ \A i \in Fetches : i # FirstFetch => fetches'[i].by = fetches[i].by
        BY <1>0, <4>1, StartRefreshIs, NoFetchIs
      <4>3. QED
        BY <4>2 DEF SameAsks
    <3>2. CASE \E k \in Fetches : ReadCards(k)
      <4>1. PICK k \in Fetches : Reads(k)
        BY <3>2 DEF ReadCards, Reads
      <4>2. QED
        BY <1>0, <4>1, ReadsIs DEF SameAsks
    <3>3. QED
      BY <1>5, <3>1, <3>2 DEF DeckRefreshes
  <2>3. QED
    BY <2>1, <2>2, SameAnswers, RatingsSame, RatingStays DEF SameRatings
<1>6. CASE DeckLands
  <2>1. PICK k \in Fetches : Ends(k) /\ Continue(k)
    BY <1>6 DEF DeckLands, LandCards, FailCards, Ends
  <2>2. QED
    BY <1>0, <2>1, RatingRefreshed
<1>7. CASE Ratings
  <2>1. ASSUME NEW i \in Raters, SaveReview(i) PROVE RatingHyp'
    BY <1>0, <2>1, RatingSaved
  <2>2. ASSUME NEW i \in Raters, FailReview(i) PROVE RatingHyp'
    <3>1. EndRating(i) /\ UNCHANGED <<fetches, jobs>>
      BY <2>2 DEF FailReview, progressVars
    <3>2. \A o \in Raters : StillAnswered(o)
      BY <3>1, SameAnswers DEF SameRatings, SameAsks
    <3>3. QED
      BY <3>1, <3>2, RatingEnds
  <2>3. CASE UNCHANGED <<ratings, fetches, jobs>>
    BY <2>3, SameAnswers, RatingsSame, RatingStays DEF SameRatings, SameAsks
  <2>4. QED
    BY <1>7, <2>1, <2>2, <2>3 DEF Ratings, ChangeCard, progressVars
<1>8. CASE SaveButtons
  <2>1. UNCHANGED <<ratings, jobs>>
    BY <1>8 DEF SaveButtons, Toggle, Undo, FailSave, CommitSave, Rerender, progressVars, reviewVars
  <2>2. CASE fetches' = fetches
    BY <2>1, <2>2, SameAnswers, RatingsSame, RatingStays DEF SameRatings, SameAsks
  <2>3. CASE fetches' # fetches
    <3>1. CanFetch /\ StartRefresh("save") /\ "save" \in Askers
      BY <1>8, <2>3 DEF SaveButtons, Toggle, Undo, FailSave, CommitSave, reviewVars, Askers
    <3>2. FirstFetch \in Fetches /\ fetches[FirstFetch].by # "rating" /\ fetches'[FirstFetch].by = "save"
          /\ \A i \in Fetches : i # FirstFetch => fetches'[i].by = fetches[i].by
      BY <1>0, <3>1, StartRefreshIs, NoFetchIs
    <3>3. QED
      BY <2>1, <3>2, SameAnswers, RatingsSame, RatingStays DEF SameRatings, SameAsks
  <2>4. QED
    BY <2>2, <2>3
<1>9. CASE ReviewPage
  <2>1. UNCHANGED <<fetches, cards, jobs>>
    BY <1>9 DEF ReviewPage, Reveal, Listen, SpeechEnds, ListenFirst, SayIt, SaidIt, SayItAgain, RecapListen, Rate, progressVars
  <2>2. CASE \E again \in BOOLEAN : Rate(again)
    <3>1. PICK again \in BOOLEAN : Rate(again)
      BY <2>2
    <3>2. PICK i \in Raters : \E r \in RateT :
             /\ ratings' = [ratings EXCEPT ![i] = r] /\ r.pc = "saving" /\ RatingOf(r)
      BY <1>0, <3>1, RateIs
    <3>3. PICK r \in RateT : ratings' = [ratings EXCEPT ![i] = r] /\ r.pc = "saving" /\ RatingOf(r)
      BY <3>2
    <3>4. \A o \in Raters : StillAnswered(o)
      BY <2>1, SameAnswers DEF SameRatings, SameAsks
    <3>5. QED
      BY <2>1, <3>3, <3>4, RatingReplaced DEF RatingOf
  <2>3. CASE ratings' = ratings
    BY <2>1, <2>3, SameAnswers, RatingsSame, RatingStays DEF SameRatings, SameAsks
  <2>4. QED
    BY <1>9, <2>2, <2>3 DEF ReviewPage, Reveal, Listen, SpeechEnds, ListenFirst, SayIt, SaidIt, SayItAgain, RecapListen
<1>10. CASE Background
  <2>1. UNCHANGED <<ratings, fetches>>
    BY <1>10 DEF Background, reviewVars
  <2>2. SameRatings
    <3>1. CASE Reload
      <4>1. Free # {} /\ jobs' = Starting(jobs, Job("reload", FALSE, NoLesson)) /\ UNCHANGED <<day, at, store, shown, goal, announced, lapsed>>
        BY <3>1 DEF Reload
      <4>2. "reload" \in Kinds \ {"complete"} /\ visit' = visit
        BY <1>10 DEF Kinds, Background, pageVars
      <4>3. Quiet({"reload"})
        BY <4>1, <4>2, StartKeeps
      <4>4. QED
        BY <4>3, QuietRatings
    <3>2. CASE ~Reload
      BY <1>10, <3>2 DEF Background, GoalPicker, ChooseGoal, Midnight, SameRatings
    <3>3. QED
      BY <3>1, <3>2
  <2>3. QED
    BY <2>1, <2>2, SameAnswers, RatingsSame, RatingStays DEF SameAsks
<1>11. QED
  BY <1>1, <1>2, <1>3, <1>4, <1>5, <1>6, <1>7, <1>8, <1>9, <1>10 DEF Next

\* A call of a save.
SaveOk(s, dom) ==
  /\ s.pc = "refreshing" <=> s.fetch \in Fetches
  /\ s.pc = "writing" /\ s.kind = "remove" => s.copy \in CardT
  /\ s.kind # "add" \/ s.pc = "refreshing" => s.card \in dom
  /\ s.pc = "refreshing" => s.copy \in [version : 0..MaxVersion + 1]

\* A button that is not busy has no refresh.
LEMMA NoSaveIs == NoSave \notin SaveT /\ 0 \notin Fetches /\ Fetches \subseteq Nat
<1>1. NoSave.kind \notin {"add", "remove", "undo"}
  BY DEF NoSave
<1>2. QED
  BY <1>1, ReviewAssumption DEF SaveT

\* What a button calls is of the deck's cards.
LEMMA CallIs ==
  ASSUME NEW kind \in {"add", "remove", "undo"}, NEW button \in {"card", "panel", "summary", "toast"},
         NEW c \in Cards, NEW copy \in CopyT, NEW dom,
         kind = "remove" => copy \in CardT, kind # "add" => c \in dom
  PROVE  Call(kind, button, c, copy) \in SaveT /\ SaveOk(Call(kind, button, c, copy), dom)
BY NoSaveIs DEF Call, SaveT, SaveOk

\* Where the buttons' refreshes stay, the buttons' calls stay typed.
LEMMA SavesStay ==
  ASSUME SavesTyped, DOMAIN cards \subseteq DOMAIN cards', toasts' \subseteq toasts, saves' \in [Savers -> {NoSave} \cup SaveT],
         \A k \in Fetches : fetches'[k].by = "save" => fetches[k].by = "save",
         \A i \in Savers : /\ saves[i] # NoSave /\ saves[i].fetch \in Fetches => saves'[i] # NoSave /\ saves'[i].fetch = saves[i].fetch
                           /\ saves'[i] # NoSave => \/ SaveOk(saves'[i], DOMAIN cards')
                                                    \/ saves[i] # NoSave /\ saves'[i] = saves[i]
                                                    \/ saves[i] # NoSave /\ saves'[i] = [saves[i] EXCEPT !.mounted = FALSE]
  PROVE  SavesTyped'
<1>1. ASSUME NEW i \in Savers, saves'[i] # NoSave PROVE SaveOk(saves'[i], DOMAIN cards')
  <2>1. CASE saves[i] # NoSave /\ (saves'[i] = saves[i] \/ saves'[i] = [saves[i] EXCEPT !.mounted = FALSE])
    <3>1. saves[i] \in SaveT
      BY <2>1 DEF SavesTyped
    <3>2. /\ saves'[i].pc = saves[i].pc /\ saves'[i].kind = saves[i].kind /\ saves'[i].copy = saves[i].copy
          /\ saves'[i].card = saves[i].card /\ saves'[i].fetch = saves[i].fetch
      BY <2>1, <3>1 DEF SaveT
    <3>3. SaveOk(saves[i], DOMAIN cards)
      BY <2>1 DEF SavesTyped, SaveOk
    <3>4. QED
      BY <3>2, <3>3 DEF SaveOk
  <2>2. QED
    BY <1>1, <2>1
<1>2. ASSUME NEW k \in Fetches, fetches'[k].by = "save" PROVE \E i \in Savers : saves'[i] # NoSave /\ saves'[i].fetch = k
  BY <1>2 DEF SavesTyped
<1>3. toasts' \subseteq [card : DOMAIN cards', version : 0..MaxVersion + 1]
  BY DEF SavesTyped
<1>4. QED
  BY <1>1, <1>2, <1>3 DEF SavesTyped, SaveOk

\* Nothing but mounted changes.
LEMMA SavesUnmounted ==
  ASSUME SavesTyped, DOMAIN cards \subseteq DOMAIN cards', ButtonsFollow \/ UNCHANGED savesVars,
         \A k \in Fetches : fetches'[k].by = "save" => fetches[k].by = "save"
  PROVE  SavesTyped'
<1>1. saves \in [Savers -> {NoSave} \cup SaveT]
  BY DEF SavesTyped
<1>2. CASE UNCHANGED savesVars
  BY <1>1, <1>2, SavesStay DEF savesVars
<1>3. CASE ButtonsFollow
  <2>1. toasts' = toasts /\ \E buttons : saves' = Unmounted(buttons)
    BY <1>3 DEF ButtonsFollow
  <2>2. PICK buttons : saves' = Unmounted(buttons)
    BY <2>1
  <2>3. \A i \in Savers : saves'[i] = saves[i] \/ (saves[i] # NoSave /\ saves'[i] = [saves[i] EXCEPT !.mounted = FALSE])
    BY <2>2 DEF Unmounted
  <2>4. \A s \in SaveT : [s EXCEPT !.mounted = FALSE] \in SaveT /\ [s EXCEPT !.mounted = FALSE].fetch = s.fetch
    BY DEF SaveT
  <2>5. saves' \in [Savers -> {NoSave} \cup SaveT]
    BY <1>1, <2>2, <2>3, <2>4 DEF Unmounted
  <2>6. \A i \in Savers : saves[i] # NoSave => saves'[i] # NoSave /\ saves'[i].fetch = saves[i].fetch
    <3>1. ASSUME NEW i \in Savers, saves[i] # NoSave PROVE saves'[i] # NoSave /\ saves'[i].fetch = saves[i].fetch
      <4>1. saves[i] \in SaveT
        BY <1>1, <3>1
      <4>2. [saves[i] EXCEPT !.mounted = FALSE] \in SaveT /\ [saves[i] EXCEPT !.mounted = FALSE].fetch = saves[i].fetch
        BY <2>4, <4>1
      <4>3. QED
        BY <2>3, <4>1, <4>2, NoSaveIs
    <3>2. QED
      BY <3>1
  <2>7. QED
    BY <2>1, <2>3, <2>5, <2>6, SavesStay
<1>4. QED
  BY <1>2, <1>3

\* A call that starts.
LEMMA SaveStarts ==
  ASSUME SavesTyped, UNCHANGED <<cards, fetches>>, toasts' \subseteq toasts, CanCall,
         NEW call \in SaveT, SaveOk(call, DOMAIN cards), saves' = Calling(call)
  PROVE  SavesTyped'
<1> DEFINE S == {i \in Savers : saves[i] = NoSave}
           k == Min(S)
<1>1. k \in S
  BY SavesAssumption, LeastNumber DEF CanCall
<1>2. saves' = [saves EXCEPT ![k] = call] /\ saves \in [Savers -> {NoSave} \cup SaveT]
  BY DEF Calling, SavesTyped
<1> HIDE DEF k
<1>3. saves' \in [Savers -> {NoSave} \cup SaveT] /\ saves'[k] = call /\ \A i \in Savers \ {k} : saves'[i] = saves[i]
  BY <1>1, <1>2
<1>4. QED
  BY <1>1, <1>3, SavesStay

\* A call that commits goes on to its refresh.
LEMMA SaveCommits ==
  ASSUME DeckHyp, NEW i \in Savers, CommitSave(i), DOMAIN cards \subseteq DOMAIN cards'
  PROVE  SavesTyped'
<1> DEFINE copy == [version |-> cards'[saves[i].card].version]
           s == [saves[i] EXCEPT !.pc = "refreshing", !.copy = copy, !.fetch = FirstFetch]
<1>1. saves[i] # NoSave /\ saves[i].pc = "writing" /\ saves[i] \in SaveT /\ SavesTyped /\ saves \in [Savers -> {NoSave} \cup SaveT]
  BY DEF CommitSave, DeckHyp, SavesTyped
<1>2. saves[i].card \in DOMAIN cards' /\ copy \in [version : 0..MaxVersion + 1]
  BY CommitSaveIs
<1>3. CanFetch /\ StartRefresh("save") /\ "save" \in Askers /\ toasts' = toasts
  BY DEF CommitSave, Askers
<1>4. FirstFetch \in Fetches /\ \A l \in Fetches : l # FirstFetch => fetches'[l].by = fetches[l].by
  BY <1>3, StartRefreshIs DEF DeckHyp
<1>5. saves' = [saves EXCEPT ![i] = s]
  BY <1>1 DEF CommitSave, FirstFetch
<1> HIDE DEF copy
<1>6. s \in SaveT /\ SaveOk(s, DOMAIN cards') /\ s.fetch = FirstFetch
  BY <1>1, <1>2, <1>4 DEF SaveT, SaveOk, CopyT
<1>7. saves[i].fetch \notin Fetches
  BY <1>1 DEF SavesTyped
<1> HIDE DEF s
<1>8. saves' \in [Savers -> {NoSave} \cup SaveT] /\ saves'[i] = s /\ \A j \in Savers \ {i} : saves'[j] = saves[j]
  BY <1>1, <1>5, <1>6
<1>9. \A j \in Savers : saves'[j] # NoSave => SaveOk(saves'[j], DOMAIN cards')
  <2>1. \A j \in Savers : saves[j] # NoSave => SaveOk(saves[j], DOMAIN cards)
    BY <1>1 DEF SavesTyped, SaveOk
  <2>2. QED
    BY <1>6, <1>8, <2>1 DEF SaveOk
<1>10. ASSUME NEW k \in Fetches, fetches'[k].by = "save" PROVE \E j \in Savers : saves'[j] # NoSave /\ saves'[j].fetch = k
  <2>1. CASE k = FirstFetch
    BY <1>6, <1>8, <2>1, NoSaveIs
  <2>2. CASE k # FirstFetch
    <3>1. PICK j \in Savers : saves[j] # NoSave /\ saves[j].fetch = k
      BY <1>1, <1>4, <1>10, <2>2 DEF SavesTyped
    <3>2. QED
      BY <1>7, <1>8, <3>1
  <2>3. QED
    BY <2>1, <2>2
<1>11. toasts' \subseteq [card : DOMAIN cards', version : 0..MaxVersion + 1]
  BY <1>1, <1>3 DEF SavesTyped
<1>12. QED
  BY <1>8, <1>9, <1>10, <1>11 DEF SavesTyped, SaveOk

\* A call ends with its refresh.
LEMMA SaveEnded ==
  ASSUME DeckHyp, NEW k \in Fetches, Ends(k), SaveEnds(k)
  PROVE  SavesTyped'
<1>1. SavesTyped /\ fetches'[k] = NoFetch /\ NoFetch.by # "save" /\ cards' = cards /\ \A l \in Fetches \ {k} : fetches'[l] = fetches[l]
  BY EndsIs, NoFetchIs DEF DeckHyp, Ends, Askers
<1>2. CASE fetches[k].by # "save"
  BY <1>1, <1>2, SavesUnmounted DEF SaveEnds
<1>3. CASE fetches[k].by = "save"
  <2> DEFINE i == CHOOSE i \in Savers : saves[i] # NoSave /\ saves[i].fetch = k
  <2>1. \E j \in Savers : saves[j] # NoSave /\ saves[j].fetch = k
    BY <1>1, <1>3 DEF SavesTyped
  <2>2. i \in Savers /\ saves[i] # NoSave /\ saves[i].fetch = k
    BY <2>1
  <2>3. /\ saves' = [saves EXCEPT ![i] = NoSave]
        /\ toasts' = IF saves[i].kind # "remove" THEN toasts
                     ELSE toasts \cup {[card |-> saves[i].card, version |-> saves[i].copy.version]}
    BY <1>3 DEF SaveEnds
  <2> HIDE DEF i
  <2>4. saves[i].pc = "refreshing"
    BY <1>1, <2>2 DEF SavesTyped
  <2>5. saves[i].card \in DOMAIN cards /\ saves[i].copy \in [version : 0..MaxVersion + 1]
    BY <1>1, <2>2, <2>4 DEF SavesTyped
  <2>6. toasts' \subseteq [card : DOMAIN cards', version : 0..MaxVersion + 1]
    BY <1>1, <2>3, <2>5 DEF SavesTyped
  <2>7. saves' \in [Savers -> {NoSave} \cup SaveT] /\ saves'[i] = NoSave /\ \A j \in Savers \ {i} : saves'[j] = saves[j]
    BY <1>1, <2>2, <2>3 DEF SavesTyped
  <2>8. ASSUME NEW l \in Fetches, fetches'[l].by = "save" PROVE \E j \in Savers : saves'[j] # NoSave /\ saves'[j].fetch = l
    <3>1. l # k
      BY <1>1, <2>8
    <3>2. PICK j \in Savers : saves[j] # NoSave /\ saves[j].fetch = l
      BY <1>1, <2>8, <3>1 DEF SavesTyped
    <3>3. QED
      BY <2>2, <2>7, <3>1, <3>2
  <2>9. QED
    BY <1>1, <2>6, <2>7, <2>8 DEF SavesTyped
<1>4. QED
  BY <1>2, <1>3

\* No step leaves a button's call without its refresh.
LEMMA NextSaves ==
  ASSUME TypeHyp, DeckHyp, SceneTyped, [Next]_vars, DOMAIN cards \subseteq DOMAIN cards'
  PROVE  SavesTyped'
<1>0. FetchesTyped /\ SavesTyped
  BY DEF DeckHyp
<1>1. CASE ProgressCalls \/ Elsewhere \/ Background \/ UNCHANGED vars \/ ReviewPage \/ (Ratings /\ ~\E i \in Raters : SaveReview(i))
  <2>1. UNCHANGED <<fetches, savesVars>>
    BY <1>1 DEF ProgressCalls, Commit, ReadProgress, LandProgress, WriteFails, ReadFails, RestOfReview, Elsewhere, Background, vars,
                reviewVars, savesVars, Ratings, FailReview, ChangeCard,
                ReviewPage, Reveal, Listen, SpeechEnds, ListenFirst, SayIt, SaidIt, SayItAgain, RecapListen, Rate
  <2>2. QED
    BY <1>0, <2>1, SavesUnmounted
<1>2. CASE AppStep \/ ListStep \/ Lesson
  <2>1. ButtonsFollow /\ fetches' = fetches
    BY <1>2 DEF AppStep, ListStep, Lesson, PagesFollow, ReviewFollows, reviewVars
  <2>2. QED
    BY <1>0, <2>1, SavesUnmounted
<1>3. CASE DeckRefreshes \/ (Ratings /\ \E i \in Raters : SaveReview(i))
  <2>1. UNCHANGED savesVars
    BY <1>3 DEF DeckRefreshes, Ratings
  <2>2. \A k \in Fetches : fetches'[k].by = "save" => fetches[k].by = "save"
    <3>1. ASSUME NEW by \in Askers \ {"save"}, CanFetch, StartRefresh(by) PROVE \A k \in Fetches : fetches'[k].by = "save" => fetches[k].by = "save"
      BY <1>0, <3>1, StartRefreshIs
    <3>2. ASSUME NEW k \in Fetches, ReadCards(k) PROVE \A l \in Fetches : fetches'[l].by = "save" => fetches[l].by = "save"
      <4>1. Reads(k)
        BY <3>2 DEF ReadCards, Reads
      <4>2. QED
        BY <1>0, <4>1, ReadsIs
    <3>3. QED
      BY <1>3, <3>1, <3>2 DEF DeckRefreshes, Refresh, SaveReview, Askers
  <2>3. QED
    BY <1>0, <2>1, <2>2, SavesUnmounted
<1>4. CASE DeckLands
  <2>1. PICK k \in Fetches : Ends(k) /\ SaveEnds(k)
    BY <1>4 DEF DeckLands, LandCards, FailCards, Ends
  <2>2. QED
    BY <2>1, SaveEnded
<1>5. CASE SaveButtons
  <2>1. ASSUME NEW button \in DOMAIN Buttons, NEW c \in scene.offers, Toggle(button, c) PROVE SavesTyped'
    <3>1. button \in {"card", "panel", "summary", "toast"} /\ c \in Cards
      BY LearnerAssumption DEF Buttons, SceneTyped
    <3>2. CanCall /\ UNCHANGED <<cards, fetches, toasts>>
          /\ saves' = Calling(IF SavedOnScreen(c) THEN Call("remove", button, c, deck.cards[c]) ELSE Call("add", button, c, NoCopy))
      BY <2>1 DEF Toggle, reviewVars
    <3>3. deck.cards \in Decks /\ DOMAIN deck.cards \subseteq DOMAIN cards
      BY <1>0 DEF FetchesTyped, DeckT
    <3>4. CASE SavedOnScreen(c)
      <4>1. c \in DOMAIN cards /\ deck.cards[c] \in CardT /\ deck.cards[c] \in CopyT
        BY <3>3, <3>4, DeckIs DEF SavedOnScreen, CopyT
      <4>2. QED
        BY <1>0, <3>1, <3>2, <3>4, <4>1, CallIs, SaveStarts
    <3>5. CASE ~SavedOnScreen(c)
      <4>1. NoCopy \in CopyT
        BY VersionsNat DEF NoCopy, CopyT
      <4>2. QED
        BY <1>0, <3>1, <3>2, <3>5, <4>1, CallIs, SaveStarts
    <3>6. QED
      BY <3>4, <3>5
  <2>2. ASSUME NEW toast \in toasts, Undo(toast) PROVE SavesTyped'
    <3>1. toast.card \in DOMAIN cards /\ toast.card \in Cards /\ [version |-> toast.version] \in CopyT
      BY <1>0, DeckIs DEF FetchesTyped, SavesTyped, CopyT
    <3>2. CanCall /\ UNCHANGED <<cards, fetches>> /\ toasts' \subseteq toasts
          /\ saves' = Calling(Call("undo", "toast", toast.card, [version |-> toast.version]))
      BY <2>2 DEF Undo, reviewVars
    <3>3. QED
      BY <1>0, <3>1, <3>2, CallIs, SaveStarts
  <2>3. ASSUME NEW i \in Savers, CommitSave(i) PROVE SavesTyped'
    BY <2>3, SaveCommits
  <2>4. ASSUME NEW i \in Savers, FailSave(i) PROVE SavesTyped'
    <3>1. saves[i] # NoSave /\ saves[i].pc = "writing" /\ saves' = [saves EXCEPT ![i] = NoSave] /\ UNCHANGED <<cards, fetches, toasts>>
      BY <2>4 DEF FailSave, reviewVars
    <3>2. saves[i].fetch \notin Fetches /\ saves \in [Savers -> {NoSave} \cup SaveT]
      BY <1>0, <3>1 DEF SavesTyped
    <3>3. saves' \in [Savers -> {NoSave} \cup SaveT] /\ saves'[i] = NoSave /\ \A j \in Savers \ {i} : saves'[j] = saves[j]
      BY <3>1, <3>2
    <3>4. QED
      BY <1>0, <3>1, <3>2, <3>3, SavesStay
  <2>5. QED
    BY <1>5, <2>1, <2>2, <2>3, <2>4 DEF SaveButtons
<1>6. QED
  BY <1>1, <1>2, <1>3, <1>4, <1>5 DEF Next, Ratings

\* The page on screen is that of the route.
PageInv == visit.lesson = LessonOnScreen /\ (reviewing <=> nav.route.view = "review")

\* The steps of the library keep the page.
LEMMA ElsewherePage ==
  ASSUME LibraryInv, PageInv, Elsewhere
  PROVE  PageInv'
<1>1. UNCHANGED <<visit, reviewing>>
  BY DEF Elsewhere, reviewVars
<1>2. nav \in NavT /\ lists \in ListsT /\ own \in OwnT /\ Mount(nav, lists)
  BY DEF LibraryInv, LibraryTyped
<1>3. CASE RetryLibrary
  <2> DEFINE n == [nav EXCEPT !.heading = TRUE]
             l == [lists EXCEPT !.library = "loading"]
  <2>1. Rendered(n, l, own, FALSE) /\ nav.route.view = "library"
    BY <1>2, <1>3 DEF RetryLibrary, Mount
  <2>2. n \in NavT /\ n.route = nav.route
    BY <1>2 DEF NavT
  <2> HIDE DEF n, l
  <2>3. Redirected(n, own) = n
    BY <2>1, <2>2 DEF Redirected
  <2>4. \A m, b : Focused(n, m, own, b).route = n.route /\ Focused(n, m, own, b) \in [route : {n.route}, url : {n.url}, returnTo : {n.returnTo, NoId}, heading : BOOLEAN, last : {n.last}]
    BY <2>2 DEF Focused, NavT
  <2>5. nav'.route = nav.route /\ own' = own
    BY <2>1, <2>2, <2>3, <2>4 DEF Rendered
  <2>6. QED
    BY <1>1, <2>1, <2>5 DEF PageInv, LessonOnScreen, Shown, Found
<1>4. ASSUME nav'.route = nav.route, lists' = lists, own'.state = own.state, own'.lessons = own.lessons PROVE PageInv'
  BY <1>1, <1>4 DEF PageInv, LessonOnScreen, Shown, Found, Loaded
<1>5. ASSUME NEW url, ChangeUrl(url) PROVE PageInv'
  <2>1. nav'.route = nav.route /\ lists' = lists /\ own' = own
    BY <1>2, <1>5 DEF ChangeUrl, NavT
  <2>2. QED
    BY <1>4, <2>1
<1>6. ASSUME NEW id \in OwnLessons, Create(id) \/ Delete(id) PROVE PageInv'
  <2>1. nav' = nav /\ lists' = lists /\ own'.state = own.state /\ own'.lessons = own.lessons
    BY <1>2, <1>6 DEF Create, Delete, OwnT
  <2>2. QED
    BY <1>4, <2>1
<1>7. ASSUME NEW i \in OwnCalls, CommitWrite(i) \/ FailOwnWrite(i) \/ ReadOwn(i) PROVE PageInv'
  <2>1. nav' = nav /\ lists' = lists /\ own'.state = own.state /\ own'.lessons = own.lessons
    BY <1>2, <1>7 DEF CommitWrite, FailOwnWrite, ReadOwn, OwnT
  <2>2. QED
    BY <1>4, <2>1
<1>8. QED
  BY <1>3, <1>5, <1>6, <1>7 DEF Elsewhere

\* Every step keeps the page: a visit is of the lesson shown, a review of its route.
LEMMA PageKeeps ==
  ASSUME TypeHyp, LibraryInv, LibraryInv', PageInv, SceneTyped, [Next]_vars
  PROVE  PageInv'
<1>1. CASE AppStep \/ ListStep
  <2>1. VisitFollows(LessonOnScreen') /\ ReviewFollows(nav'.route.view = "review") /\ UNCHANGED <<day, store, shown, goal, lapsed>>
        /\ (Render(shown, FALSE) \/ UNCHANGED <<at, announced>>)
    BY <1>1 DEF AppStep, ListStep, PagesFollow, Render
  <2>2. LessonOnScreen' \in Lessons \cup {NoLesson}
    BY OnScreenTyped DEF LessonOnScreen, LibraryInv, LibraryTyped
  <2>3. visit'.lesson = LessonOnScreen'
    BY <2>1, <2>2, FollowKeeps
  <2>4. reviewing' = (nav'.route.view = "review")
    BY <2>1 DEF ReviewFollows
  <2>5. QED
    BY <2>3, <2>4 DEF PageInv
<1>2. CASE Elsewhere
  BY <1>2, ElsewherePage
<1>3. ASSUME UNCHANGED libraryVars, reviewing' = reviewing, visit'.lesson = visit.lesson PROVE PageInv'
  BY <1>3 DEF PageInv, LessonOnScreen, libraryVars
<1>4. CASE UNCHANGED vars \/ DeckRefreshes \/ DeckLands \/ Ratings \/ SaveButtons \/ ReviewPage \/ Background
  <2>1. UNCHANGED <<libraryVars, visit, reviewing>>
    BY <1>4 DEF vars, pageVars, reviewVars, DeckRefreshes, Refresh, ReadCards, DeckLands, LandCards, FailCards,
                Ratings, SaveReview, FailReview, ChangeCard, SaveButtons, Toggle, Undo, CommitSave, FailSave,
                ReviewPage, Reveal, Listen, SpeechEnds, ListenFirst, SayIt, SaidIt, SayItAgain, RecapListen, Rate, Background
  <2>2. QED
    BY <1>3, <2>1
<1>5. CASE Lesson
  <2>1. UNCHANGED libraryVars /\ reviewing' = reviewing
    BY <1>5 DEF Lesson, reviewVars
  <2>2. visit'.lesson = visit.lesson
    BY <1>5, LessonSteps
  <2>3. QED
    BY <1>3, <2>1, <2>2
<1>6. CASE ProgressCalls
  <2>1. PICK j \in Slots : Commit(j) \/ ReadProgress(j) \/ LandProgress(j) \/ WriteFails(j) \/ ReadFails(j)
    BY <1>6 DEF ProgressCalls
  <2>2. UNCHANGED libraryVars /\ reviewing' = reviewing
    BY <1>6, <2>1 DEF ProgressCalls, Commit, ReadProgress, LandProgress, WriteFails, ReadFails, RestOfReview, reviewVars
  <2>3. visit'.lesson = visit.lesson
    <3>1. CASE Commit(j) \/ ReadProgress(j)
      BY <3>1 DEF Commit, ReadProgress
    <3>2. CASE LandProgress(j)
      BY <3>2, LandKeeps DEF LandProgress
    <3>3. CASE WriteFails(j) \/ ReadFails(j)
      <4>1. \E failed \in BOOLEAN : visit' = Answered(j, failed)
        BY <3>3 DEF WriteFails, ReadFails, VisitFailWrite, VisitFailRead
      <4>2. QED
        BY <4>1, AnsweredIs
    <3>4. QED
      BY <2>1, <3>1, <3>2, <3>3
  <2>4. QED
    BY <1>3, <2>2, <2>3
<1>7. QED
  BY <1>1, <1>2, <1>4, <1>5, <1>6 DEF Next

VoiceHyp == voice \in VoiceT /\ recap \subseteq Cards /\ VoiceFollowsTurn

\* What speech and recognition hold.
LEMMA VoiceIs ==
  ASSUME voice \in VoiceT
  PROVE  /\ voice.can \in BOOLEAN /\ voice.first \in BOOLEAN /\ voice.spoken \in TurnT /\ voice.turn \in TurnT
         /\ voice.say \in {"idle", "listening", "heard"}
         /\ NoTurn \in TurnT /\ \A c \in Cards : RecapTurn(c) \in TurnT
BY VersionsNat DEF VoiceT, TurnT, NoTurn, RecapTurn

\* The effects of a render leave nothing of another turn.
LEMMA EffectsFollow ==
  ASSUME VoiceHyp, AfterRender, reviewing' = reviewing, recap \subseteq recap', recap' \subseteq Cards, Turn' \in TurnT
  PROVE  VoiceHyp'
<1>1. CASE ~reviewing
  <2>1. voice' = voice
    BY <1>1 DEF AfterRender, Effects
  <2>2. QED
    BY <1>1, <2>1 DEF VoiceHyp, VoiceFollowsTurn
<1>2. CASE reviewing
  <2> DEFINE moved   == Turn' # Turn
             flipped == ShowAnswer' # ShowAnswer
             spoken  == IF (moved \/ flipped) /\ voice.first /\ Turn' # NoTurn /\ ~ShowAnswer' THEN Turn'
                        ELSE IF moved THEN NoTurn ELSE voice.spoken
             say     == IF (moved \/ flipped) /\ voice.say = "listening" THEN "idle" ELSE voice.say
             turn    == IF (moved \/ flipped) /\ voice.say = "listening" THEN NoTurn ELSE voice.turn
  <2>1. voice' = [voice EXCEPT !.spoken = spoken, !.say = say, !.turn = turn]
    BY <1>2 DEF AfterRender, Effects, VoiceHyp, VoiceT
  <2>2. spoken \in TurnT /\ say \in {"idle", "listening", "heard"} /\ turn \in TurnT
    BY VoiceIs DEF VoiceHyp
  <2>3. spoken # NoTurn => spoken = Turn' \/ (~moved /\ spoken = voice.spoken)
    OBVIOUS
  <2>4. say = "listening" => ~moved /\ ~flipped /\ voice.say = "listening" /\ turn = voice.turn
    OBVIOUS
  <2> HIDE DEF spoken, say, turn
  <2>5. voice' \in VoiceT /\ voice'.spoken = spoken /\ voice'.say = say /\ voice'.turn = turn
    BY <2>1, <2>2 DEF VoiceHyp, VoiceT
  <2>6. voice'.spoken # NoTurn => voice'.spoken = Turn' \/ (Turn' = NoTurn /\ \E c \in recap' : voice'.spoken = RecapTurn(c))
    BY <1>2, <2>3, <2>5 DEF VoiceHyp, VoiceFollowsTurn
  <2>7. voice'.say = "listening" => voice'.turn = Turn' /\ ~ShowAnswer'
    BY <1>2, <2>4, <2>5 DEF VoiceHyp, VoiceFollowsTurn
  <2>8. VoiceFollowsTurn'
    <3>1. \A c : RecapTurn(c)' = RecapTurn(c)
      BY DEF RecapTurn
    <3>2. NoTurn' = NoTurn /\ reviewing'
      BY <1>2 DEF NoTurn
    <3>3. QED
      BY <2>6, <2>7, <3>1, <3>2 DEF VoiceFollowsTurn
  <2>9. QED
    BY <2>5, <2>8 DEF VoiceHyp
<1>3. QED
  BY <1>1, <1>2

\* A step that changes nothing that the voice follows.
LEMMA VoiceStays ==
  ASSUME VoiceHyp, UNCHANGED <<reviewing, voice, recap>>,
         ~reviewing \/ UNCHANGED <<deck, at, shown, revealed>>
  PROVE  VoiceHyp'
<1>1. CASE ~reviewing
  BY <1>1 DEF VoiceHyp, VoiceFollowsTurn
<1>2. CASE UNCHANGED <<deck, at, shown, revealed>>
  <2>1. Turn' = Turn /\ ShowAnswer' = ShowAnswer
    BY <1>2 DEF Turn, Queue, NewCardsToday, Today, ShowAnswer
  <2>2. QED
    BY <2>1 DEF VoiceHyp, VoiceFollowsTurn
<1>3. QED
  BY <1>1, <1>2

\* What the page does itself.
LEMMA PageVoice ==
  ASSUME VoiceHyp, FetchesTyped, ReviewPage
  PROVE  VoiceHyp'
<1>1. Turn \in TurnT
  BY TurnIs, TurnOfIs DEF FetchesTyped, DeckT
<1>2. CASE Reveal
  <2>1. AfterRender /\ UNCHANGED <<progressVars, deck, reviewing, recap>>
    BY <1>2 DEF Reveal
  <2>2. Turn' = Turn
    BY <2>1 DEF Turn, Queue, NewCardsToday, Today, progressVars
  <2>3. QED
    BY <1>1, <2>1, <2>2, EffectsFollow DEF VoiceHyp
<1>3. CASE ~Reveal
  <2>1. UNCHANGED <<progressVars, deck, reviewing, recap, revealed>>
    BY <1>3 DEF ReviewPage, Listen, SpeechEnds, ListenFirst, SayIt, SaidIt, SayItAgain, RecapListen, Rate
  <2>2. Turn' = Turn /\ ShowAnswer' = ShowAnswer
    BY <2>1 DEF Turn, Queue, NewCardsToday, Today, ShowAnswer, progressVars
  <2>3. SUFFICES voice' \in VoiceT /\ VoiceFollowsTurn'
    BY <2>1 DEF VoiceHyp
  <2>4. /\ voice.can \in BOOLEAN /\ voice.first \in BOOLEAN /\ voice.spoken \in TurnT /\ voice.turn \in TurnT
        /\ voice.say \in {"idle", "listening", "heard"}
        /\ NoTurn \in TurnT /\ \A c \in Cards : RecapTurn(c) \in TurnT
    BY VoiceIs DEF VoiceHyp
  <2>5. CASE SpeechEnds \/ \E again \in BOOLEAN : Rate(again)
    <3>1. voice' = [voice EXCEPT !.spoken = NoTurn]
      BY <2>5 DEF SpeechEnds, Rate
    <3>2. voice' \in VoiceT /\ voice'.spoken = NoTurn /\ voice'.say = voice.say /\ voice'.turn = voice.turn
      BY <2>4, <3>1 DEF VoiceHyp, VoiceT
    <3>3. QED
      BY <2>1, <2>2, <3>2 DEF VoiceHyp, VoiceFollowsTurn
  <2>6. ASSUME NEW s \in TurnT, voice' = [voice EXCEPT !.spoken = s], reviewing,
               s = Turn \/ (Turn = NoTurn /\ \E c \in recap : s = RecapTurn(c))
        PROVE  voice' \in VoiceT /\ VoiceFollowsTurn'
    <3>1. voice' \in VoiceT /\ voice'.spoken = s /\ voice'.say = voice.say /\ voice'.turn = voice.turn
      BY <2>4, <2>6 DEF VoiceHyp, VoiceT
    <3>2. QED
      BY <2>1, <2>2, <2>6, <3>1 DEF VoiceHyp, VoiceFollowsTurn, RecapTurn
  <2>7. CASE Listen
    BY <1>1, <2>6, <2>7 DEF Listen, OnScreen
  <2>8. CASE \E c \in Cards : RecapListen(c)
    BY <2>4, <2>6, <2>8 DEF RecapListen, OnScreen
  <2>9. CASE ListenFirst
    <3>1. PICK s \in {Turn, voice.spoken} : voice' = [voice EXCEPT !.first = ~voice.first, !.spoken = s]
      BY <2>9 DEF ListenFirst
    <3>2. voice' \in VoiceT /\ voice'.spoken = s /\ voice'.say = voice.say /\ voice'.turn = voice.turn
      BY <1>1, <2>4, <3>1 DEF VoiceHyp, VoiceT
    <3>3. QED
      BY <2>1, <2>2, <2>9, <3>2 DEF VoiceHyp, VoiceFollowsTurn, ListenFirst, OnScreen, RecapTurn
  <2>10. CASE SayIt
    <3>1. voice' = [voice EXCEPT !.spoken = NoTurn, !.say = "listening", !.turn = Turn] /\ reviewing /\ ~ShowAnswer
      BY <2>10 DEF SayIt, OnScreen
    <3>2. voice' \in VoiceT /\ voice'.spoken = NoTurn /\ voice'.turn = Turn
      BY <1>1, <2>4, <3>1 DEF VoiceHyp, VoiceT
    <3>3. QED
      BY <2>1, <2>2, <3>1, <3>2 DEF VoiceFollowsTurn
  <2>11. CASE SaidIt
    <3>1. voice' = [voice EXCEPT !.say = "heard"] /\ voice.say = "listening"
      BY <2>11 DEF SaidIt
    <3>2. voice' \in VoiceT /\ voice'.spoken = voice.spoken /\ voice'.say = "heard"
      BY <2>4, <3>1 DEF VoiceHyp, VoiceT
    <3>3. QED
      BY <2>1, <2>2, <3>1, <3>2 DEF VoiceHyp, VoiceFollowsTurn, RecapTurn
  <2>12. CASE SayItAgain
    <3>1. voice' = [voice EXCEPT !.say = "idle", !.turn = NoTurn] /\ reviewing
      BY <2>12 DEF SayItAgain, OnScreen
    <3>2. voice' \in VoiceT /\ voice'.spoken = voice.spoken /\ voice'.say = "idle"
      BY <2>4, <3>1 DEF VoiceHyp, VoiceT
    <3>3. QED
      BY <2>1, <2>2, <3>1, <3>2 DEF VoiceHyp, VoiceFollowsTurn, RecapTurn
  <2>13. QED
    BY <1>3, <2>5, <2>7, <2>8, <2>9, <2>10, <2>11, <2>12 DEF ReviewPage
<1>4. QED
  BY <1>2, <1>3

\* Every step keeps speech and recognition to the turn.
LEMMA VoiceKeeps ==
  ASSUME TypeHyp, RatingHyp, VoiceHyp, PageInv, DeckHyp, FetchesTyped', [Next]_vars
  PROVE  VoiceHyp'
<1>0. Turn' \in TurnT
  BY TurnIs, TurnOfIs DEF FetchesTyped, DeckT
<1>1. CASE ProgressCalls
  <2>1. PICK j \in Slots : Commit(j) \/ ReadProgress(j) \/ LandProgress(j) \/ WriteFails(j) \/ ReadFails(j)
    BY <1>1 DEF ProgressCalls
  <2>2. CASE Commit(j) \/ ReadProgress(j)
    <3>1. UNCHANGED <<at, shown>> /\ UNCHANGED reviewVars
      BY <2>2 DEF Commit, ReadProgress, CommitPractice, CommitComplete, Read
    <3>2. QED
      BY <3>1, VoiceStays DEF reviewVars
  <2>3. CASE LandProgress(j) \/ WriteFails(j) \/ ReadFails(j)
    BY <1>0, <2>3, EffectsFollow DEF LandProgress, WriteFails, ReadFails, RestOfReview, VoiceHyp
  <2>4. QED
    BY <2>1, <2>2, <2>3
<1>2. CASE AppStep \/ ListStep
  <2>1. ReviewFollows(nav'.route.view = "review")
    BY <1>2 DEF AppStep, ListStep, PagesFollow
  <2> DEFINE open == nav'.route.view = "review"
  <2>2. CASE open = reviewing
    BY <1>0, <2>1, <2>2, EffectsFollow DEF ReviewFollows, VoiceHyp
  <2>3. CASE open # reviewing
    <3>1. PICK s \in {Turn', NoTurn} : voice' = [voice EXCEPT !.spoken = s, !.say = "idle", !.turn = NoTurn] /\ (~open => s = NoTurn)
      BY <2>1, <2>3 DEF ReviewFollows
    <3>2. s \in TurnT /\ NoTurn \in TurnT
      BY <1>0, VoiceIs DEF VoiceHyp
    <3>3. voice' \in VoiceT /\ voice'.spoken = s /\ voice'.say = "idle"
      BY <3>1, <3>2 DEF VoiceHyp, VoiceT
    <3>4. reviewing' = open /\ recap' = {}
      BY <2>1, <2>3 DEF ReviewFollows
    <3>5. QED
      BY <3>1, <3>3, <3>4 DEF VoiceHyp, VoiceFollowsTurn
  <2>4. QED
    BY <2>2, <2>3
<1>3. CASE Elsewhere \/ UNCHANGED vars
  BY <1>3, VoiceStays DEF Elsewhere, vars, progressVars, reviewVars
<1>4. CASE Lesson
  BY <1>4, LessonRenders, VoiceStays DEF Lesson, reviewVars
<1>5. CASE DeckRefreshes
  <2>1. CASE Refresh
    BY <1>0, <2>1, EffectsFollow DEF Refresh, VoiceHyp
  <2>2. CASE \E k \in Fetches : ReadCards(k)
    BY <2>2, VoiceStays DEF ReadCards, progressVars
  <2>3. QED
    BY <1>5, <2>1, <2>2 DEF DeckRefreshes
<1>6. CASE DeckLands
  <2>1. PICK k \in Fetches : AfterRender /\ reviewing' = reviewing /\ Continue(k)
    BY <1>6 DEF DeckLands, LandCards, FailCards
  <2>2. recap \subseteq recap' /\ recap' \subseteq Cards
    <3>1. CASE recap' = recap
      BY <3>1 DEF VoiceHyp
    <3>2. CASE recap' # recap
      <4>1. PICK i \in Raters : Awaits(i, k) /\ Recording(i)
        BY <2>1, <3>2, ContinueIs DEF RatingHyp
      <4>2. ratings[i].pc = "fetching" /\ recap' = recap \cup {ratings[i].card}
        BY <3>2, <4>1 DEF Awaits, Recording
      <4>3. ratings[i].card \in Cards
        BY <4>2, DeckIs DEF RatingHyp, RatesCard, DeckHyp, FetchesTyped
      <4>4. QED
        BY <4>2, <4>3 DEF VoiceHyp
    <3>3. QED
      BY <3>1, <3>2
  <2>3. QED
    BY <1>0, <2>1, <2>2, EffectsFollow
<1>7. CASE Ratings
  <2>1. CASE \E i \in Raters : SaveReview(i)
    BY <1>0, <2>1, EffectsFollow DEF SaveReview, VoiceHyp
  <2>2. CASE (\E i \in Raters : FailReview(i)) \/ \E c \in Cards : ChangeCard(c, IF Uses("speech") THEN MaxVersion + 1 ELSE MaxVersion)
    BY <2>2, VoiceStays DEF FailReview, ChangeCard, progressVars
  <2>3. QED
    BY <1>7, <2>1, <2>2 DEF Ratings
<1>8. CASE SaveButtons
  <2>1. ASSUME NEW i \in Savers, CommitSave(i) PROVE VoiceHyp'
    BY <1>0, <2>1, EffectsFollow DEF CommitSave, VoiceHyp
  <2>2. CASE ~\E i \in Savers : CommitSave(i)
    <3>1. UNCHANGED <<progressVars, reviewVars>>
      BY <1>8, <2>2 DEF SaveButtons, Toggle, Undo, FailSave
    <3>2. QED
      BY <3>1, VoiceStays DEF progressVars, reviewVars
  <2>3. QED
    BY <2>1, <2>2
<1>9. CASE ReviewPage
  BY <1>9, PageVoice DEF DeckHyp
<1>10. CASE Background
  <2>1. UNCHANGED reviewVars
    BY <1>10 DEF Background
  <2>2. CASE GoalPicker
    <3>1. nav.route.view = "library"
      BY <2>2 DEF GoalPicker, Page
    <3>2. ~reviewing
      BY <3>1 DEF PageInv
    <3>3. QED
      BY <2>1, <3>2, VoiceStays DEF reviewVars
  <2>3. CASE Reload \/ Midnight
    BY <2>1, <2>3, VoiceStays DEF Reload, Midnight, reviewVars
  <2>4. QED
    BY <1>10, <2>2, <2>3 DEF Background
<1>11. QED
  BY <1>1, <1>2, <1>3, <1>4, <1>5, <1>6, <1>7, <1>8, <1>9, <1>10 DEF Next

-----------------------------------------------------------------------------
(* Counts.                                                                 *)

\* s counts what st did of its day, or had by then.
Counts(s, st) ==
  /\ s.new <= s.actions
  /\ s.actions <= st.actions[s.date] /\ s.new <= st.new[s.date]
  /\ s.actions = st.actions[s.date] => s.new = st.new[s.date]
\* Of two snapshots of a day the one with more practice has as many New cards.
Agree(s, t) == s.date = t.date /\ s.actions <= t.actions => s.new <= t.new
Seens == {shown} \cup {jobs[j].seen : j \in Slots \ Free}
CountInv ==
  /\ \A d \in Days : store.new[d] <= store.actions[d] /\ (d > day => store.actions[d] = 0)
  /\ \A s \in Seens : Counts(s, store)
  /\ \A s, t \in Seens : Agree(s, t)

\* What the App has read are counts of days.
LEMMA SeensTyped ==
  ASSUME TypeHyp
  PROVE  /\ Seens \subseteq SnapT
         /\ \A s \in SnapT : s.date \in Days /\ s.date \in Nat /\ s.actions \in Nat /\ s.new \in Nat
         /\ \A d \in Days : store.new[d] \in Nat /\ store.actions[d] \in Nat
<1>1. Seens \subseteq SnapT
  BY DEF Seens, Free, TypeHyp, ProgressTyped, JobT
<1>2. \A s \in SnapT : s.date \in Days /\ s.date \in Nat /\ s.actions \in Nat /\ s.new \in Nat
  BY DaysNat DEF SnapT
<1>3. \A d \in Days : store.new[d] \in Nat /\ store.actions[d] \in Nat
  BY DEF TypeHyp, ProgressTyped, StoreT
<1>4. QED
  BY <1>1, <1>2, <1>3

\* A call that has read nothing knows no practice.
LEMMA UnreadIs == Unread \in SnapT /\ Unread.date = 1 /\ Unread.actions = 0 /\ Unread.new = 0 /\ 1 \in Days
BY DaysNat DEF Unread, SnapT

\* What a job that goes on or starts has seen.
LEMMA SeensQuiet ==
  ASSUME TypeHyp, shown' \in Seens \cup {Unread},
         \A j \in Slots : jobs'[j] # Idle => jobs'[j].seen \in Seens \cup {Unread, Snapshot}
  PROVE  Seens' \subseteq Seens \cup {Unread, Snapshot}
BY DEF Seens, Free

\* A call that goes on or starts has seen nothing new.
LEMMA SeensGoOn ==
  ASSUME TypeHyp, NEW j \in Slots, NEW kinds, GoesOn(j, kinds), jobs'[j] # Idle
  PROVE  jobs'[j].seen \in Seens \cup {Unread}
BY DEF GoesOn, Carried, Started, Seens, Free

\* Nothing is counted: what is seen is what was, nothing, or the store.
LEMMA CountStays ==
  ASSUME TypeHyp, CountInv, Seens' \subseteq Seens \cup {Unread, Snapshot},
         store'.actions = store.actions, store'.new = store.new, day' >= day, day' \in Nat
  PROVE  CountInv'
<1> DEFINE S == Seens \cup {Unread, Snapshot}
<1>0. day \in Nat /\ day \in Days
  BY DaysNat DEF TypeHyp, ProgressTyped
<1>1. S \subseteq SnapT
  BY SeensTyped, UnreadIs, SnapshotIs DEF TypeHyp
<1>2. \A s \in SnapT : s.date \in Days /\ s.date \in Nat /\ s.actions \in Nat /\ s.new \in Nat
  BY SeensTyped
<1>3. \A d \in Days : /\ store.new[d] \in Nat /\ store.actions[d] \in Nat
                      /\ store.new[d] <= store.actions[d] /\ (d > day => store.actions[d] = 0)
  BY SeensTyped DEF CountInv
<1>4. Counts(Unread, store) /\ Counts(Snapshot, store)
  <2>1. Counts(Unread, store)
    BY <1>3, UnreadIs DEF Counts
  <2>2. Snapshot.date = day /\ Snapshot.actions = store.actions[day] /\ Snapshot.new = store.new[day]
    BY SnapshotIs DEF TypeHyp
  <2>3. QED
    BY <1>0, <1>3, <2>1, <2>2 DEF Counts
<1>5. \A s \in S : Counts(s, store)
  BY <1>4 DEF CountInv
<1>6. ASSUME NEW s \in S, NEW t \in S PROVE Agree(s, t)
  <2>0. Counts(s, store) /\ Counts(t, store)
    BY <1>5
  <2>00. /\ s.date \in Days /\ s.actions \in Nat /\ s.new \in Nat
         /\ t.date \in Days /\ t.actions \in Nat /\ t.new \in Nat
    BY <1>1, <1>2
  <2>1. CASE s \in Seens /\ t \in Seens
    BY <2>1 DEF CountInv
  <2>2. CASE s = Unread
    BY <2>00, <2>2, UnreadIs DEF Agree
  <2>3. CASE t = Unread
    BY <2>0, <2>00, <2>3, UnreadIs DEF Agree, Counts
  <2>4. CASE s = Snapshot
    <3>1. s.date = day /\ s.actions = store.actions[day] /\ s.new = store.new[day]
      BY <2>4, SnapshotIs DEF TypeHyp
    <3>2. QED
      BY <1>0, <1>3, <2>0, <2>00, <3>1 DEF Agree, Counts
  <2>5. CASE t = Snapshot
    <3>1. t.date = day /\ t.actions = store.actions[day] /\ t.new = store.new[day]
      BY <2>5, SnapshotIs DEF TypeHyp
    <3>2. QED
      BY <2>0, <3>1 DEF Agree, Counts
  <2>6. QED
    BY <2>1, <2>2, <2>3, <2>4, <2>5
<1>7. \A s \in Seens' : Counts(s, store')
  BY <1>5 DEF Counts
<1>8. \A d \in Days : store'.new[d] <= store'.actions[d] /\ (d > day' => store'.actions[d] = 0)
  <2>1. \A d \in Days : d \in Nat
    BY DaysNat
  <2>2. QED
    BY <1>0, <1>3, <2>1
<1>9. QED
  BY <1>6, <1>7, <1>8 DEF CountInv

\* The counts on screen and on their way stay those of the store, or earlier ones.
LEMMA CountKeeps ==
  ASSUME TypeHyp, CountInv, StepIs
  PROVE  CountInv'
<1>0. day \in Nat /\ day \in Days
  BY DaysNat DEF TypeHyp, ProgressTyped
<1>00. day >= day /\ shown \in Seens /\ \A j \in Slots : jobs[j] # Idle => jobs[j].seen \in Seens
  BY <1>0 DEF Seens, Free
<1>1. ASSUME NEW j \in Slots, CommitPractice(j) PROVE CountInv'
  <2> DEFINE d == jobs[j].date
             n == IF jobs[j].new THEN 1 ELSE 0
  <2>1. /\ jobs[j] \in JobT /\ d \in Days /\ store' \in StoreT
        /\ store'.actions[d] = store.actions[d] + 1 /\ store'.new[d] = store.new[d] + n
        /\ \A e \in Days \ {d} : store'.actions[e] = store.actions[e] /\ store'.new[e] = store.new[e]
        /\ jobs'[j].seen = jobs[j].seen /\ jobs'[j] # Idle
        /\ \A i \in Slots \ {j} : jobs'[i] = jobs[i]
    BY <1>1, CommitIs
  <2>2. shown' = shown /\ day' = day
    BY <1>1 DEF CommitPractice
  <2>3. jobs[j] # Idle /\ jobs[j].date <= day
    <3>1. jobs[j] # Idle
      BY <2>1, IdleIsNoJob
    <3>2. QED
      BY <3>1 DEF TypeHyp, ProgressTyped
  <2>4. Seens' = Seens
    BY <2>1, <2>2, <2>3 DEF Seens, Free
  <2>5. n \in {0, 1} /\ d \in Nat
    BY <2>1, DaysNat
  <2>6. d <= day
    BY <2>3
  <2> HIDE DEF d, n
  <2>7. \A e \in Days : store.new[e] \in Nat /\ store.actions[e] \in Nat /\ e \in Nat
    BY SeensTyped, DaysNat
  <2>8. \A e \in Days : store'.new[e] <= store'.actions[e] /\ (e > day' => store'.actions[e] = 0)
    BY <1>0, <2>1, <2>2, <2>5, <2>6, <2>7 DEF CountInv
  <2>9. ASSUME NEW s \in Seens PROVE Counts(s, store')
    <3>1. s.date \in Days /\ s.actions \in Nat /\ s.new \in Nat /\ Counts(s, store)
      BY SeensTyped DEF CountInv
    <3>2. CASE s.date = d
      BY <2>1, <2>5, <2>7, <3>1, <3>2 DEF Counts
    <3>3. CASE s.date # d
      BY <2>1, <3>1, <3>3 DEF Counts
    <3>4. QED
      BY <3>2, <3>3
  <2>10. QED
    BY <2>4, <2>8, <2>9 DEF CountInv
<1>2. ASSUME NEW j \in Slots, CommitComplete(j) PROVE CountInv'
  <2>1. /\ store'.actions = store.actions /\ store'.new = store.new /\ jobs'[j].seen = jobs[j].seen /\ jobs[j] \in JobT
        /\ \A i \in Slots \ {j} : jobs'[i] = jobs[i]
    BY <1>2, CompleteIs
  <2>2. shown' = shown /\ day' = day
    BY <1>2 DEF CommitComplete
  <2>3. \A i \in Slots : jobs'[i] # Idle => jobs'[i].seen \in Seens
    BY <1>00, <2>1, IdleIsNoJob
  <2>4. QED
    BY <1>0, <1>00, <2>1, <2>2, <2>3, SeensQuiet, CountStays
<1>3. ASSUME NEW j \in Slots, Read(j) PROVE CountInv'
  <2>1. jobs'[j].seen = Snapshot /\ \A i \in Slots \ {j} : jobs'[i] = jobs[i]
    BY <1>3, ReadIs
  <2>2. shown' = shown /\ day' = day /\ store' = store
    BY <1>3 DEF Read
  <2>3. QED
    BY <1>0, <1>00, <2>1, <2>2, SeensQuiet, CountStays
<1>4. ASSUME NEW j \in Slots, FailWrite(j) \/ FailRead(j) PROVE CountInv'
  <2>1. jobs' = [jobs EXCEPT ![j] = Idle] /\ UNCHANGED <<shown, day, store>> /\ jobs \in [Slots -> {Idle} \cup JobT]
    BY <1>4 DEF FailWrite, FailRead, Render, TypeHyp, ProgressTyped
  <2>2. \A i \in Slots : jobs'[i] # Idle => jobs'[i].seen \in Seens
    BY <1>00, <2>1
  <2>3. QED
    BY <1>0, <1>00, <2>1, <2>2, SeensQuiet, CountStays
<1>5. ASSUME NEW j \in Slots, Lands(j) PROVE CountInv'
  <2>1. Land(j) /\ jobs[j] # Idle /\ shown' = jobs[j].seen /\ UNCHANGED <<day, store>>
    BY <1>5, IdleKind DEF Lands, Land, Render
  <2>2. \A i \in Slots : jobs'[i] # Idle => jobs'[i].seen \in Seens \cup {Unread}
    BY <1>5, SeensGoOn DEF Lands, Started
  <2>3. QED
    BY <1>0, <1>00, <2>1, <2>2, SeensQuiet, CountStays
<1>6. CASE Quiet(Kinds)
  <2>1. UNCHANGED <<shown, day, store>> /\ \A j \in Slots : GoesOn(j, Kinds)
    BY <1>6 DEF Quiet
  <2>2. \A i \in Slots : jobs'[i] # Idle => jobs'[i].seen \in Seens \cup {Unread}
    BY <2>1, SeensGoOn
  <2>3. QED
    BY <1>0, <1>00, <2>1, <2>2, SeensQuiet, CountStays
<1>7. CASE Midnight \/ \E g \in Goals : ChooseGoal(g)
  <2>1. UNCHANGED <<shown, store, jobs>> /\ day' \in {day, day + 1}
    BY <1>7 DEF Midnight, ChooseGoal
  <2>2. day' \in Nat /\ day' >= day
    BY <1>0, <2>1
  <2>3. QED
    BY <1>00, <2>1, <2>2, SeensQuiet, CountStays
<1>8. QED
  BY <1>1, <1>2, <1>3, <1>4, <1>5, <1>6, <1>7 DEF StepIs, ProgressStep

-----------------------------------------------------------------------------
(* The goal.                                                               *)

\* The save of j is committed, and not answered yet.
CommittedJob(job) == job.kind \in Practices /\ job.pc \in {"reading", "landing"}
Pending(js, n, d) == \E j \in Slots : CommittedJob(js[j]) /\ js[j].got = n /\ js[j].date = d
\* s counts the nth practice of day d, or is of a later day.
Displays(s, n, d) == s.date > d \/ (s.date = d /\ s.actions >= n)
Meets(s, d, g) == s.date = d /\ s.actions >= g

\* The practice of a save under way has been counted, by what it has read too.
Saves(job, st) ==
  CommittedJob(job) => /\ job.got \in 1..st.actions[job.date]
                       /\ job.pc = "landing" => Displays(job.seen, job.got, job.date)
GoalInv ==
  /\ \A j \in Slots : Saves(jobs[j], store)
  /\ ~lapsed =>
       /\ announced => Meets(shown, at, goal)
       /\ Meets(shown, at, goal) /\ ~announced => Pending(jobs, goal, at)
       /\ \A d \in Days : \A n \in 1..store.actions[d] : Displays(shown, n, d) \/ Pending(jobs, n, d)

\* A goal is at least one.
LEMMA GoalsNat == Goals \subseteq Nat /\ \A g \in Goals : g >= 1
BY ProgressAssumption

\* A snapshot meets a goal when its count of the day does.
LEMMA MeetsIs ==
  ASSUME NEW s \in SnapT, NEW d, NEW g \in Goals
  PROVE  Today(s, d, s.actions) >= g <=> Meets(s, d, g)
<1>1. s.actions \in Nat /\ g \in Nat /\ g >= 1
  BY GoalsNat DEF SnapT
<1>2. QED
  BY <1>1 DEF Today, Meets

\* So does the one on screen.
LEMMA GoalMetIs == TypeHyp => (GoalMet <=> Meets(shown, at, goal))
BY MeetsIs DEF GoalMet, ActionsToday, TypeHyp, ProgressTyped

\* What the render of s announces.
LEMMA RenderIs ==
  ASSUME TypeHyp, NEW s \in SnapT, NEW reached \in BOOLEAN, Render(s, reached)
  PROVE  /\ shown' = s /\ at' = day
         /\ announced' <=> (announced \/ reached) /\ (Meets(shown, at, goal) => Meets(s, day, goal))
<1>1. Today(s, day, s.actions) >= goal <=> Meets(s, day, goal)
  BY MeetsIs DEF TypeHyp, ProgressTyped
<1>2. QED
  BY <1>1, GoalMetIs DEF Render

\* Jobs that go on or start have committed nothing.
LEMMA SavesGoOn ==
  ASSUME NEW j \in Slots, NEW kinds, GoesOn(j, kinds)
  PROVE  /\ CommittedJob(jobs'[j]) => jobs'[j] = jobs[j]
         /\ CommittedJob(jobs[j]) => jobs'[j] = jobs[j]
<1>1. Idle.kind \notin Practices /\ "complete" \notin Practices /\ "reload" \notin Practices
  BY DEF Idle, Practices
<1>2. QED
  BY <1>1 DEF GoesOn, Carried, Started, CommittedJob

\* The App renders what it showed, no save commits or is answered.
LEMMA GoalStays ==
  ASSUME TypeHyp, GoalInv, UNCHANGED <<store, shown, goal, lapsed>>,
         Render(shown, FALSE) \/ UNCHANGED <<at, announced>>,
         \A j \in Slots : (CommittedJob(jobs'[j]) \/ CommittedJob(jobs[j])) => jobs'[j] = jobs[j]
  PROVE  GoalInv'
<1>1. shown \in SnapT /\ shown.date <= at /\ at <= day /\ at \in Nat /\ day \in Nat /\ shown.date \in Nat
  BY DaysNat DEF TypeHyp, ProgressTyped, SnapT
<1>2. \A j \in Slots : Saves(jobs'[j], store)
  BY DEF GoalInv, Saves
<1>3. \A n, d : Pending(jobs', n, d) <=> Pending(jobs, n, d)
  BY DEF Pending
<1>4. CASE UNCHANGED <<at, announced>>
  BY <1>2, <1>3, <1>4 DEF GoalInv
<1>5. CASE Render(shown, FALSE)
  <2>1. at' = day /\ (announced' <=> announced /\ (Meets(shown, at, goal) => Meets(shown, day, goal)))
    BY <1>1, <1>5, RenderIs
  <2>2. Meets(shown, day, goal) => at = day
    BY <1>1 DEF Meets
  <2>3. QED
    BY <1>2, <1>3, <2>1, <2>2 DEF GoalInv
<1>6. QED
  BY <1>4, <1>5

\* A practice that commits is pending, or leaves the goal unreached.
LEMMA GoalCommits ==
  ASSUME TypeHyp, GoalInv, NEW j \in Slots, CommitPractice(j)
  PROVE  GoalInv'
<1> DEFINE d == jobs[j].date
<1>1. /\ jobs[j] \in JobT /\ d \in Days
      /\ store'.actions[d] = store.actions[d] + 1
      /\ \A e \in Days \ {d} : store'.actions[e] = store.actions[e]
      /\ jobs'[j].kind = jobs[j].kind /\ jobs'[j].pc = "reading" /\ jobs'[j].got = store.actions[d] + 1
      /\ jobs'[j].date = d
      /\ \A i \in Slots \ {j} : jobs'[i] = jobs[i]
  BY CommitIs
<1>2. UNCHANGED <<day, at, shown, goal, announced, lapsed>> /\ jobs[j].kind \in Practices /\ jobs[j].pc = "saving"
  BY DEF CommitPractice, Practices
<1>3. \A e \in Days : store.actions[e] \in Nat
  BY SeensTyped
<1> HIDE DEF d
<1>4. ~CommittedJob(jobs[j]) /\ CommittedJob(jobs'[j])
  BY <1>1, <1>2 DEF CommittedJob
<1>5. ASSUME NEW i \in Slots PROVE Saves(jobs'[i], store')
  <2>1. CASE i = j
    <3>1. jobs'[j].got \in 1..store'.actions[d]
      BY <1>1, <1>3
    <3>2. QED
      BY <1>1, <2>1, <3>1 DEF Saves
  <2>2. CASE i # j
    <3>1. jobs'[i] = jobs[i] /\ Saves(jobs[i], store)
      BY <1>1, <2>2 DEF GoalInv
    <3>2. CASE CommittedJob(jobs[i])
      <4>1. jobs[i].date \in Days
        BY <3>2, IdleKind DEF CommittedJob, Practices, TypeHyp, ProgressTyped, JobT, Idle
      <4>2. jobs[i].got \in 1..store'.actions[jobs[i].date]
        BY <1>1, <1>3, <3>1, <3>2, <4>1 DEF Saves
      <4>3. QED
        BY <3>1, <4>2 DEF Saves
    <3>3. QED
      BY <3>1, <3>2 DEF Saves
  <2>3. QED
    BY <2>1, <2>2
<1>6. \A n, e : Pending(jobs, n, e) => Pending(jobs', n, e)
  BY <1>1, <1>4 DEF Pending
<1>7. ASSUME ~lapsed, NEW e \in Days, NEW n \in 1..store'.actions[e] PROVE Displays(shown, n, e) \/ Pending(jobs', n, e)
  <2>1. CASE n \in 1..store.actions[e]
    BY <1>6, <1>7, <2>1 DEF GoalInv
  <2>2. CASE n \notin 1..store.actions[e]
    <3>1. e = d /\ n = store.actions[d] + 1
      BY <1>1, <1>3, <2>2
    <3>2. QED
      BY <1>1, <1>4, <3>1 DEF Pending
  <2>3. QED
    BY <2>1, <2>2
<1>8. QED
  BY <1>2, <1>5, <1>6, <1>7 DEF GoalInv

\* Its read changes no count.
LEMMA GoalReads ==
  ASSUME TypeHyp, GoalInv, NEW j \in Slots, Read(j)
  PROVE  GoalInv'
<1>1. /\ jobs[j] \in JobT /\ jobs[j].pc = "reading"
      /\ jobs'[j].kind = jobs[j].kind /\ jobs'[j].pc = "landing" /\ jobs'[j].got = jobs[j].got
      /\ jobs'[j].date = jobs[j].date /\ jobs'[j].seen = Snapshot
      /\ \A i \in Slots \ {j} : jobs'[i] = jobs[i]
  BY ReadIs
<1>2. UNCHANGED <<day, at, store, shown, goal, announced, lapsed>>
  BY DEF Read
<1>3. CommittedJob(jobs'[j]) <=> CommittedJob(jobs[j])
  BY <1>1 DEF CommittedJob
<1>4. ASSUME CommittedJob(jobs[j]) PROVE Displays(Snapshot, jobs[j].got, jobs[j].date)
  <2>1. jobs[j].got \in 1..store.actions[jobs[j].date] /\ jobs[j].date <= day /\ jobs[j].date \in Days
    BY <1>1, <1>4, IdleIsNoJob DEF GoalInv, Saves, TypeHyp, ProgressTyped, JobT
  <2>2. Snapshot.date = day /\ Snapshot.actions = store.actions[day]
    BY SnapshotIs DEF TypeHyp
  <2>3. jobs[j].date \in Nat /\ day \in Nat /\ day \in Days /\ store.actions[day] \in Nat
    BY <2>1, DaysNat, SeensTyped DEF TypeHyp, ProgressTyped
  <2>4. QED
    BY <2>1, <2>2, <2>3 DEF Displays
<1>5. \A i \in Slots : Saves(jobs'[i], store)
  BY <1>1, <1>3, <1>4 DEF GoalInv, Saves
<1>6. \A n, e : Pending(jobs', n, e) <=> Pending(jobs, n, e)
  BY <1>1, <1>3 DEF Pending
<1>7. QED
  BY <1>2, <1>5, <1>6 DEF GoalInv

\* A call that fails lapses, or is none that counts.
LEMMA GoalFails ==
  ASSUME TypeHyp, GoalInv, NEW j \in Slots, FailWrite(j) \/ FailRead(j)
  PROVE  GoalInv'
<1>1. jobs'[j] = Idle /\ (\A i \in Slots \ {j} : jobs'[i] = jobs[i]) /\ UNCHANGED <<store, shown, goal>>
  BY FailIs DEF TypeHyp, ProgressTyped
<1>2. ~CommittedJob(Idle)
  BY DEF CommittedJob, Idle, Practices
<1>3. CASE lapsed'
  <2>1. \A i \in Slots : Saves(jobs'[i], store)
    BY <1>1, <1>2 DEF GoalInv, Saves
  <2>2. QED
    BY <1>1, <1>3, <2>1 DEF GoalInv
<1>4. CASE jobs[j].kind = "complete" /\ UNCHANGED <<at, announced, lapsed>>
  <2>1. ~CommittedJob(jobs[j])
    BY <1>4 DEF CommittedJob, Practices
  <2>2. QED
    BY <1>1, <1>2, <1>4, <2>1, GoalStays
<1>5. QED
  BY <1>3, <1>4, FailIs

\* A landing refresh announces the goal its count equals.
LEMMA GoalLands ==
  ASSUME TypeHyp, CountInv, GoalInv, NEW j \in Slots, Lands(j)
  PROVE  GoalInv'
<1> DEFINE s == jobs[j].seen
           r == Reached(j)
<1>1. Land(j) /\ (\A i \in Slots \ {j} : GoesOn(i, {"complete"})) /\ UNCHANGED <<day, store, goal>>
      /\ (jobs'[j] = Idle \/ Started(jobs'[j], {"complete"}))
  BY DEF Lands, Land
<1>2. jobs[j] \in JobT /\ jobs[j].pc = "landing" /\ s \in SnapT /\ s.date <= day /\ s \in Seens
  BY <1>1, IdleKind DEF Land, TypeHyp, ProgressTyped, Past, JobT, Seens, Free
<1>3. /\ shown \in SnapT /\ shown.date \in Nat /\ shown.actions \in Nat /\ s.date \in Nat /\ s.actions \in Nat /\ s.date \in Days
      /\ shown.date <= at /\ at <= day /\ at \in Nat /\ day \in Nat /\ day \in Days /\ goal \in Nat /\ goal >= 1
      /\ jobs[j].date \in Nat /\ jobs[j].got \in Nat
  BY <1>2, DaysNat, GoalsNat, SeensTyped DEF TypeHyp, ProgressTyped, SnapT, JobT
<1>4. /\ shown' = s /\ at' = day /\ lapsed' = (lapsed \/ Older(s))
      /\ announced' <=> (announced \/ r) /\ (Meets(shown, at, goal) => Meets(s, day, goal))
  <2>1. r \in BOOLEAN
    BY DEF Reached
  <2>2. QED
    BY <1>1, <1>2, <2>1, RenderIs DEF Land
<1>5. r <=> jobs[j].kind \in Practices /\ jobs[j].date = day /\ jobs[j].got = goal
  BY DEF Reached, Practices
<1>6. Saves(jobs[j], store) /\ (CommittedJob(jobs[j]) <=> jobs[j].kind \in Practices)
  BY <1>2 DEF GoalInv, CommittedJob
<1> HIDE DEF s, r
<1>7. ~CommittedJob(jobs'[j]) /\ \A i \in Slots \ {j} : (CommittedJob(jobs'[i]) \/ CommittedJob(jobs[i])) => jobs'[i] = jobs[i]
  <2>1. ~CommittedJob(Idle) /\ "complete" \notin Practices
    BY DEF CommittedJob, Idle, Practices
  <2>2. QED
    BY <1>1, <2>1, SavesGoOn DEF CommittedJob, Started
<1>8. \A i \in Slots : Saves(jobs'[i], store)
  BY <1>7 DEF GoalInv, Saves
<1>9. SUFFICES ASSUME ~lapsed, ~Older(s)
      PROVE  /\ announced' => Meets(s, day, goal)
             /\ Meets(s, day, goal) /\ ~announced' => Pending(jobs', goal, day)
             /\ \A d \in Days : \A n \in 1..store.actions[d] : Displays(s, n, d) \/ Pending(jobs', n, d)
  BY <1>1, <1>4, <1>8 DEF GoalInv
<1>10. ASSUME NEW n, NEW d, Pending(jobs, n, d)
       PROVE  Pending(jobs', n, d) \/ (jobs[j].kind \in Practices /\ jobs[j].got = n /\ jobs[j].date = d)
  BY <1>6, <1>7, <1>10 DEF Pending
<1>11. ASSUME announced' PROVE Meets(s, day, goal)
  <2>1. CASE announced
    BY <1>4, <1>9, <1>11, <2>1 DEF GoalInv
  <2>2. CASE r
    <3>1. Displays(s, goal, day)
      BY <1>2, <1>5, <1>6, <2>2 DEF Saves, s
    <3>2. QED
      BY <1>2, <1>3, <3>1 DEF Displays, Meets
  <2>3. QED
    BY <1>4, <1>11, <2>1, <2>2
<1>12. ASSUME NEW d \in Days, NEW n \in 1..store.actions[d] PROVE Displays(s, n, d) \/ Pending(jobs', n, d)
  <2>0. d \in Nat /\ n \in Nat
    BY DaysNat, SeensTyped
  <2>1. CASE Displays(shown, n, d)
    BY <1>3, <1>9, <2>0, <2>1 DEF Displays, Older
  <2>2. CASE Pending(jobs, n, d)
    <3>1. CASE jobs[j].kind \in Practices /\ jobs[j].got = n /\ jobs[j].date = d
      BY <1>2, <1>6, <3>1 DEF Saves, s
    <3>2. QED
      BY <1>10, <2>2, <3>1
  <2>3. QED
    BY <1>9, <2>1, <2>2 DEF GoalInv
<1>13. ASSUME Meets(s, day, goal), ~announced' PROVE Pending(jobs', goal, day)
  <2>1. ~announced /\ ~r
    BY <1>4, <1>13
  <2>2. goal \in 1..store.actions[day]
    <3>1. s.actions <= store.actions[day] /\ store.actions[day] \in Nat
      BY <1>2, <1>3, <1>13, SeensTyped DEF CountInv, Counts, Meets
    <3>2. QED
      BY <1>3, <1>13, <3>1 DEF Meets
  <2>3. Pending(jobs, goal, day)
    <3>1. CASE Displays(shown, goal, day)
      <4>1. at = day /\ Meets(shown, at, goal)
        BY <1>3, <3>1 DEF Displays, Meets
      <4>2. QED
        BY <1>9, <2>1, <4>1 DEF GoalInv
    <3>2. CASE ~Displays(shown, goal, day)
      BY <1>3, <1>9, <2>2, <3>2 DEF GoalInv
    <3>3. QED
      BY <3>1, <3>2
  <2>4. QED
    BY <1>5, <1>10, <2>1, <2>3
<1>14. QED
  BY <1>11, <1>12, <1>13

\* A chosen goal is announced only by the practice that reaches it.
LEMMA GoalChosen ==
  ASSUME TypeHyp, GoalInv, NEW g \in Goals, ChooseGoal(g)
  PROVE  GoalInv'
<1>1. UNCHANGED <<day, store, shown, jobs>> /\ goal' = g /\ at' = day
  BY DEF ChooseGoal
<1>2. \A j \in Slots : Saves(jobs'[j], store')
  BY <1>1 DEF GoalInv
<1>3. SUFFICES ASSUME ~lapsed'
      PROVE  /\ announced' => Meets(shown, day, g)
             /\ Meets(shown, day, g) /\ ~announced' => Pending(jobs, g, day)
             /\ \A d \in Days : \A n \in 1..store.actions[d] : Displays(shown, n, d) \/ Pending(jobs, n, d)
  BY <1>1, <1>2 DEF GoalInv
<1>4. ~lapsed /\ at = day /\ ~\E j \in Running("practice") \cup Running("rating") : jobs[j].got \in 1..ActionsToday
  BY <1>3 DEF ChooseGoal
<1>5. (ActionsToday >= g <=> Meets(shown, day, g)) /\ (Today(shown, day, shown.actions) >= g <=> Meets(shown, day, g))
      /\ (GoalMet <=> Meets(shown, day, goal))
  BY <1>4, MeetsIs, GoalMetIs DEF ActionsToday, TypeHyp, ProgressTyped
<1>6. announced' <=> (announced \/ (~Meets(shown, day, goal) /\ Meets(shown, day, g))) /\ (Meets(shown, day, goal) => Meets(shown, day, g))
  BY <1>5 DEF ChooseGoal
<1>7. announced => Meets(shown, day, goal)
  BY <1>4 DEF GoalInv
<1>8. ASSUME Meets(shown, day, g), ~announced' PROVE FALSE
  <2>1. Meets(shown, day, goal) /\ ~announced
    BY <1>6, <1>8
  <2>2. PICK j \in Slots : CommittedJob(jobs[j]) /\ jobs[j].got = goal
    BY <1>4, <2>1 DEF GoalInv, Pending
  <2>3. j \in Running("practice") \cup Running("rating")
    BY <2>2 DEF CommittedJob, Practices, Running
  <2>4. goal \in 1..ActionsToday
    <3>1. shown.actions \in Nat /\ goal \in Nat /\ goal >= 1 /\ ActionsToday = shown.actions /\ shown.actions >= goal
      BY <1>4, <2>1, GoalsNat DEF Meets, ActionsToday, Today, TypeHyp, ProgressTyped, SnapT
    <3>2. QED
      BY <3>1
  <2>5. QED
    BY <1>4, <2>2, <2>3, <2>4
<1>9. QED
  BY <1>4, <1>6, <1>7, <1>8 DEF GoalInv

\* No step breaks the account of the goal.
LEMMA GoalKeeps ==
  ASSUME TypeHyp, CountInv, GoalInv, StepIs
  PROVE  GoalInv'
<1>1. ASSUME NEW j \in Slots, CommitComplete(j) PROVE GoalInv'
  <2>1. /\ jobs[j].kind = "complete" /\ jobs'[j].kind = "complete" /\ store'.actions = store.actions
        /\ \A i \in Slots \ {j} : jobs'[i] = jobs[i]
    BY <1>1, CompleteIs DEF CommitComplete
  <2>2. UNCHANGED <<at, shown, goal, announced, lapsed>>
    BY <1>1 DEF CommitComplete
  <2>3. ~CommittedJob(jobs[j]) /\ ~CommittedJob(jobs'[j])
    BY <2>1 DEF CommittedJob, Practices
  <2>4. \A i \in Slots : Saves(jobs'[i], store')
    BY <2>1, <2>3 DEF GoalInv, Saves
  <2>5. \A n, d : Pending(jobs', n, d) <=> Pending(jobs, n, d)
    BY <2>1, <2>3 DEF Pending
  <2>6. QED
    BY <2>1, <2>2, <2>4, <2>5 DEF GoalInv
<1>2. CASE Quiet(Kinds)
  <2>1. UNCHANGED <<store, shown, goal, lapsed>> /\ (Render(shown, FALSE) \/ UNCHANGED <<at, announced>>) /\ \A j \in Slots : GoesOn(j, Kinds)
    BY <1>2 DEF Quiet
  <2>2. QED
    BY <2>1, SavesGoOn, GoalStays
<1>3. CASE Midnight
  BY <1>3, GoalStays DEF Midnight
<1>4. QED
  BY <1>1, <1>2, <1>3, GoalCommits, GoalReads, GoalFails, GoalLands, GoalChosen DEF StepIs, ProgressStep

-----------------------------------------------------------------------------
(* The limit of New cards.                                                 *)

\* s has every New card that was introduced on its day, and none was later.
Introduced(s) == store.new[s.date] = s.new /\ \A d \in Days : d > s.date => store.new[d] = 0
Unsaved == {"saving", "fetching"}
\* A rating of a New card; and one whose practice is counted, and not on screen yet.
RatesNew(i) == ratings[i] # NoRating /\ ratings[i].new
InRecord == \E i \in Raters : RatesNew(i) /\ ratings[i].pc = "recording" /\ jobs[ratings[i].job].pc # "saving"

\* A count that will take a New card is that of its rating.
NewJobsInv ==
  \A j \in Slots : jobs[j] # Idle /\ jobs[j].new =>
    jobs[j].pc = "saving" /\ \E i \in Raters : RatesNew(i) /\ Records(i, j)
OneNewInv == \A i, r \in Raters : RatesNew(i) /\ RatesNew(r) => i = r
IntroducedInv ==
  /\ ~InRecord => Introduced(shown)
  /\ \A i \in Raters : RatesNew(i) /\ ratings[i].pc = "recording" /\ jobs[ratings[i].job].pc = "landing" =>
       Introduced(jobs[ratings[i].job].seen)
\* A New card that is being rated has its place in the day's limit, whichever
\* day it will be recorded on.
RoomInv ==
  /\ \A d \in Days : store.new[d] <= NEW_CARDS_PER_DAY
  /\ \A i \in Raters : RatesNew(i) /\ ratings[i].pc \in Unsaved => \A d \in Days : d >= day => store.new[d] < NEW_CARDS_PER_DAY
  /\ \A j \in Slots : jobs[j] # Idle /\ jobs[j].new => store.new[jobs[j].date] < NEW_CARDS_PER_DAY
Orderly == ~lapsed /\ ~overlapped
CapInv == NewJobsInv /\ (Orderly => OneNewInv /\ IntroducedInv /\ RoomInv)

\* The ratings go on, or end without a record.
RatingMoves ==
  \A i \in Raters :
    /\ ratings'[i] # NoRating => ratings[i] # NoRating /\ ratings'[i].new = ratings[i].new
    /\ ratings'[i].pc = "recording" <=> ratings[i].pc = "recording"
    /\ ratings[i].pc = "recording" => ratings'[i] # NoRating /\ ratings'[i].job = ratings[i].job
    /\ ratings'[i].pc \in Unsaved => ratings[i].pc \in Unsaved

CapStep ==
  \/ /\ overlapped' = overlapped
     /\ \/ \E j \in Slots : (CommitPractice(j) \/ CommitComplete(j) \/ Read(j)) /\ ratings' = ratings
        \/ \E j \in Slots : (FailWrite(j) \/ FailRead(j)) /\ ratings' = Recorded(j)
        \/ \E j \in Slots : Lands(j) /\ ratings' = Recorded(j)
        \/ Quiet({"practice", "complete", "reload"}) /\ RatingMoves
        \/ Quiet({"rating"}) /\ \E i \in Raters : ratings[i].pc = "fetching" /\ Recording(i)
        \/ (Midnight \/ \E g \in Goals : ChooseGoal(g)) /\ ratings' = ratings
  \/ \E again \in BOOLEAN : Rate(again)

\* A quiet step of some calls is one of more.
LEMMA QuietWidens ==
  ASSUME NEW kinds, NEW more, kinds \subseteq more, Quiet(kinds)
  PROVE  Quiet(more)
BY DEF Quiet, GoesOn, Started

\* A step that leaves progress alone is quiet.
LEMMA QuietSame ==
  ASSUME jobs' = jobs, UNCHANGED <<day, store, shown, goal, lapsed>>, Render(shown, FALSE) \/ UNCHANGED <<at, announced>>
  PROVE  Quiet({"practice", "complete", "reload"})
BY DEF Quiet, GoesOn, Carried

\* Whatever the App does is one of the cap's steps.
LEMMA NextCap ==
  ASSUME TypeHyp, DeckHyp, RatingHyp, LibraryInv', SceneTyped, [Next]_vars
  PROVE  CapStep
<1>0. FetchesTyped /\ RatingInv /\ \A i \in Raters : ratings[i] \in {NoRating} \cup RateT
  BY DEF DeckHyp, RatingHyp, RatingInv
<1>00. ratings' = ratings => RatingMoves
  BY <1>0, NoRatingIs DEF RatingMoves
<1>1. CASE ProgressCalls
  <2>1. PICK j \in Slots : Commit(j) \/ ReadProgress(j) \/ LandProgress(j) \/ WriteFails(j) \/ ReadFails(j)
    BY <1>1 DEF ProgressCalls
  <2>2. CASE Commit(j) \/ ReadProgress(j)
    BY <2>2 DEF Commit, ReadProgress, reviewVars, CapStep
  <2>3. CASE LandProgress(j)
    BY <2>3, LandKeeps DEF LandProgress, RestOfReview, CapStep
  <2>4. CASE WriteFails(j) \/ ReadFails(j)
    BY <2>4 DEF WriteFails, ReadFails, VisitFailWrite, VisitFailRead, RestOfReview, CapStep
  <2>5. QED
    BY <2>1, <2>2, <2>3, <2>4
<1>2. CASE AppStep \/ ListStep
  <2>1. ReviewFollows(nav'.route.view = "review") /\ VisitFollows(LessonOnScreen') /\ UNCHANGED <<day, store, shown, goal, lapsed>>
        /\ (Render(shown, FALSE) \/ UNCHANGED <<at, announced>>)
    BY <1>2 DEF AppStep, ListStep, PagesFollow, Render
  <2>2. LessonOnScreen' \in Lessons \cup {NoLesson}
    BY OnScreenTyped DEF LessonOnScreen, LibraryInv, LibraryTyped
  <2>3. Quiet({})
    BY <2>1, <2>2, FollowKeeps
  <2>4. RatingMoves
    <3>1. RatingsGo
      BY <2>1, FollowRatings
    <3>2. QED
      BY <1>0, <3>1, NoRatingIs DEF RatingsGo, RatingMoves, RateT
  <2>5. Quiet({"practice", "complete", "reload"}) /\ overlapped' = overlapped
    BY <2>1, <2>3, QuietWidens DEF ReviewFollows
  <2>6. QED
    BY <2>4, <2>5 DEF CapStep
<1>3. CASE Elsewhere \/ UNCHANGED vars
  <2>1. UNCHANGED <<ratings, overlapped, progressVars>>
    BY <1>3 DEF Elsewhere, vars, reviewVars
  <2>2. QED
    BY <1>00, <2>1, QuietSame DEF progressVars, CapStep
<1>4. CASE Lesson
  <2>1. Quiet({"practice", "complete"}) /\ UNCHANGED <<ratings, overlapped>>
    BY <1>4, LessonSteps DEF Lesson, reviewVars
  <2>2. QED
    BY <1>00, <2>1, QuietWidens DEF CapStep
<1>5. CASE DeckRefreshes
  <2>1. UNCHANGED <<ratings, overlapped, jobs, day, store, shown, goal, lapsed>> /\ (Render(shown, FALSE) \/ UNCHANGED <<at, announced>>)
    BY <1>5 DEF DeckRefreshes, Refresh, ReadCards, Rerender, Render, progressVars
  <2>2. QED
    BY <1>00, <2>1, QuietSame DEF CapStep
<1>6. CASE DeckLands
  <2>1. PICK k \in Fetches : Continue(k) /\ UNCHANGED <<overlapped, day, store, shown, goal, lapsed, visit>> /\ Render(shown, FALSE)
    BY <1>6 DEF DeckLands, LandCards, FailCards, Render, pageVars
  <2>2. CASE UNCHANGED <<ratings, jobs>>
    BY <1>00, <2>1, <2>2, QuietSame DEF CapStep
  <2>3. ASSUME NEW i \in Raters, Awaits(i, k), EndRating(i) /\ jobs' = jobs PROVE CapStep
    <3>1. RatingMoves
      <4>1. ratings'[i] = NoRating /\ ratings[i].pc = "fetching" /\ \A o \in Raters \ {i} : ratings'[o] = ratings[o]
        BY <1>0, <2>3 DEF EndRating, Awaits, RatingInv
      <4>2. QED
        BY <1>0, <4>1, NoRatingIs DEF RatingMoves, Unsaved
    <3>2. QED
      BY <2>1, <2>3, <3>1, QuietSame DEF CapStep
  <2>4. ASSUME NEW i \in Raters, Awaits(i, k), ratings[i].new \in BOOLEAN, Recording(i) PROVE CapStep
    <3>1. Free # {} /\ jobs' = Starting(jobs, Job("rating", ratings[i].new, NoLesson)) /\ "rating" \in Kinds \ {"complete"}
      BY <2>4 DEF Recording, Kinds
    <3>2. Quiet({"rating"})
      BY <2>1, <2>4, <3>1, StartKeeps
    <3>3. QED
      BY <2>1, <2>4, <3>2 DEF CapStep, Awaits
  <2>5. QED
    BY <1>0, <2>1, <2>2, <2>3, <2>4, ContinueIs
<1>7. CASE Ratings
  <2>1. UNCHANGED <<overlapped, jobs, day, store, shown, goal, lapsed>> /\ (Render(shown, FALSE) \/ UNCHANGED <<at, announced>>)
    BY <1>7 DEF Ratings, SaveReview, FailReview, ChangeCard, Rerender, Render, progressVars
  <2>2. RatingMoves
    <3>1. ASSUME NEW i \in Raters, SaveReview(i) PROVE RatingMoves
      <4>1. ratings[i].pc = "saving" /\ ratings[i] \in RateT
        BY <1>0, <3>1, NoRatingIs DEF SaveReview
      <4>2. PICK saved, fetch : ratings' = [ratings EXCEPT ![i].pc = "fetching", ![i].saved = saved, ![i].version = 0, ![i].fetch = fetch]
        BY <3>1 DEF SaveReview
      <4>3. /\ ratings'[i].pc = "fetching" /\ ratings'[i].new = ratings[i].new /\ ratings'[i] # NoRating
            /\ \A o \in Raters \ {i} : ratings'[o] = ratings[o]
        BY <1>0, <4>1, <4>2, NoRatingIs DEF RateT, RatingInv
      <4>4. QED
        BY <1>0, <4>1, <4>3, NoRatingIs DEF RatingMoves, Unsaved
    <3>2. ASSUME NEW i \in Raters, FailReview(i) PROVE RatingMoves
      <4>1. ratings'[i] = NoRating /\ ratings[i].pc = "saving" /\ \A o \in Raters \ {i} : ratings'[o] = ratings[o]
        BY <1>0, <3>2 DEF FailReview, EndRating, RatingInv
      <4>2. QED
        BY <1>0, <4>1, NoRatingIs DEF RatingMoves, Unsaved
    <3>3. CASE ratings' = ratings
      BY <1>00, <3>3
    <3>4. QED
      BY <1>7, <3>1, <3>2, <3>3 DEF Ratings, ChangeCard
  <2>3. QED
    BY <2>1, <2>2, QuietSame DEF CapStep
<1>8. CASE SaveButtons
  <2>1. UNCHANGED <<ratings, overlapped, jobs, day, store, shown, goal, lapsed>> /\ (Render(shown, FALSE) \/ UNCHANGED <<at, announced>>)
    BY <1>8 DEF SaveButtons, Toggle, Undo, FailSave, CommitSave, Rerender, Render, progressVars, reviewVars
  <2>2. QED
    BY <1>00, <2>1, QuietSame DEF CapStep
<1>9. CASE ReviewPage
  <2>1. UNCHANGED progressVars
    BY <1>9 DEF ReviewPage, Reveal, Listen, SpeechEnds, ListenFirst, SayIt, SaidIt, SayItAgain, RecapListen, Rate
  <2>2. CASE \E again \in BOOLEAN : Rate(again)
    BY <2>2 DEF CapStep
  <2>3. CASE UNCHANGED <<ratings, overlapped>>
    BY <1>00, <2>1, <2>3, QuietSame DEF CapStep, progressVars
  <2>4. QED
    BY <1>9, <2>2, <2>3 DEF ReviewPage, Reveal, Listen, SpeechEnds, ListenFirst, SayIt, SaidIt, SayItAgain, RecapListen
<1>10. CASE Background
  <2>1. UNCHANGED <<ratings, overlapped, visit>>
    BY <1>10 DEF Background, reviewVars, pageVars
  <2>2. CASE Reload
    <3>1. Free # {} /\ jobs' = Starting(jobs, Job("reload", FALSE, NoLesson)) /\ UNCHANGED <<day, at, store, shown, goal, announced, lapsed>>
          /\ "reload" \in Kinds \ {"complete"}
      BY <2>2 DEF Reload, Kinds
    <3>2. Quiet({"reload"})
      BY <2>1, <3>1, StartKeeps
    <3>3. QED
      BY <1>00, <2>1, <3>2, QuietWidens DEF CapStep
  <2>3. CASE GoalPicker
    <3>1. scene.goals \subseteq Goals
      BY LearnerAssumption DEF SceneTyped
    <3>2. QED
      BY <2>1, <2>3, <3>1 DEF GoalPicker, CapStep
  <2>4. CASE Midnight
    BY <2>1, <2>4 DEF CapStep
  <2>5. QED
    BY <1>10, <2>2, <2>3, <2>4 DEF Background
<1>11. QED
  BY <1>1, <1>2, <1>3, <1>4, <1>5, <1>6, <1>7, <1>8, <1>9, <1>10 DEF Next

\* Nothing New is counted, and what is on screen stays.
LEMMA CapStays ==
  ASSUME CapInv, RatingInv, store'.new = store.new, shown' = shown, lapsed => lapsed', overlapped' = overlapped, RatingMoves,
         \A j \in Slots : jobs[j].kind = "rating" => jobs'[j] = jobs[j],
         \A j \in Slots : jobs'[j] # Idle /\ jobs'[j].new => jobs'[j] = jobs[j],
         \A d \in Days : d >= day' => d >= day
  PROVE  CapInv'
<1>1. ASSUME NEW i \in Raters PROVE RatesNew(i)' => RatesNew(i) /\ (ratings'[i].pc \in Unsaved => ratings[i].pc \in Unsaved)
  BY DEF RatingMoves, RatesNew
<1>2. ASSUME NEW i \in Raters, ratings[i].pc = "recording"
      PROVE  /\ ratings'[i].pc = "recording" /\ ratings'[i].job = ratings[i].job /\ (RatesNew(i) => RatesNew(i)')
             /\ ratings[i].job \in Slots /\ jobs'[ratings[i].job] = jobs[ratings[i].job]
  BY <1>2 DEF RatingMoves, RatesNew, RatingInv
<1>3. ASSUME NEW i \in Raters, ratings'[i].pc = "recording" PROVE ratings[i].pc = "recording"
  BY <1>3 DEF RatingMoves
<1>4. NewJobsInv'
  <2>1. SUFFICES ASSUME NEW j \in Slots, jobs'[j] # Idle, jobs'[j].new
                 PROVE  jobs'[j].pc = "saving" /\ \E i \in Raters : RatesNew(i)' /\ Records(i, j)'
    BY DEF NewJobsInv, RatesNew, Records
  <2>2. jobs'[j] = jobs[j]
    BY <2>1
  <2>3. PICK i \in Raters : RatesNew(i) /\ Records(i, j) /\ jobs[j].pc = "saving"
    BY <2>1, <2>2 DEF CapInv, NewJobsInv
  <2>4. RatesNew(i)' /\ Records(i, j)'
    BY <1>2, <2>3 DEF Records
  <2>5. QED
    BY <2>2, <2>3, <2>4
<1>5. ASSUME Orderly' PROVE OneNewInv' /\ IntroducedInv' /\ RoomInv'
  <2>0. OneNewInv /\ IntroducedInv /\ RoomInv
    BY <1>5 DEF CapInv, Orderly
  <2>1. OneNewInv'
    BY <1>1, <2>0 DEF OneNewInv
  <2>2. InRecord => InRecord'
    BY <1>2 DEF InRecord
  <2>3. IntroducedInv'
    BY <1>1, <1>2, <1>3, <2>0, <2>2 DEF IntroducedInv, Introduced
  <2>4. RoomInv'
    BY <1>1, <2>0 DEF RoomInv
  <2>5. QED
    BY <2>1, <2>3, <2>4
<1>6. QED
  BY <1>4, <1>5 DEF CapInv

\* A rating's record counts its New card on the day it was rated.
LEMMA CapCommits ==
  ASSUME TypeHyp, RatingInv, CapInv, NEW j \in Slots, CommitPractice(j), ratings' = ratings, overlapped' = overlapped
  PROVE  CapInv'
<1> DEFINE d == jobs[j].date
           n == IF jobs[j].new THEN 1 ELSE 0
<1>1. /\ jobs[j] \in JobT /\ d \in Days /\ store'.new[d] = store.new[d] + n
      /\ \A e \in Days \ {d} : store'.new[e] = store.new[e]
      /\ jobs'[j].kind = jobs[j].kind /\ jobs'[j].pc = "reading" /\ ~jobs'[j].new
      /\ \A i \in Slots \ {j} : jobs'[i] = jobs[i]
  BY CommitIs
<1>2. UNCHANGED <<day, shown, lapsed>> /\ jobs[j].pc = "saving" /\ jobs[j] # Idle
  BY <1>1, IdleIsNoJob DEF CommitPractice
<1>3. (\A e \in Days : store.new[e] \in Nat /\ e \in Nat) /\ NEW_CARDS_PER_DAY \in Nat
  BY SeensTyped, DaysNat, ReviewAssumption
<1> HIDE DEF d
<1>4. \A i \in Raters : RatesNew(i)' <=> RatesNew(i)
  BY DEF RatesNew
<1>5. NewJobsInv'
  <2>1. SUFFICES ASSUME NEW k \in Slots, jobs'[k] # Idle, jobs'[k].new
                 PROVE  jobs'[k].pc = "saving" /\ \E i \in Raters : RatesNew(i) /\ Records(i, k)
    BY <1>4 DEF NewJobsInv, Records
  <2>2. jobs'[k] = jobs[k]
    BY <1>1, <2>1
  <2>3. QED
    BY <2>1, <2>2 DEF CapInv, NewJobsInv
<1>6. ASSUME Orderly PROVE OneNewInv' /\ IntroducedInv' /\ RoomInv'
  <2>0. OneNewInv /\ IntroducedInv /\ RoomInv /\ NewJobsInv
    BY <1>6 DEF CapInv
  <2>1. OneNewInv'
    BY <1>4, <2>0 DEF OneNewInv
  <2>2. CASE jobs[j].new
    <3>1. PICK i \in Raters : RatesNew(i) /\ Records(i, j)
      BY <1>2, <2>0, <2>2 DEF NewJobsInv
    <3>2. \A r \in Raters : RatesNew(r) => r = i /\ ratings[r].pc = "recording" /\ ratings[r].job = j
      BY <2>0, <3>1 DEF OneNewInv, Records
    <3>3. InRecord'
      BY <1>1, <1>4, <3>1 DEF InRecord, Records
    <3>4. IntroducedInv'
      BY <1>1, <1>4, <3>2, <3>3 DEF IntroducedInv
    <3>5. \A k \in Slots : jobs'[k] # Idle => ~jobs'[k].new
      <4>1. \A k \in Slots \ {j} : jobs[k] # Idle => ~jobs[k].new
        BY <2>0, <3>2 DEF NewJobsInv, Records
      <4>2. QED
        BY <1>1, <4>1
    <3>6. ASSUME NEW e \in Days PROVE store'.new[e] <= NEW_CARDS_PER_DAY
      <4>1. store.new[e] <= NEW_CARDS_PER_DAY /\ store.new[d] < NEW_CARDS_PER_DAY
        BY <1>1, <1>2, <2>0, <2>2 DEF RoomInv, d
      <4>2. n = 1
        BY <2>2
      <4> HIDE DEF n
      <4>3. QED
        BY <1>1, <1>3, <4>1, <4>2
    <3>7. RoomInv'
      BY <1>4, <3>2, <3>5, <3>6 DEF RoomInv, Unsaved
    <3>8. QED
      BY <2>1, <3>4, <3>7
  <2>3. CASE ~jobs[j].new
    <3>1. n = 0
      BY <2>3
    <3> HIDE DEF n
    <3>2. \A e \in Days : store'.new[e] = store.new[e]
      BY <1>1, <1>3, <3>1
    <3>3. ASSUME NEW s \in SnapT, Introduced(s) PROVE store'.new[s.date] = s.new /\ \A e \in Days : e > s.date => store'.new[e] = 0
      BY <3>2, <3>3 DEF Introduced, SnapT
    <3>4. shown \in SnapT /\ \A i \in Slots : jobs[i] # Idle => jobs[i].seen \in SnapT
      BY DEF TypeHyp, ProgressTyped, JobT
    <3>5. InRecord => InRecord'
      <4>1. SUFFICES ASSUME NEW i \in Raters, RatesNew(i), ratings[i].pc = "recording", jobs[ratings[i].job].pc # "saving" PROVE InRecord'
        BY DEF InRecord
      <4>2. ratings[i].job \in Slots \ {j}
        BY <1>2, <4>1 DEF RatingInv
      <4>3. QED
        BY <1>1, <1>4, <4>1, <4>2 DEF InRecord
    <3>6. ~InRecord' => Introduced(shown)'
      BY <1>2, <2>0, <3>3, <3>4, <3>5 DEF IntroducedInv, Introduced
    <3>7. ASSUME NEW i \in Raters, RatesNew(i), ratings[i].pc = "recording", jobs'[ratings[i].job].pc = "landing"
          PROVE  store'.new[jobs'[ratings[i].job].seen.date] = jobs'[ratings[i].job].seen.new
                 /\ \A e \in Days : e > jobs'[ratings[i].job].seen.date => store'.new[e] = 0
      <4> DEFINE k == ratings[i].job
      <4>1. k \in Slots /\ jobs[k].kind = "rating"
        BY <3>7 DEF RatingInv
      <4>2. k # j
        BY <1>1, <3>7
      <4>3. jobs'[k] = jobs[k] /\ jobs[k] # Idle
        BY <1>1, <4>1, <4>2, IdleKind
      <4>4. jobs[k].seen \in SnapT /\ Introduced(jobs[k].seen)
        BY <2>0, <3>4, <3>7, <4>1, <4>3 DEF IntroducedInv
      <4>5. QED
        BY <3>3, <4>3, <4>4
    <3>8. IntroducedInv'
      BY <1>4, <3>6, <3>7 DEF IntroducedInv, Introduced
    <3>9. \A i \in Slots : jobs'[i] # Idle /\ jobs'[i].new => jobs'[i] = jobs[i] /\ jobs[i].date \in Days
      BY <1>1 DEF TypeHyp, ProgressTyped, JobT
    <3>10. RoomInv'
      BY <1>2, <1>4, <2>0, <3>2, <3>9 DEF RoomInv
    <3>11. QED
      BY <2>1, <3>8, <3>10
  <2>4. QED
    BY <2>2, <2>3
<1>7. QED
  BY <1>2, <1>5, <1>6 DEF CapInv, Orderly

\* Its reload reads that count.
LEMMA CapReads ==
  ASSUME TypeHyp, CountInv, RatingInv, CapInv, NEW j \in Slots, Read(j), ratings' = ratings, overlapped' = overlapped
  PROVE  CapInv'
<1>1. /\ jobs[j] \in JobT /\ jobs[j].pc = "reading"
      /\ jobs'[j].kind = jobs[j].kind /\ jobs'[j].pc = "landing" /\ jobs'[j].date = jobs[j].date
      /\ jobs'[j].seen = Snapshot /\ jobs'[j].new = jobs[j].new
      /\ \A i \in Slots \ {j} : jobs'[i] = jobs[i]
  BY ReadIs
<1>2. UNCHANGED <<day, store, shown, lapsed>>
  BY DEF Read
<1>3. Introduced(Snapshot)
  <2>1. Snapshot.date = day /\ Snapshot.new = store.new[day]
    BY SnapshotIs DEF TypeHyp
  <2>2. \A d \in Days : d > day => store.new[d] = 0
    <3>1. \A d \in Days : store.new[d] \in Nat /\ store.new[d] <= store.actions[d] /\ (d > day => store.actions[d] = 0)
      BY SeensTyped DEF CountInv
    <3>2. QED
      BY <3>1
  <2>3. QED
    BY <2>1, <2>2 DEF Introduced
<1>4. ~jobs'[j].new
  BY <1>1, IdleIsNoJob DEF CapInv, NewJobsInv
<1>5. \A i \in Raters : RatesNew(i)' <=> RatesNew(i)
  BY DEF RatesNew
<1>6. NewJobsInv'
  BY <1>1, <1>4, <1>5 DEF CapInv, NewJobsInv, Records
<1>7. ASSUME Orderly PROVE OneNewInv' /\ IntroducedInv' /\ RoomInv'
  <2>0. OneNewInv /\ IntroducedInv /\ RoomInv
    BY <1>7 DEF CapInv
  <2>1. OneNewInv'
    BY <1>5, <2>0 DEF OneNewInv
  <2>2. InRecord' <=> InRecord
    BY <1>1, <1>5 DEF InRecord, RatingInv
  <2>3. \A i \in Raters : RatesNew(i) /\ ratings[i].pc = "recording" /\ jobs'[ratings[i].job].pc = "landing" =>
          Introduced(jobs'[ratings[i].job].seen)
    BY <1>1, <1>3, <2>0 DEF IntroducedInv, RatingInv
  <2>4. IntroducedInv'
    BY <1>2, <1>5, <2>0, <2>2, <2>3 DEF IntroducedInv, Introduced
  <2>5. RoomInv'
    BY <1>1, <1>2, <1>4, <1>5, <2>0 DEF RoomInv
  <2>6. QED
    BY <2>1, <2>4, <2>5
<1>8. QED
  BY <1>2, <1>6, <1>7 DEF CapInv, Orderly

\* Of the jobs that go on, those of ratings stay as they are.
LEMMA RatingsGoOn ==
  ASSUME TypeHyp, CapInv, RatingInv, NEW j \in Slots, NEW kinds, "rating" \notin kinds, GoesOn(j, kinds)
  PROVE  /\ jobs[j].kind = "rating" => jobs'[j] = jobs[j]
         /\ jobs'[j] # Idle /\ jobs'[j].new => jobs'[j] = jobs[j]
<1>1. Idle.kind # "rating"
  BY IdleKind
<1>2. jobs[j].kind = "rating" => jobs'[j] = jobs[j]
  BY <1>1 DEF GoesOn, Carried, Started
<1>3. ASSUME jobs'[j] # Idle, jobs'[j].new PROVE jobs[j] # Idle /\ jobs[j].new
  BY <1>1, <1>3 DEF GoesOn, Carried, Started
<1>4. jobs[j] # Idle /\ jobs[j].new => jobs[j].kind = "rating"
  BY DEF CapInv, NewJobsInv, Records, RatingInv
<1>5. QED
  BY <1>2, <1>3, <1>4

\* Steps that rate nothing use no room.
LEMMA CapMoves ==
  ASSUME TypeHyp, RatingInv, CapInv, Quiet({"practice", "complete", "reload"}), RatingMoves, overlapped' = overlapped
  PROVE  CapInv'
<1>1. UNCHANGED <<day, store, shown, lapsed>> /\ \A j \in Slots : GoesOn(j, {"practice", "complete", "reload"})
  BY DEF Quiet
<1>2. /\ \A j \in Slots : jobs[j].kind = "rating" => jobs'[j] = jobs[j]
      /\ \A j \in Slots : jobs'[j] # Idle /\ jobs'[j].new => jobs'[j] = jobs[j]
  BY <1>1, RatingsGoOn
<1>3. QED
  BY <1>1, <1>2, CapStays

\* Ratings that stay as they are move nowhere.
LEMMA MovesSame ==
  ASSUME RatingInv, ratings' = ratings
  PROVE  RatingMoves
BY NoRatingIs DEF RatingInv, RatingMoves

\* Neither do midnight and a chosen goal.
LEMMA CapGoes ==
  ASSUME TypeHyp, RatingInv, CapInv, Midnight \/ \E g \in Goals : ChooseGoal(g), ratings' = ratings, overlapped' = overlapped
  PROVE  CapInv'
<1>1. UNCHANGED <<store, shown, jobs>> /\ (lapsed => lapsed') /\ day' \in {day, day + 1}
  <2>1. CASE Midnight
    BY <2>1 DEF Midnight
  <2>2. CASE \E g \in Goals : ChooseGoal(g)
    <3>1. lapsed => lapsed'
      BY <2>2 DEF ChooseGoal
    <3>2. QED
      BY <2>2, <3>1 DEF ChooseGoal
  <2>3. QED
    BY <2>1, <2>2
<1>2. day \in Nat /\ \A d \in Days : d \in Nat
  BY DaysNat DEF TypeHyp, ProgressTyped
<1>3. \A d \in Days : d >= day' => d >= day
  BY <1>1, <1>2
<1>4. QED
  BY <1>1, <1>3, MovesSame, CapStays

\* Nor does a completion, that is counted or fails.
LEMMA CapCompletes ==
  ASSUME TypeHyp, RatingInv, CapInv, overlapped' = overlapped, NEW j \in Slots, jobs[j].kind = "complete",
         \A i \in Slots \ {j} : jobs'[i] = jobs[i], jobs'[j] = Idle \/ ~jobs'[j].new,
         UNCHANGED <<day, shown, lapsed>>, store'.new = store.new, ratings' = ratings \/ ratings' = Recorded(j)
  PROVE  CapInv'
<1>1. ratings' = ratings
  <2>1. \A i \in Raters : ~Records(i, j)
    BY DEF Records, RatingInv
  <2>2. CASE ratings' = Recorded(j)
    BY <2>1, <2>2 DEF Recorded, Records, RatingInv
  <2>3. QED
    BY <2>2
<1>2. QED
  BY <1>1, MovesSame, CapStays

\* A refresh that is not older knows of every New card that the screen knew.
LEMMA CapLands ==
  ASSUME TypeHyp, CountInv, RatingInv, CapInv, NEW j \in Slots, Lands(j), ratings' = Recorded(j), overlapped' = overlapped
  PROVE  CapInv'
<1> DEFINE s == jobs[j].seen
<1>1. /\ UNCHANGED <<day, store>> /\ shown' = s /\ jobs[j] \in JobT /\ jobs[j].pc = "landing" /\ jobs[j] # Idle
      /\ lapsed' = (lapsed \/ Older(s))
      /\ jobs'[j] = Idle \/ Started(jobs'[j], {"complete"})
      /\ \A i \in Slots \ {j} : GoesOn(i, {"complete"})
  BY IdleKind DEF Lands, Land, Render, TypeHyp, ProgressTyped
<1>2. /\ \A i \in Slots \ {j} : jobs[i].kind = "rating" => jobs'[i] = jobs[i]
      /\ \A i \in Slots \ {j} : jobs'[i] # Idle /\ jobs'[i].new => jobs'[i] = jobs[i]
  BY <1>1, RatingsGoOn
<1>3. jobs'[j] # Idle => ~jobs'[j].new
  BY <1>1 DEF Started
<1>4. \A i \in Raters : /\ Records(i, j) => ratings'[i] = NoRating
                        /\ ~Records(i, j) => ratings'[i] = ratings[i]
  BY DEF Recorded, Records
<1>5. \A i \in Raters : RatesNew(i)' <=> RatesNew(i) /\ ~Records(i, j)
  BY <1>4 DEF RatesNew
<1>6. ASSUME NEW i \in Raters, ratings'[i].pc = "recording"
      PROVE  /\ ratings'[i] = ratings[i] /\ ratings[i].job \in Slots \ {j} /\ jobs'[ratings[i].job] = jobs[ratings[i].job]
  BY <1>2, <1>4, <1>6, NoRatingIs DEF Records, RatingInv
<1>7. NewJobsInv'
  <2>1. SUFFICES ASSUME NEW k \in Slots, jobs'[k] # Idle, jobs'[k].new
                 PROVE  jobs'[k].pc = "saving" /\ \E i \in Raters : RatesNew(i)' /\ Records(i, k)'
    BY DEF NewJobsInv
  <2>2. jobs'[k] = jobs[k] /\ k # j
    BY <1>2, <1>3, <2>1
  <2>3. PICK i \in Raters : RatesNew(i) /\ Records(i, k) /\ jobs[k].pc = "saving"
    BY <2>1, <2>2 DEF CapInv, NewJobsInv
  <2>4. ~Records(i, j)
    BY <2>2, <2>3 DEF Records
  <2>5. QED
    BY <1>4, <1>5, <2>2, <2>3, <2>4 DEF Records
<1>8. ASSUME Orderly' PROVE OneNewInv' /\ RoomInv'
  <2>1. OneNewInv /\ RoomInv
    BY <1>1, <1>8 DEF CapInv, Orderly
  <2>2. OneNewInv'
    BY <1>5, <2>1 DEF OneNewInv
  <2>3. RoomInv'
    BY <1>1, <1>2, <1>3, <1>4, <1>5, <2>1 DEF RoomInv
  <2>4. QED
    BY <2>2, <2>3
<1>9. ASSUME Orderly', ~InRecord' PROVE Introduced(s)
  <2>0. ~lapsed /\ ~Older(s) /\ IntroducedInv
    BY <1>1, <1>9 DEF Orderly, CapInv
  <2>1. CASE \E i \in Raters : RatesNew(i) /\ Records(i, j)
    BY <1>1, <2>0, <2>1 DEF IntroducedInv, Records
  <2>2. CASE ~\E i \in Raters : RatesNew(i) /\ Records(i, j)
    <3>1. ~InRecord
      <4>1. SUFFICES ASSUME NEW i \in Raters, RatesNew(i), ratings[i].pc = "recording", jobs[ratings[i].job].pc # "saving" PROVE FALSE
        BY DEF InRecord
      <4>2. RatesNew(i)' /\ ratings'[i] = ratings[i]
        BY <1>4, <1>5, <2>2, <4>1
      <4>3. QED
        BY <1>6, <1>9, <4>1, <4>2 DEF InRecord
    <3>3. SUFFICES ASSUME Introduced(shown) PROVE Introduced(s)
      BY <2>0, <3>1 DEF IntroducedInv
    <3>4. s \in Seens /\ shown \in Seens
      BY <1>1 DEF Seens, Free
    <3>5. /\ s.date \in Days /\ s.date \in Nat /\ s.actions \in Nat /\ s.new \in Nat
          /\ shown.date \in Days /\ shown.date \in Nat /\ shown.actions \in Nat /\ shown.new \in Nat
          /\ Counts(s, store) /\ Agree(shown, s) /\ \A d \in Days : store.new[d] \in Nat /\ d \in Nat
      BY <3>4, SeensTyped, DaysNat DEF CountInv
    <3>6. s.date > shown.date \/ (s.date = shown.date /\ shown.actions <= s.actions)
      BY <2>0, <3>5 DEF Older
    <3> HIDE DEF s
    <3>7. store.new[s.date] = s.new
      <4>1. s.new <= store.new[s.date]
        BY <3>5 DEF Counts
      <4>2. CASE s.date > shown.date
        <5>1. store.new[s.date] = 0
          BY <3>3, <3>5, <4>2 DEF Introduced
        <5>2. QED
          BY <3>5, <4>1, <5>1
      <4>3. CASE s.date = shown.date /\ shown.actions <= s.actions
        <5>1. shown.new <= s.new /\ store.new[s.date] = shown.new
          BY <3>3, <3>5, <4>3 DEF Agree, Introduced
        <5>2. QED
          BY <3>5, <4>1, <5>1
      <4>4. QED
        BY <3>6, <4>2, <4>3
    <3>8. \A d \in Days : d > s.date => store.new[d] = 0
      <4>1. \A d \in Days : d > s.date => d > shown.date
        BY <3>5, <3>6
      <4>2. QED
        BY <3>3, <4>1 DEF Introduced
    <3>9. QED
      BY <3>7, <3>8 DEF Introduced
  <2>3. QED
    BY <2>1, <2>2
<1>10. ASSUME Orderly' PROVE IntroducedInv'
  <2>1. IntroducedInv
    BY <1>1, <1>10 DEF Orderly, CapInv
  <2>2. \A i \in Raters : RatesNew(i)' /\ ratings'[i].pc = "recording" /\ jobs'[ratings'[i].job].pc = "landing" =>
          Introduced(jobs'[ratings'[i].job].seen)
    BY <1>5, <1>6, <2>1 DEF IntroducedInv
  <2>3. ~InRecord' => Introduced(shown')
    BY <1>1, <1>9, <1>10
  <2>4. QED
    BY <1>1, <2>2, <2>3 DEF IntroducedInv, Introduced
<1>11. QED
  BY <1>7, <1>8, <1>10 DEF CapInv

\* A New card that is shown has its place in what the limit leaves.
LEMMA NewCardsLeft ==
  ASSUME NEW cs \in Decks, NEW n \in Int, NEW c \in CapNewCards(cs, n), cs[c].new
  PROVE  n < NEW_CARDS_PER_DAY
<1> DEFINE due == {d \in DOMAIN cs : cs[d].live /\ cs[d].due}
           new == {d \in due : cs[d].new}
           before == {d \in new : d < c}
<1>1. Cardinality(before) < NEW_CARDS_PER_DAY - n
  BY DEF CapNewCards
<1>2. IsFiniteSet(before)
  <2>1. before \subseteq Cards
    BY DeckIs
  <2>2. QED
    BY <2>1, FS_Subset, ReviewAssumption
<1> HIDE DEF before
<1>3. Cardinality(before) \in Nat /\ NEW_CARDS_PER_DAY \in Nat
  BY <1>2, FS_CardinalityType, ReviewAssumption
<1>4. QED
  BY <1>1, <1>3

\* A rating of a New card takes one of the cards left today.
LEMMA CapRates ==
  ASSUME TypeHyp, FetchesTyped, RatingHyp, CapInv, NEW again \in BOOLEAN, Rate(again)
  PROVE  CapInv'
<1> DEFINE c == Turn[1]
<1>1. PICK i \in Raters : /\ ratings[i] = NoRating
                          /\ overlapped' = (overlapped \/ (deck.cards[c].new /\
                                              \E o \in Raters : ratings[o] # NoRating /\ ratings[o].new))
                          /\ \E r \in RateT : ratings' = [ratings EXCEPT ![i] = r] /\ r.pc = "saving" /\ RatingOf(r)
  BY RateIs
<1>2. PICK r \in RateT : ratings' = [ratings EXCEPT ![i] = r] /\ r.pc = "saving" /\ r.new = deck.cards[c].new /\ Turn # NoTurn
  BY <1>1 DEF RatingOf
<1>3. UNCHANGED <<day, at, store, shown, jobs, lapsed>>
  BY DEF Rate, progressVars
<1>4. ratings'[i] = r /\ r # NoRating /\ \A o \in Raters \ {i} : ratings'[o] = ratings[o]
  BY <1>2, NoRatingIs DEF RatingHyp, RatingInv
<1>5. ~RatesNew(i) /\ (RatesNew(i)' <=> r.new) /\ \A o \in Raters \ {i} : RatesNew(o)' <=> RatesNew(o)
  BY <1>1, <1>4 DEF RatesNew
<1>6. InRecord' <=> InRecord
  BY <1>2, <1>3, <1>4, <1>5 DEF InRecord
<1>7. NewJobsInv'
  <2>1. SUFFICES ASSUME NEW j \in Slots, jobs[j] # Idle, jobs[j].new
                 PROVE  jobs[j].pc = "saving" /\ \E o \in Raters : RatesNew(o)' /\ Records(o, j)'
    BY <1>3 DEF NewJobsInv
  <2>2. PICK o \in Raters : RatesNew(o) /\ Records(o, j) /\ jobs[j].pc = "saving"
    BY <2>1 DEF CapInv, NewJobsInv
  <2>3. RatesNew(o)' /\ Records(o, j)'
    BY <1>4, <1>5, <2>2 DEF Records
  <2>4. QED
    BY <2>2, <2>3
<1>8. ASSUME Orderly' PROVE Orderly /\ (r.new => \A o \in Raters : ~RatesNew(o))
  BY <1>1, <1>2, <1>3, <1>8 DEF Orderly, RatesNew
<1>9. deck.cards \in Decks
  BY DEF FetchesTyped, DeckT
<1>10. /\ shown.date \in Nat /\ shown.new \in Nat /\ shown.date <= at /\ at <= day /\ at \in Nat /\ day \in Nat
       /\ \A d \in Days : d \in Nat /\ store.new[d] \in Nat
  BY DaysNat, SeensTyped DEF TypeHyp, ProgressTyped, SnapT
<1>11. NewCardsToday \in Nat /\ NewCardsToday = (IF shown.date = at THEN shown.new ELSE 0)
  BY <1>10 DEF NewCardsToday, Today
<1>12. ASSUME Orderly', r.new, NEW d \in Days, d >= day PROVE store.new[d] < NEW_CARDS_PER_DAY
  <2>1. Introduced(shown)
    BY <1>8, <1>12 DEF CapInv, IntroducedInv, InRecord
  <2>2. c \in CapNewCards(deck.cards, NewCardsToday) /\ deck.cards[c].new
    <3>1. Queue # {} /\ c = Min(Queue)
      BY <1>2 DEF Turn
    <3>2. Queue \subseteq DOMAIN deck.cards /\ DOMAIN deck.cards \subseteq Cards /\ Cards \subseteq Nat
      BY <1>9, DeckIs, VersionsNat DEF Queue, CapNewCards
    <3>3. Min(Queue) \in Queue
      BY <3>1, <3>2, LeastNumber
    <3>4. QED
      BY <1>2, <1>12, <3>1, <3>3 DEF Queue
  <2>3. NewCardsToday < NEW_CARDS_PER_DAY
    BY <1>9, <1>11, <2>2, NewCardsLeft
  <2>4. store.new[d] <= NewCardsToday
    <3>1. CASE d = shown.date
      <4>1. at = d
        BY <1>10, <1>12, <3>1
      <4>2. QED
        BY <1>10, <1>11, <2>1, <3>1, <4>1 DEF Introduced
    <3>2. CASE d # shown.date
      <4>1. d > shown.date
        BY <1>10, <1>12, <3>2
      <4>2. QED
        BY <1>10, <1>11, <2>1, <4>1 DEF Introduced
    <3>3. QED
      BY <3>1, <3>2
  <2>5. QED
    BY <1>10, <1>11, <2>3, <2>4, ReviewAssumption
<1>13. ASSUME Orderly' PROVE OneNewInv' /\ IntroducedInv' /\ RoomInv'
  <2>0. OneNewInv /\ IntroducedInv /\ RoomInv /\ (r.new => \A o \in Raters : ~RatesNew(o))
    BY <1>8, <1>13 DEF CapInv
  <2>1. OneNewInv'
    BY <1>5, <2>0 DEF OneNewInv
  <2>2. IntroducedInv'
    BY <1>2, <1>3, <1>4, <1>5, <1>6, <2>0 DEF IntroducedInv, Introduced
  <2>3. ASSUME NEW o \in Raters, RatesNew(o)', ratings'[o].pc \in Unsaved, NEW d \in Days, d >= day PROVE store.new[d] < NEW_CARDS_PER_DAY
    <3>1. CASE o = i
      BY <1>5, <1>12, <1>13, <2>3, <3>1
    <3>2. CASE o # i
      BY <1>4, <1>5, <2>0, <2>3, <3>2 DEF RoomInv
    <3>3. QED
      BY <3>1, <3>2
  <2>4. RoomInv'
    BY <1>3, <2>0, <2>3 DEF RoomInv
  <2>5. QED
    BY <2>1, <2>2, <2>4
<1>14. QED
  BY <1>7, <1>13 DEF CapInv

\* Its recording carries that card to the count.
LEMMA CapRecords ==
  ASSUME TypeHyp, RatingHyp, CapInv, Quiet({"rating"}), overlapped' = overlapped,
         NEW i \in Raters, ratings[i].pc = "fetching", Recording(i)
  PROVE  CapInv'
<1> DEFINE k == FirstIdle(jobs)
           job == jobs'[k]
<1>1. UNCHANGED <<day, store, shown, lapsed>> /\ day \in Days
  BY DEF Quiet, TypeHyp, ProgressTyped
<1>2. ratings[i] \in RateT /\ RatingInv
  BY NoRatingIs DEF RatingHyp, RatingInv
<1>3. PICK r \in RateT : ratings' = [ratings EXCEPT ![i] = r] /\ r.pc = "recording" /\ r.job = k /\ r.new = ratings[i].new
  BY <1>2, RecordingIs
<1>4. /\ k \in Slots /\ jobs[k] = Idle
      /\ job # Idle /\ job.new = ratings[i].new /\ job.date = day /\ job.pc = "saving"
      /\ \A j \in Slots : j # k => jobs'[j] = jobs[j]
  BY <1>2, RecordingIs
<1> HIDE DEF k
<1>5. ratings'[i] = r /\ r # NoRating /\ \A o \in Raters \ {i} : ratings'[o] = ratings[o]
  BY <1>2, <1>3, NoRatingIs DEF RatingInv
<1>6. \A o \in Raters : RatesNew(o)' <=> RatesNew(o)
  BY <1>2, <1>3, <1>5, NoRatingIs DEF RatesNew
<1>7. ASSUME NEW o \in Raters, ratings[o].pc = "recording"
      PROVE  o # i /\ ratings'[o] = ratings[o] /\ jobs'[ratings[o].job] = jobs[ratings[o].job]
  <2>1. o # i /\ ratings[o].job \in Slots /\ ratings[o].job # k
    BY <1>2, <1>4, <1>7, IdleKind DEF RatingInv
  <2>2. QED
    BY <1>4, <1>5, <2>1
<1>8. ASSUME NEW o \in Raters, ratings'[o].pc = "recording", o # i PROVE ratings[o].pc = "recording"
  BY <1>5, <1>8
<1>9. InRecord => InRecord'
  BY <1>6, <1>7 DEF InRecord
<1>10. NewJobsInv'
  <2>1. SUFFICES ASSUME NEW j \in Slots, jobs'[j] # Idle, jobs'[j].new
                 PROVE  jobs'[j].pc = "saving" /\ \E o \in Raters : RatesNew(o)' /\ Records(o, j)'
    BY DEF NewJobsInv
  <2>2. CASE j = k
    <3>1. RatesNew(i)' /\ Records(i, j)'
      BY <1>3, <1>4, <1>5, <2>1, <2>2 DEF RatesNew, Records
    <3>2. QED
      BY <1>4, <2>2, <3>1
  <2>3. CASE j # k
    <3>1. PICK o \in Raters : RatesNew(o) /\ Records(o, j) /\ jobs[j].pc = "saving" /\ jobs'[j] = jobs[j]
      BY <1>4, <2>1, <2>3 DEF CapInv, NewJobsInv
    <3>2. RatesNew(o)' /\ Records(o, j)'
      BY <1>6, <1>7, <3>1 DEF Records
    <3>3. QED
      BY <3>1, <3>2
  <2>4. QED
    BY <2>2, <2>3
<1>11. ASSUME Orderly PROVE OneNewInv' /\ IntroducedInv' /\ RoomInv'
  <2>0. OneNewInv /\ IntroducedInv /\ RoomInv
    BY <1>11 DEF CapInv
  <2>1. OneNewInv'
    BY <1>6, <2>0 DEF OneNewInv
  <2>2. ASSUME NEW o \in Raters, RatesNew(o)', ratings'[o].pc = "recording", jobs'[ratings'[o].job].pc = "landing"
        PROVE  Introduced(jobs'[ratings'[o].job].seen)
    <3>1. o # i
      BY <1>3, <1>4, <1>5, <2>2
    <3>2. QED
      BY <1>6, <1>7, <1>8, <2>0, <2>2, <3>1 DEF IntroducedInv
  <2>3. IntroducedInv'
    BY <1>1, <1>9, <2>0, <2>2 DEF IntroducedInv, Introduced
  <2>4. ratings[i].new => store.new[day] < NEW_CARDS_PER_DAY
    <3>1. day >= day
      BY <1>1, DaysNat
    <3>2. RatesNew(i) <=> ratings[i].new
      BY <1>2, NoRatingIs DEF RatesNew
    <3>3. QED
      BY <1>1, <2>0, <3>1, <3>2 DEF RoomInv, Unsaved
  <2>5. \A o \in Raters : ratings'[o].pc \in Unsaved => ratings'[o] = ratings[o]
    BY <1>3, <1>5 DEF Unsaved
  <2>6. RoomInv'
    BY <1>1, <1>4, <1>6, <2>0, <2>4, <2>5 DEF RoomInv
  <2>7. QED
    BY <2>1, <2>3, <2>6
<1>12. QED
  BY <1>1, <1>10, <1>11 DEF CapInv, Orderly

\* No step exceeds the cap.
LEMMA CapKeeps ==
  ASSUME TypeHyp, DeckHyp, RatingHyp, CountInv, CapInv, CapStep
  PROVE  CapInv'
<1>0. RatingInv /\ FetchesTyped
  BY DEF RatingHyp, DeckHyp
<1>1. ASSUME NEW j \in Slots, CommitComplete(j), ratings' = ratings, overlapped' = overlapped PROVE CapInv'
  <2>1. /\ store'.new = store.new /\ jobs[j] \in JobT /\ jobs[j].kind = "complete"
        /\ jobs'[j].new = jobs[j].new /\ \A i \in Slots \ {j} : jobs'[i] = jobs[i]
    BY <1>1, CompleteIs DEF CommitComplete
  <2>2. UNCHANGED <<day, shown, lapsed>>
    BY <1>1 DEF CommitComplete
  <2>3. ~jobs[j].new
    BY <1>0, <2>1, IdleIsNoJob DEF CapInv, NewJobsInv, Records, RatingInv
  <2>4. QED
    BY <1>0, <1>1, <2>1, <2>2, <2>3, CapCompletes
<1>2. ASSUME NEW j \in Slots, FailWrite(j) \/ FailRead(j), ratings' = Recorded(j), overlapped' = overlapped PROVE CapInv'
  <2>1. jobs'[j] = Idle /\ \A i \in Slots \ {j} : jobs'[i] = jobs[i]
    BY <1>2 DEF FailWrite, FailRead, TypeHyp, ProgressTyped
  <2>2. CASE jobs[j].kind = "complete" /\ FailWrite(j)
    <3>1. UNCHANGED <<day, store, shown, lapsed>>
      BY <2>2 DEF FailWrite
    <3>2. QED
      BY <1>0, <1>2, <2>1, <2>2, <3>1, CapCompletes
  <2>3. CASE ~(jobs[j].kind = "complete" /\ FailWrite(j))
    <3>1. lapsed'
      BY <1>2, <2>3 DEF FailWrite, FailRead
    <3>2. NewJobsInv'
      <4>1. SUFFICES ASSUME NEW k \in Slots, jobs'[k] # Idle, jobs'[k].new
                     PROVE  jobs'[k].pc = "saving" /\ \E i \in Raters : RatesNew(i)' /\ Records(i, k)'
        BY DEF NewJobsInv
      <4>2. PICK i \in Raters : RatesNew(i) /\ Records(i, k) /\ jobs[k].pc = "saving" /\ jobs'[k] = jobs[k] /\ k # j
        BY <2>1, <4>1 DEF CapInv, NewJobsInv
      <4>3. ratings'[i] = ratings[i]
        BY <1>2, <4>2 DEF Recorded, Records
      <4>4. QED
        BY <4>2, <4>3 DEF RatesNew, Records
    <3>3. QED
      BY <3>1, <3>2 DEF CapInv, Orderly
  <2>4. QED
    BY <2>2, <2>3
<1>3. QED
  BY <1>0, <1>1, <1>2, CapCommits, CapReads, CapLands, CapMoves, CapRates, CapRecords, CapGoes DEF CapStep

-----------------------------------------------------------------------------
(* The invariant.                                                          *)

AppInv ==
  /\ TypeHyp /\ DeckHyp /\ RatingHyp /\ VoiceHyp /\ PageInv
  /\ CompletionInv /\ DeckInv /\ CountInv /\ GoalInv /\ CapInv

\* The invariant's part of progress and visit holds at the start.
LEMMA InitProgress ==
  ASSUME Init
  PROVE  /\ TypeHyp /\ CompletionInv /\ CountInv /\ GoalInv
         /\ \A j \in Slots : jobs[j] = Idle
         /\ Introduced(shown) /\ \A d \in Days : store.new[d] = 0
<1>1. /\ day = 1 /\ at = 1 /\ goal \in Goals /\ announced = FALSE /\ lapsed = FALSE
      /\ shown = Snapshot /\ jobs = [j \in Slots |-> Idle] /\ visit = NoVisit
      /\ store \in [actions : {[d \in Days |-> 0]}, new : {[d \in Days |-> 0]}, past : Pasts, done : {{}}]
  BY DEF Init, ProgressInit, VisitInit
<1>2. store \in StoreT /\ store.done = {} /\ \A d \in Days : store.new[d] = 0 /\ store.actions[d] = 0
  BY <1>1 DEF StoreT
<1>3. 1 \in Days /\ \A d \in Days : d \in Nat /\ d >= 1
  BY DaysNat DEF Days
<1>4. PracticeDays = Practised(store) /\ Practised(store) \subseteq Int
  <2>1. store.past \subseteq Int
    BY <1>2, ProgressAssumption DEF StoreT
  <2>2. QED
    BY <1>3, <2>1 DEF PracticeDays, Practised
<1>5. /\ shown.date = 1 /\ shown.actions = 0 /\ shown.new = 0 /\ shown.days = Practised(store) /\ shown.done = {}
      /\ shown \in SnapT
  <2>1. shown = [date |-> 1, actions |-> 0, new |-> 0, days |-> Practised(store), done |-> {}]
    BY <1>1, <1>2, <1>3, <1>4 DEF Snapshot
  <2>2. QED
    BY <1>3, <1>4, <2>1 DEF SnapT
<1>6. \A j \in Slots : jobs[j] = Idle
  BY <1>1
<1>7. ProgressTyped
  <2>1. Past(shown, day, store)
    BY <1>1, <1>2, <1>5 DEF Past
  <2>2. QED
    BY <1>1, <1>2, <1>3, <1>5, <2>1 DEF ProgressTyped
<1>8. VisitTyped
  <2>1. NoneChecked \in [Sentences -> SUBSET Answers]
    BY DEF NoneChecked
  <2>2. visit \in VisitT(visit.missed) /\ Unvisited(visit) /\ visit.lesson = NoLesson
    BY <1>1, <2>1 DEF NoVisit, VisitT, Views, Unvisited
  <2>3. ~SaveDue(visit, shown.done)
    BY <2>2 DEF SaveDue, AllAttempted
  <2>4. QED
    BY <1>6, <2>2, <2>3, IdleKind DEF VisitTyped
<1>9. CompletionInv
  BY <1>1, <1>6, IdleKind DEF CompletionInv, NoVisit
<1>10. Seens = {shown}
  BY <1>6 DEF Seens, Free
<1>11. CountInv
  BY <1>2, <1>3, <1>5, <1>10 DEF CountInv, Counts, Agree
<1>12. GoalInv
  <2>1. goal \in Nat /\ goal >= 1
    BY <1>1, GoalsNat
  <2>2. ~Meets(shown, at, goal)
    BY <1>5, <2>1 DEF Meets
  <2>3. \A j \in Slots : ~CommittedJob(jobs[j])
    BY <1>6, IdleKind DEF CommittedJob, Practices
  <2>4. \A d \in Days : 1..store.actions[d] = {}
    BY <1>2
  <2>5. QED
    BY <1>1, <2>2, <2>3, <2>4 DEF GoalInv, Saves
<1>13. Introduced(shown)
  BY <1>2, <1>3, <1>5 DEF Introduced
<1>14. QED
  BY <1>2, <1>6, <1>7, <1>8, <1>9, <1>11, <1>12, <1>13 DEF TypeHyp

\* So does the part of the review deck.
LEMMA InitReview ==
  ASSUME Init
  PROVE  DeckHyp /\ RatingHyp /\ VoiceHyp /\ DeckInv /\ PageInv
         /\ ratings = [i \in Raters |-> NoRating] /\ overlapped = FALSE
<1>1. SceneTyped /\ ReviewInit(scene.cards, scene.version, Uses("speech"), nav.route.view = "review") /\ SavesInit /\ visit = NoVisit
  BY InitLibrary DEF Init, VisitInit
<1>2. scene.cards \subseteq Cards /\ scene.version \in 0..MaxVersion
  BY <1>1, LearnerAssumption DEF SceneTyped
<1>3. cards \in [scene.cards -> CardT]
  <2>1. cards = [c \in scene.cards |-> [version |-> scene.version, live |-> TRUE, new |-> TRUE, due |-> TRUE, here |-> TRUE]]
    BY <1>1 DEF ReviewInit
  <2>2. scene.version \in 0..MaxVersion + 1
    BY <1>2, VersionsNat
  <2>3. QED
    BY <2>1, <2>2 DEF CardT
<1>4. cards \in Decks
  BY <1>2, <1>3 DEF Decks
<1>5. deck = [cards |-> cards, loading |-> FALSE, failed |-> FALSE] /\ \A k \in Fetches : fetches[k] = NoFetch
  BY <1>1 DEF ReviewInit
<1>6. deck \in DeckT /\ deck.cards = cards
  BY <1>4, <1>5 DEF DeckT
<1>7. fetches \in [Fetches -> {NoFetch} \cup FetchT]
  BY <1>1 DEF ReviewInit
<1>8. FetchesTyped
  BY <1>4, <1>5, <1>6, <1>7 DEF FetchesTyped
<1>9. voice \in VoiceT /\ voice.spoken = NoTurn /\ voice.say = "idle" /\ recap = {}
      /\ ratings = [i \in Raters |-> NoRating] /\ overlapped = FALSE
  <2>1. Uses("speech") \in BOOLEAN
    BY DEF Uses
  <2>2. NoTurn \in TurnT
    BY DEF NoTurn, TurnT
  <2>3. voice \in [can : {Uses("speech")}, first : {FALSE, Uses("speech")}, spoken : {NoTurn}, say : {"idle"}, turn : {NoTurn}]
        /\ recap = {} /\ ratings = [i \in Raters |-> NoRating] /\ overlapped = FALSE
    BY <1>1 DEF ReviewInit
  <2> HIDE DEF Uses
  <2>4. QED
    BY <2>1, <2>2, <2>3 DEF VoiceT
<1>10. PageTyped /\ VoiceHyp
  BY <1>9, NoRatingIs DEF PageTyped, RatesCard, VoiceHyp, VoiceFollowsTurn
<1>11. SavesTyped
  BY <1>1, <1>5, NoFetchIs DEF SavesInit, SavesTyped
<1>12. DeckInv
  BY <1>5, <1>6 DEF DeckInv, Shows
<1>13. RatingHyp
  <2>1. \A i \in Raters : ratings[i] = NoRating
    BY <1>9
  <2>2. ratings \in [Raters -> {NoRating} \cup RateT]
    BY <1>9
  <2>3. QED
    BY <2>1, <2>2, NoRatingIs DEF RatingHyp, RatingInv, RatesCard
<1>14. PageInv
  <2>1. reviewing <=> nav.route.view = "review"
    BY <1>1 DEF ReviewInit
  <2>2. LessonOnScreen = NoId
    <3>1. CASE Uses("lists")
      <4>1. own.state = "loading" /\ lists.lesson # "loaded"
        BY <3>1 DEF Init, LibraryInit
      <4>2. QED
        BY <4>1 DEF LessonOnScreen, Shown, Found, Loaded
    <3>2. CASE ~Uses("lists")
      <4>1. nav.route = Page("library")
        BY <3>2 DEF Init, LibraryInit
      <4>2. QED
        BY <4>1 DEF LessonOnScreen, Shown, Found, Page
    <3>3. QED
      BY <3>1, <3>2
  <2>3. QED
    BY <1>1, <2>1, <2>2 DEF PageInv, NoVisit, NoId, NoLesson
<1>15. QED
  BY <1>8, <1>9, <1>10, <1>11, <1>12, <1>13, <1>14 DEF DeckHyp

\* The invariant holds when the App starts.
LEMMA InitApp == Init => AppInv
<1> SUFFICES ASSUME Init PROVE AppInv
  OBVIOUS
<1>1. CapInv
  <2>1. Introduced(shown) /\ (\A d \in Days : store.new[d] = 0) /\ (\A j \in Slots : jobs[j] = Idle)
        /\ \A i \in Raters : ratings[i] = NoRating
    BY InitProgress, InitReview
  <2>2. NewJobsInv
    BY <2>1 DEF NewJobsInv
  <2>3. IntroducedInv
    BY <2>1 DEF IntroducedInv, RatesNew
  <2>4. RoomInv
    <3>1. \A d \in Days : store.new[d] <= NEW_CARDS_PER_DAY
      BY <2>1, ReviewAssumption
    <3>2. QED
      BY <2>1, <3>1 DEF RoomInv, RatesNew
  <2>5. OneNewInv
    BY <2>1 DEF OneNewInv, RatesNew
  <2>6. QED
    BY <2>2, <2>3, <2>4, <2>5 DEF CapInv
<1>2. QED
  BY <1>1, InitProgress, InitReview DEF AppInv

\* Every step keeps it.
LEMMA AppKeeps ==
  ASSUME AppInv, LibraryInv, LibraryInv', SceneTyped, [Next]_vars
  PROVE  AppInv'
<1>1. /\ TypeHyp /\ DeckHyp /\ RatingHyp /\ VoiceHyp /\ PageInv
      /\ CompletionInv /\ DeckInv /\ CountInv /\ GoalInv /\ CapInv /\ RatingInv /\ FetchesTyped
  BY DEF AppInv, RatingHyp, DeckHyp
<1>2. StepIs /\ VisitStep
  BY <1>1, NextSteps
<1>3. TypeHyp'
  BY <1>1, <1>2, ProgressKeeps DEF TypeHyp, StepIs
<1>4. CardsStep
  BY <1>1, NextCards
<1>5. FetchesTyped' /\ DOMAIN cards \subseteq DOMAIN cards'
  BY <1>1, <1>4, FetchesKeep
<1>6. RatingHyp'
  BY <1>1, <1>5, NextRating
<1>7. VoiceHyp'
  BY <1>1, <1>5, VoiceKeeps
<1>8. SavesTyped'
  BY <1>1, <1>5, NextSaves
<1>9. DeckHyp'
  BY <1>5, <1>6, <1>7, <1>8 DEF DeckHyp, PageTyped, RatingHyp, VoiceHyp
<1>10. DeckInv'
  BY <1>1, <1>4, DeckKeeps
<1>11. PageInv'
  BY <1>1, PageKeeps
<1>12. CompletionInv'
  BY <1>1, <1>2, CompletionKeeps
<1>13. CountInv'
  BY <1>1, <1>2, CountKeeps
<1>14. GoalInv'
  BY <1>1, <1>2, GoalKeeps
<1>15. CapInv'
  <2>1. CapStep
    BY <1>1, NextCap
  <2>2. QED
    BY <1>1, <2>1, CapKeeps
<1>16. QED
  BY <1>3, <1>6, <1>7, <1>9, <1>10, <1>11, <1>12, <1>13, <1>14, <1>15 DEF AppInv

\* It always holds.
LEMMA AppAlways == Spec => []AppInv
<1>1. AppInv /\ LibraryInv /\ LibraryInv' /\ SceneTyped /\ [Next]_vars => AppInv'
  BY AppKeeps
<1>2. QED
  BY <1>1, InitApp, LibraryAlways, PTL DEF Spec

\* isRating is released: a rating that was not answered yet, of the page on screen
\* or of one that was left, waits for a refresh or a recording that is under way,
\* superseded or not, and that no other rating waits for (rate in ReviewDeck).
THEOREM RatingAlwaysAnswered == Spec => []RatingIsAnswered
<1>1. AppInv => RatingIsAnswered
  BY DEF AppInv, RatingHyp, RatingInv, Records, RatingIsAnswered
<1>2. QED
  BY <1>1, AppAlways, PTL

\* A new turn, Show answer and leaving the page drop speech and Say it (ReviewDeck,
\* useSayIt): only the card on screen, or one of the recap, is ever spoken or
\* listened for, whatever refresh, sync or rating replaces the turn underneath.
THEOREM VoiceAlwaysFollows == Spec => []VoiceFollowsTurn
<1>1. AppInv => VoiceFollowsTurn
  BY DEF AppInv, VoiceHyp
<1>2. QED
  BY <1>1, AppAlways, PTL

\* Only the latest refresh installs its result (useVocabDeck): with no refresh
\* under way, and the latest not failed, a card this App wrote last is on screen
\* as it is stored, however the refreshes of saves, ratings and undos overlapped.
THEOREM DeckAlwaysShows == Spec => []DeckShowsOwnWrites
<1>1. AppInv => DeckShowsOwnWrites
  BY DEF AppInv, DeckInv, Shows, DeckShowsOwnWrites
<1>2. QED
  BY <1>1, AppAlways, PTL

\* A lesson whose sentences were all attempted is complete on the device, or its
\* save is under way, or its failure shows (useLessonProgress), whatever reloads
\* land and lessons are opened meanwhile.
THEOREM CompletionNeverForgotten == Spec => []CompletionNotForgotten
<1>1. ASSUME AppInv PROVE CompletionNotForgotten
  <2>1. /\ ~SaveDue(visit, shown.done) /\ CompletionInv /\ shown.done \subseteq store.done
    BY <1>1 DEF AppInv, TypeHyp, VisitTyped, ProgressTyped, Past
  <2>2. QED
    BY <2>1 DEF SaveDue, CompletionInv, Saving, Running, CompletionNotForgotten
<1>2. QED
  BY <1>1, AppAlways, PTL

\* No day introduces more New cards than the limit (capNewCards in ReviewDeck, the
\* await of recordPractice in rate), though the count the queue is capped with is a
\* copy that overlapping reloads replace, however many pages are opened anew and
\* rate: unless a write or a reload lapsed, or a New card was rated during the
\* rating of another, of a page that was left.
THEOREM CapAlwaysHolds == Spec => []CapHolds
<1>1. AppInv => CapHolds
  BY DEF AppInv, CapInv, RoomInv, Orderly, CapHolds, WithinLimit
<1>2. QED
  BY <1>1, AppAlways, PTL

\* Each reached goal is announced, and no other (useDailyGoal): with no call under
\* way the goal was announced just if the day's count meets it, however the saves
\* overlapped, unless one lapsed.
THEOREM GoalAnnounced == Spec => []AnnouncedIffMet
<1>1. ASSUME AppInv PROVE AnnouncedIffMet
  <2>1. GoalMet <=> Meets(shown, at, goal)
    BY <1>1, GoalMetIs DEF AppInv
  <2>2. ASSUME Free = Slots PROVE ~Pending(jobs, goal, at)
    <3>1. \A j \in Slots : jobs[j] = Idle
      BY <2>2 DEF Free
    <3>2. QED
      BY <3>1, IdleKind DEF Pending, CommittedJob, Practices
  <2>3. QED
    BY <1>1, <2>1, <2>2 DEF AppInv, GoalInv, AnnouncedIffMet
<1>2. QED
  BY <1>1, AppAlways, PTL

-----------------------------------------------------------------------------
(* The streak.                                                             *)

\* A finite set of integers has a least one.
LEMMA LeastInteger ==
  ASSUME NEW S \in SUBSET Int, IsFiniteSet(S), S # {}
  PROVE  Min(S) \in S /\ \A n \in S : Min(S) <= n
<1> DEFINE Below(n) == {m \in S : m <= n}
           T == {Below(n) : n \in S}
<1>1. T \subseteq FiniteSubsetsOf(S) /\ T # {}
  <2>1. \A n \in S : IsFiniteSet(Below(n)) /\ Below(n) \subseteq S
    BY FS_Subset
  <2>2. QED
    BY <2>1 DEF FiniteSubsetsOf
<1>2. PICK x \in T : \A y \in T : <<y, x>> \notin StrictSubsetOrdering(S)
  <2> HIDE DEF T
  <2>1. QED
    BY <1>1, WFMin, FS_StrictSubsetOrderingWellFounded
<1>3. PICK m \in S : x = Below(m)
  OBVIOUS
<1>4. ASSUME NEW n \in S, n < m PROVE FALSE
  <2>1. Below(n) \subseteq Below(m) /\ Below(n) # Below(m) /\ Below(m) \subseteq S
    <3>1. n \in Int /\ m \in Int /\ \A k \in S : k \in Int
      OBVIOUS
    <3>2. m \in Below(m) /\ m \notin Below(n)
      BY <1>4, <3>1
    <3>3. \A k \in S : k <= n => k <= m
      BY <1>4, <3>1
    <3>4. QED
      BY <3>2, <3>3
  <2>2. <<Below(n), Below(m)>> \in StrictSubsetOrdering(S)
    BY <2>1 DEF StrictSubsetOrdering
  <2>3. QED
    BY <1>2, <1>3, <2>2
<1>5. \E k \in S : \A n \in S : k <= n
  BY <1>4
<1>6. QED
  BY <1>5 DEF Min

\* The days of a streak as streakState is given them.
Streakable(days, today) == days \subseteq Int /\ IsFiniteSet(days) /\ today \in Int /\ \A d \in days : d <= today

Since(days, today) == Min(days \cup {today})
BeforeAll(today) == [streak |-> 0, freezes |-> 0, last |-> today - 3]
WalkStep(w, days, today, d) ==
  IF d < Since(days, today) THEN {BeforeAll(today)}
  ELSE IF d \in days THEN {WalkDay(s, d) : s \in w[d - 1]} ELSE w[d - 1]
IsWalk(w, days, today) == w = [d \in Since(days, today) - 1..today |-> WalkStep(w, days, today, d)]

\* The walk begins on the first day practised, or today, and ends today.
LEMMA WalkBounds ==
  ASSUME NEW days, NEW today, Streakable(days, today)
  PROVE  /\ Since(days, today) \in Int /\ Since(days, today) <= today /\ Max(days \cup {today}) = today
         /\ days # {} => Since(days, today) \in days /\ \A t \in Int : Streakable(days, t) => Since(days, t) = Since(days, today)
         /\ \A d \in days : Since(days, today) <= d
         /\ days = {} => Since(days, today) = today
<1>1. ASSUME NEW t, Streakable(days, t)
      PROVE  /\ Since(days, t) \in days \cup {t} /\ \A d \in days \cup {t} : Since(days, t) <= d
             /\ Since(days, t) \in Int /\ (days # {} => Since(days, t) \in days)
  <2>1. days \cup {t} \subseteq Int /\ IsFiniteSet(days \cup {t})
    BY <1>1, FS_AddElement DEF Streakable
  <2>2. Since(days, t) \in days \cup {t} /\ \A d \in days \cup {t} : Since(days, t) <= d
    BY <2>1, LeastInteger DEF Since
  <2>3. ASSUME days # {}, Since(days, t) = t PROVE t \in days
    <3>1. PICK d \in days : TRUE
      BY <2>3
    <3>2. t <= d /\ d <= t /\ d \in Int /\ t \in Int
      BY <1>1, <2>2, <2>3, <3>1 DEF Streakable
    <3>3. QED
      BY <3>1, <3>2
  <2>4. QED
    BY <2>1, <2>2, <2>3
<1>2. Max(days \cup {today}) = today
  <2>1. \A x \in days \cup {today} : today >= x /\ x \in Int /\ today \in Int
    BY DEF Streakable
  <2>2. \A x \in days \cup {today} : x >= today => x = today
    BY <2>1
  <2>3. QED
    BY <2>1, <2>2 DEF Max
<1>3. ASSUME NEW t \in Int, Streakable(days, t), days # {} PROVE Since(days, t) = Since(days, today)
  <2>1. Since(days, t) \in days /\ Since(days, today) \in days
    BY <1>1, <1>3
  <2>2. Since(days, t) <= Since(days, today) /\ Since(days, today) <= Since(days, t)
    BY <1>1, <1>3, <2>1
  <2>3. QED
    BY <1>1, <1>3, <2>2
<1>4. QED
  BY <1>1, <1>2, <1>3 DEF Streakable

\* There is such a walk.
LEMMA WalkExists ==
  ASSUME NEW days, NEW today, Streakable(days, today)
  PROVE  \E w : IsWalk(w, days, today)
<1> DEFINE from == Since(days, today) - 1
           Upto(w, n) == \A d \in from..from + n : w[d] = WalkStep(w, days, today, d)
           Bad == {n \in Nat : from + n <= today /\ ~\E w : Upto(w, n)}
<1>0. Since(days, today) \in Int /\ Since(days, today) <= today /\ today \in Int
  BY WalkBounds DEF Streakable
<1>1. from \in Int /\ from + 1 = Since(days, today) /\ from + 1 <= today /\ today \in Int
  BY <1>0
<1>2. ASSUME Bad # {} PROVE FALSE
  <2> DEFINE m == Min(Bad)
             e == from + m
  <2>1. m \in Bad /\ \A n \in Bad : m <= n
    BY <1>2, LeastNumber
  <2>2. m \in Nat /\ e \in Int /\ e <= today
    BY <1>1, <2>1
  <2>3. ASSUME NEW w, \A d \in from..e - 1 : w[d] = WalkStep(w, days, today, d) PROVE FALSE
    <3> DEFINE v == [d \in from..today |-> IF d = e THEN WalkStep(w, days, today, e) ELSE w[d]]
    <3>0. e \in from..today /\ \A d \in from..e - 1 : d \in from..today /\ d # e
      <4>1. from <= e
        BY <1>1, <2>2
      <4> HIDE DEF e, from
      <4>2. QED
        BY <1>1, <2>2, <4>1
    <3>1. v[e] = WalkStep(w, days, today, e) /\ \A d \in from..e - 1 : v[d] = w[d]
      BY <3>0
    <3> HIDE DEF v
    <3>2. \A d \in from..e : d >= Since(days, today) => v[d - 1] = w[d - 1]
      BY <1>1, <2>2, <3>1
    <3>3. \A d \in from..e : WalkStep(v, days, today, d) = WalkStep(w, days, today, d)
      <4> TAKE d \in from..e
      <4>1. d < Since(days, today) \/ v[d - 1] = w[d - 1]
        BY <1>1, <2>2, <3>2
      <4>2. QED
        BY <4>1 DEF WalkStep
    <3>4. Upto(v, m)
      BY <1>1, <2>2, <2>3, <3>1, <3>3
    <3>5. QED
      BY <2>1, <3>4
  <2>4. CASE m = 0
    <3>1. \A d \in from..e - 1 : FALSE
      BY <1>1, <2>2, <2>4
    <3>2. QED
      BY <2>3, <3>1
  <2>5. CASE m # 0
    <3>1. m - 1 \in Nat /\ m - 1 < m /\ from + (m - 1) = e - 1 /\ from + (m - 1) <= today
      BY <1>1, <2>2, <2>5
    <3>2. m - 1 \notin Bad
      <4> HIDE DEF Bad
      <4>1. QED
        BY <2>1, <2>2, <3>1
    <3>3. PICK w : Upto(w, m - 1)
      BY <3>1, <3>2
    <3>4. QED
      BY <2>3, <3>1, <3>3
  <2>6. QED
    BY <2>4, <2>5
<1>3. today - from \in Nat /\ from + (today - from) = today
  BY <1>1
<1>4. PICK w : Upto(w, today - from)
  BY <1>1, <1>2, <1>3
<1> DEFINE v == [d \in from..today |-> w[d]]
<1>5. \A d \in from..today : WalkStep(v, days, today, d) = w[d]
  <2> TAKE d \in from..today
  <2>1. w[d] = WalkStep(w, days, today, d)
    BY <1>3, <1>4
  <2>2. d < Since(days, today) \/ v[d - 1] = w[d - 1]
    BY <1>1
  <2> HIDE DEF v
  <2>3. QED
    BY <2>1, <2>2 DEF WalkStep
<1>6. v = [d \in from..today |-> WalkStep(v, days, today, d)]
  BY <1>5
<1>7. QED
  BY <1>6 DEF IsWalk

\* It is the one that streakState walks.
LEMMA WalkedIs ==
  ASSUME NEW days, NEW today, Streakable(days, today)
  PROVE  \E w : IsWalk(w, days, today) /\ Walked(days, today) = CHOOSE s \in w[today] : TRUE
<1> DEFINE w == CHOOSE w : IsWalk(w, days, today)
<1>1. IsWalk(w, days, today)
  BY WalkExists
<1>2. Max(days \cup {today}) = today
  BY WalkBounds
<1>3. Walked(days, today) = CHOOSE s \in w[Max(days \cup {today})] : TRUE
  <2>1. w = CHOOSE f : f = [d \in Since(days, today) - 1..Max(days \cup {today}) |->
             IF d < Since(days, today) THEN {BeforeAll(today)}
             ELSE IF d \in days THEN {WalkDay(s, d) : s \in f[d - 1]} ELSE f[d - 1]]
    BY <1>2, Zenon DEF IsWalk, WalkStep
  <2>2. QED
    BY <2>1, Zenon DEF Walked, Since, BeforeAll
<1>4. QED
  BY <1>1, <1>2, <1>3

StateT == [streak : Nat, last : Int, freezes : Nat]

\* What a day practised makes of a state.
LEMMA WalkDayType ==
  ASSUME NEW s \in StateT, NEW d \in Int
  PROVE  WalkDay(s, d) \in StateT /\ WalkDay(s, d).last = d
<1> DEFINE spends == s.last = d - 2 /\ s.freezes > 0
           run    == IF s.last = d - 1 \/ spends THEN s.streak + 1 ELSE 1
           held   == IF spends THEN s.freezes - 1 ELSE s.freezes
           kept   == IF run % 7 = 0 THEN Min({MAX_FREEZES, held + 1}) ELSE held
<1>1. run \in Nat /\ held \in Nat
  BY DEF StateT
<1>2. kept \in Nat
  <2>1. {MAX_FREEZES, held + 1} \in SUBSET Nat /\ {MAX_FREEZES, held + 1} # {}
    BY <1>1 DEF MAX_FREEZES
  <2>2. Min({MAX_FREEZES, held + 1}) \in Nat
    BY <2>1, LeastNumber
  <2>3. QED
    BY <1>1, <2>2
<1>3. WalkDay(s, d) = [streak |-> run, last |-> d, freezes |-> kept]
  BY DEF WalkDay
<1> HIDE DEF run, kept
<1>4. QED
  BY <1>1, <1>2, <1>3 DEF StateT

\* The first day practised begins a streak, whatever day it is today.
LEMMA WalkDayFirst ==
  ASSUME NEW t \in Int, NEW d \in Int
  PROVE  BeforeAll(t) \in StateT /\ WalkDay(BeforeAll(t), d) = [streak |-> 1, last |-> d, freezes |-> 0]
<1>1. BeforeAll(t) \in StateT /\ BeforeAll(t).streak = 0 /\ BeforeAll(t).freezes = 0
  BY DEF BeforeAll, StateT
<1>2. 1 % 7 # 0
  OBVIOUS
<1>3. QED
  BY <1>1, <1>2 DEF WalkDay

\* What the walk holds after a day.
LEMMA WalkAt ==
  ASSUME NEW days, NEW today, Streakable(days, today), NEW w, IsWalk(w, days, today)
  PROVE  /\ w[Since(days, today) - 1] = {BeforeAll(today)}
         /\ \A e \in Since(days, today)..today :
              /\ e \in days => w[e] = {WalkDay(s, e) : s \in w[e - 1]}
              /\ e \notin days => w[e] = w[e - 1]
<1> DEFINE since == Since(days, today)
<1>1. since \in Int /\ today \in Int /\ since <= today
  BY WalkBounds DEF Streakable
<1>2. ASSUME NEW e \in since - 1..today PROVE w[e] = WalkStep(w, days, today, e)
  BY <1>2 DEF IsWalk
<1> HIDE DEF since
<1>3. since - 1 \in since - 1..today /\ since - 1 < since
  BY <1>1
<1>4. w[since - 1] = {BeforeAll(today)}
  BY <1>2, <1>3 DEF WalkStep, since
<1>5. ASSUME NEW e \in since..today PROVE e \in since - 1..today /\ ~(e < since)
  BY <1>1
<1>6. \A e \in since..today : w[e] = IF e \in days THEN {WalkDay(s, e) : s \in w[e - 1]} ELSE w[e - 1]
  BY <1>2, <1>5 DEF WalkStep, since
<1>7. QED
  BY <1>4, <1>6 DEF since

\* The last practised day up to d.
LastOf(days, d, l) == l \in days /\ l <= d /\ \A e \in days : e <= d => e <= l

\* From the first day practised the walk holds one state, of the last day practised.
LEMMA WalkIs ==
  ASSUME NEW days, NEW today, Streakable(days, today), days # {}, NEW w, IsWalk(w, days, today),
         NEW d \in Since(days, today)..today
  PROVE  \E s \in StateT : w[d] = {s} /\ LastOf(days, d, s.last)
<1> DEFINE since == Since(days, today)
           Good(e) == \E s \in StateT : w[e] = {s} /\ LastOf(days, e, s.last)
           Bad == {n \in Nat : since + n <= today /\ ~Good(since + n)}
<1>1. /\ since \in days /\ since \in Int /\ today \in Int /\ since <= today
      /\ \A e \in days : e \in Int /\ since <= e
  BY WalkBounds DEF Streakable
<1>2. \A e \in since..today : /\ e \in days => w[e] = {WalkDay(s, e) : s \in w[e - 1]}
                              /\ e \notin days => w[e] = w[e - 1]
  BY WalkAt
<1>3. Good(since)
  <2>1. w[since - 1] = {BeforeAll(today)} /\ since \in since..today
    BY <1>1, WalkAt
  <2>2. w[since] = {WalkDay(s, since) : s \in {BeforeAll(today)}}
    BY <1>1, <1>2, <2>1
  <2>3. WalkDay(BeforeAll(today), since) \in StateT /\ WalkDay(BeforeAll(today), since).last = since
    BY <1>1, WalkDayFirst, WalkDayType
  <2>4. QED
    BY <1>1, <2>2, <2>3 DEF LastOf
<1>4. ASSUME NEW e \in since + 1..today, Good(e - 1) PROVE Good(e)
  <2>1. PICK s \in StateT : w[e - 1] = {s} /\ LastOf(days, e - 1, s.last)
    BY <1>4
  <2>2. e \in Int /\ e \in since..today
    BY <1>1
  <2>3. CASE e \in days
    <3>1. w[e] = {WalkDay(s, e)}
      BY <1>2, <2>1, <2>2, <2>3
    <3>2. WalkDay(s, e) \in StateT /\ WalkDay(s, e).last = e
      BY <2>2, WalkDayType
    <3>3. QED
      BY <1>1, <2>2, <2>3, <3>1, <3>2 DEF LastOf
  <2>4. CASE e \notin days
    <3>1. w[e] = {s}
      BY <1>2, <2>1, <2>2, <2>4
    <3>2. \A f \in days : f <= e => f <= e - 1
      BY <1>1, <2>2, <2>4
    <3>3. LastOf(days, e, s.last)
      BY <1>1, <2>1, <2>2, <3>2 DEF LastOf
    <3>4. QED
      BY <3>1, <3>3
  <2>5. QED
    BY <2>3, <2>4
<1>5. Bad = {}
  <2> SUFFICES ASSUME Bad # {} PROVE FALSE
    OBVIOUS
  <2> DEFINE m == Min(Bad)
  <2>1. m \in Bad /\ \A n \in Bad : m <= n
    BY LeastNumber
  <2> HIDE DEF m, Good
  <2>2. m \in Nat /\ since + m <= today /\ ~Good(since + m)
    BY <2>1
  <2>3. m # 0
    <3>1. m = 0 => since + m = since
      BY <1>1
    <3>2. QED
      BY <1>3, <2>2, <3>1
  <2>4. m - 1 \in Nat /\ m - 1 < m /\ since + (m - 1) = (since + m) - 1 /\ since + (m - 1) <= today
        /\ since + m \in since + 1..today
    BY <1>1, <2>2, <2>3
  <2>5. m - 1 \notin Bad
    <3> HIDE DEF Bad
    <3>1. QED
      BY <2>1, <2>2, <2>4
  <2>6. Good((since + m) - 1)
    BY <2>4, <2>5
  <2>7. QED
    BY <1>4, <2>2, <2>4, <2>6
<1>6. d - since \in Nat /\ since + (d - since) = d /\ d <= today
  BY <1>1
<1> HIDE DEF Good
<1>7. Good(d)
  BY <1>5, <1>6
<1>8. QED
  BY <1>7 DEF Good

\* Two walks through the same days agree, whatever day it is today.
LEMMA WalksAgree ==
  ASSUME NEW days, NEW more, NEW t, NEW u, Streakable(days, t), Streakable(more, u), days # {}, more # {},
         Since(days, t) = Since(more, u), NEW w, NEW v, IsWalk(w, days, t), IsWalk(v, more, u),
         NEW d \in Since(days, t)..t, d <= u,
         \A e \in Since(days, t)..d : e \in days <=> e \in more
  PROVE  w[d] = v[d]
<1> DEFINE since == Since(days, t)
           Bad == {n \in Nat : since + n <= d /\ w[since + n] # v[since + n]}
<1>1. since \in days /\ since \in more /\ since \in Int /\ t \in Int /\ u \in Int /\ since <= t /\ d \in Int
  <2>1. t \in Int /\ u \in Int
    BY DEF Streakable
  <2>2. since \in days /\ since \in Int /\ since <= t /\ Since(more, u) \in more
    BY WalkBounds
  <2>3. QED
    BY <2>1, <2>2
<1>2. \A e \in since..d : /\ e \in days => w[e] = {WalkDay(s, e) : s \in w[e - 1]} /\ v[e] = {WalkDay(s, e) : s \in v[e - 1]}
                          /\ e \notin days => w[e] = w[e - 1] /\ v[e] = v[e - 1]
  <2>1. \A e \in since..d : e \in since..t /\ e \in Since(more, u)..u
    BY <1>1
  <2>2. QED
    BY <2>1, WalkAt
<1>3. w[since] = v[since]
  <2>1. w[since - 1] = {BeforeAll(t)} /\ v[since - 1] = {BeforeAll(u)} /\ since \in since..d
    BY <1>1, WalkAt
  <2>2. w[since] = {WalkDay(s, since) : s \in {BeforeAll(t)}} /\ v[since] = {WalkDay(s, since) : s \in {BeforeAll(u)}}
    BY <1>1, <1>2, <2>1
  <2>3. QED
    BY <1>1, <2>2, WalkDayFirst
<1>4. ASSUME NEW e \in since + 1..d, w[e - 1] = v[e - 1] PROVE w[e] = v[e]
  <2>1. e \in since..d
    BY <1>1
  <2>2. QED
    BY <1>2, <1>4, <2>1
<1>5. Bad = {}
  <2> SUFFICES ASSUME Bad # {} PROVE FALSE
    OBVIOUS
  <2> DEFINE m == Min(Bad)
  <2>1. m \in Bad /\ \A n \in Bad : m <= n
    BY LeastNumber
  <2> HIDE DEF m
  <2>2. m \in Nat /\ since + m <= d /\ w[since + m] # v[since + m]
    BY <2>1
  <2>3. m # 0
    <3>1. m = 0 => since + m = since
      BY <1>1
    <3>2. QED
      BY <1>3, <2>2, <3>1
  <2>4. m - 1 \in Nat /\ m - 1 < m /\ since + (m - 1) = (since + m) - 1 /\ since + (m - 1) <= d
        /\ since + m \in since + 1..d
    BY <1>1, <2>2, <2>3
  <2>5. m - 1 \notin Bad
    <3> HIDE DEF Bad
    <3>1. QED
      BY <2>1, <2>2, <2>4
  <2>6. w[(since + m) - 1] = v[(since + m) - 1]
    BY <2>4, <2>5
  <2>7. QED
    BY <1>4, <2>2, <2>4, <2>6
<1>6. d - since \in Nat /\ since + (d - since) = d
  BY <1>1
<1>7. QED
  BY <1>5, <1>6

\* No day practised: no streak.
LEMMA WalkedNone ==
  ASSUME NEW today, Streakable({}, today)
  PROVE  Walked({}, today) = BeforeAll(today) /\ BeforeAll(today) \in StateT
<1>1. PICK w : IsWalk(w, {}, today) /\ Walked({}, today) = CHOOSE s \in w[today] : TRUE
  BY WalkedIs
<1>2. Since({}, today) = today /\ today \in Int
  BY WalkBounds DEF Streakable
<1>3. w[today] = {BeforeAll(today)}
  BY <1>1, <1>2, WalkAt
<1>4. QED
  BY <1>1, <1>2, <1>3, WalkDayFirst

\* The state after the days, of which it has the last.
LEMMA WalkedState ==
  ASSUME NEW days, NEW today, Streakable(days, today), days # {}, NEW w, IsWalk(w, days, today),
         Walked(days, today) = CHOOSE s \in w[today] : TRUE
  PROVE  /\ w[today] = {Walked(days, today)} /\ Walked(days, today) \in StateT
         /\ LastOf(days, today, Walked(days, today).last)
<1>1. today \in Since(days, today)..today
  <2>1. Since(days, today) \in Int /\ Since(days, today) <= today
    BY WalkBounds
  <2>2. QED
    BY <2>1 DEF Streakable
<1>2. PICK s \in StateT : w[today] = {s} /\ LastOf(days, today, s.last)
  BY <1>1, WalkIs
<1>3. Walked(days, today) = s
  BY <1>2
<1>4. QED
  BY <1>2, <1>3

\* A day that passes adds nothing to the walk.
LEMMA WalkedLater ==
  ASSUME NEW days, NEW today, Streakable(days, today), days # {}
  PROVE  Walked(days, today + 1) = Walked(days, today)
<1>1. Streakable(days, today + 1) /\ today \in Int /\ today + 1 \notin days
  BY DEF Streakable
<1>2. PICK w : IsWalk(w, days, today) /\ Walked(days, today) = CHOOSE s \in w[today] : TRUE
  BY WalkedIs
<1>3. PICK v : IsWalk(v, days, today + 1) /\ Walked(days, today + 1) = CHOOSE s \in v[today + 1] : TRUE
  BY <1>1, WalkedIs
<1>4. Since(days, today + 1) = Since(days, today) /\ Since(days, today) \in Int /\ Since(days, today) <= today
  BY <1>1, WalkBounds
<1>5. w[today] = v[today]
  <2>1. today \in Since(days, today)..today /\ today <= today + 1
    BY <1>1, <1>4
  <2>2. QED
    BY <1>1, <1>2, <1>3, <1>4, <2>1, WalksAgree
<1>6. v[today + 1] = v[(today + 1) - 1]
  <2>1. today + 1 \in Since(days, today + 1)..(today + 1)
    BY <1>1, <1>4
  <2>2. QED
    BY <1>1, <1>3, <2>1, WalkAt
<1>7. v[today + 1] = w[today]
  BY <1>1, <1>5, <1>6
<1>8. QED
  BY <1>2, <1>3, <1>7

\* Practising today is the last step of the walk.
LEMMA WalkedMore ==
  ASSUME NEW days, NEW today, Streakable(days, today), today \notin days
  PROVE  Walked(days \cup {today}, today) = WalkDay(Walked(days, today), today)
<1> DEFINE more == days \cup {today}
<1>0. today \in Int
  BY DEF Streakable
<1>1. Streakable(more, today) /\ more # {} /\ today \in more
  BY FS_AddElement DEF Streakable
<1>2. PICK v : IsWalk(v, more, today) /\ Walked(more, today) = CHOOSE s \in v[today] : TRUE
  BY <1>1, WalkedIs
<1>3. Since(more, today) = Since(days, today) /\ Since(days, today) \in Int /\ Since(days, today) <= today
  <2>1. more \cup {today} = days \cup {today}
    OBVIOUS
  <2>2. QED
    BY <2>1, WalkBounds DEF Since
<1>4. v[today] = {WalkDay(s, today) : s \in v[today - 1]}
  <2>1. today \in Since(more, today)..today
    BY <1>0, <1>3
  <2>2. QED
    BY <1>1, <1>2, <2>1, WalkAt
<1> HIDE DEF more
<1>5. v[today - 1] = {Walked(days, today)}
  <2>1. CASE days = {}
    <3>1. Since(more, today) = today
      BY <1>3, <2>1, WalkBounds
    <3>2. QED
      BY <1>1, <1>2, <2>1, <3>1, WalkAt, WalkedNone
  <2>2. CASE days # {}
    <3>1. PICK w : IsWalk(w, days, today) /\ Walked(days, today) = CHOOSE s \in w[today] : TRUE
      BY WalkedIs
    <3>2. w[today] = {Walked(days, today)}
      BY <2>2, <3>1, WalkedState
    <3>3. Since(days, today) \in days /\ Since(days, today) # today
      <4>1. Since(days, today) \in days
        BY <2>2, WalkBounds
      <4>2. QED
        BY <4>1
    <3>4. /\ today \in Since(days, today)..today /\ today - 1 \in Since(days, today)..today /\ today - 1 <= today
          /\ \A e \in Since(days, today)..today - 1 : e # today
      BY <1>0, <1>3, <3>3
    <3>5. w[today] = w[today - 1]
      BY <3>1, <3>4, WalkAt
    <3>6. w[today - 1] = v[today - 1]
      <4>1. \A e \in Since(days, today)..today - 1 : e \in days <=> e \in more
        BY <3>4 DEF more
      <4> HIDE DEF more
      <4>2. QED
        BY <1>1, <1>2, <1>3, <2>2, <3>1, <3>4, <4>1, WalksAgree
    <3>7. QED
      BY <3>2, <3>5, <3>6
  <2>3. QED
    BY <2>1, <2>2
<1>6. v[today] = {WalkDay(Walked(days, today), today)}
  BY <1>4, <1>5
<1>7. QED
  BY <1>2, <1>6 DEF more

-----------------------------------------------------------------------------
\* The streak as it is shown today: it begins with no day practised, is kept by the
\* last two days, and by the third last for a freeze.
LEMMA StreakIs ==
  ASSUME NEW days, NEW today, Streakable(days, today)
  PROVE  LET w == Walked(days, today)
             s == StreakState(days, today) IN
         /\ w \in StateT /\ today \in Int
         /\ w.last <= today /\ \A d \in {today, today - 1} : w.last = d <=> d \in days /\ \A e \in days : e <= d
         /\ days = {} => w.last = today - 3 /\ w.streak = 0 /\ w.freezes = 0
         /\ s = [streak |-> s.streak, freezes |-> s.freezes]
         /\ w.last >= today - 1 => s.streak = w.streak /\ s.freezes = w.freezes
         /\ w.last = today - 2 /\ w.freezes > 0 => s.streak = w.streak /\ s.freezes = w.freezes - 1
         /\ w.last = today - 2 /\ w.freezes = 0 => s.streak = 0 /\ s.freezes = w.freezes
         /\ w.last < today - 2 => s.streak = 0 /\ s.freezes = w.freezes
<1> DEFINE w == Walked(days, today)
           s == StreakState(days, today)
<1>0. today \in Int /\ \A d \in days : d \in Int /\ d <= today
  BY DEF Streakable
<1>1. CASE days = {}
  <2>1. w = BeforeAll(today) /\ w \in StateT
    BY <1>1, WalkedNone
  <2>2. w.last = today - 3 /\ w.streak = 0 /\ w.freezes = 0
    BY <2>1 DEF BeforeAll
  <2> HIDE DEF w
  <2>3. w.last <= today /\ \A d \in {today, today - 1} : w.last # d
    BY <1>0, <2>2
  <2>4. QED
    BY <1>0, <1>1, <2>1, <2>2, <2>3 DEF w, StreakState
<1>2. CASE days # {}
  <2>1. w \in StateT /\ LastOf(days, today, w.last)
    BY <1>2, WalkedIs, WalkedState
  <2> HIDE DEF w
  <2>2. w.last <= today /\ w.last \in days /\ \A e \in days : e <= w.last
    BY <1>0, <2>1 DEF LastOf
  <2>3. \A d \in days : (\A e \in days : e <= d) => d = w.last
    BY <1>0, <2>2
  <2>4. w.last \in Int /\ w.freezes \in Nat
    BY <2>1 DEF StateT
  <2>5. QED
    BY <1>0, <1>2, <2>1, <2>2, <2>3, <2>4 DEF w, StreakState
<1>3. QED
  BY <1>1, <1>2

\* What was read are days gone by.
DaysInv == \A s \in Seens : \A d \in s.days : d <= s.date

\* What is seen is what was, nothing, or the store.
LEMMA SeensOnly ==
  ASSUME TypeHyp, StepIs
  PROVE  Seens' \subseteq Seens \cup {Unread, Snapshot}
<1>1. shown \in Seens /\ \A j \in Slots : jobs[j] # Idle => jobs[j].seen \in Seens
  BY DEF Seens, Free
<1>2. ASSUME NEW j \in Slots, CommitPractice(j) PROVE Seens' \subseteq Seens \cup {Unread, Snapshot}
  <2>1. /\ jobs[j] \in JobT /\ jobs'[j].seen = jobs[j].seen
        /\ \A i \in Slots \ {j} : jobs'[i] = jobs[i]
    BY <1>2, CommitIs
  <2>2. shown' = shown
    BY <1>2 DEF CommitPractice
  <2>3. \A i \in Slots : jobs'[i] # Idle => jobs'[i].seen \in Seens
    BY <1>1, <2>1, IdleIsNoJob
  <2>4. QED
    BY <1>1, <2>2, <2>3, SeensQuiet
<1>3. ASSUME NEW j \in Slots, CommitComplete(j) PROVE Seens' \subseteq Seens \cup {Unread, Snapshot}
  <2>1. /\ jobs'[j].seen = jobs[j].seen /\ jobs[j] \in JobT
        /\ \A i \in Slots \ {j} : jobs'[i] = jobs[i]
    BY <1>3, CompleteIs
  <2>2. shown' = shown
    BY <1>3 DEF CommitComplete
  <2>3. \A i \in Slots : jobs'[i] # Idle => jobs'[i].seen \in Seens
    BY <1>1, <2>1, IdleIsNoJob
  <2>4. QED
    BY <1>1, <2>2, <2>3, SeensQuiet
<1>4. ASSUME NEW j \in Slots, Read(j) PROVE Seens' \subseteq Seens \cup {Unread, Snapshot}
  <2>1. jobs'[j].seen = Snapshot /\ \A i \in Slots \ {j} : jobs'[i] = jobs[i]
    BY <1>4, ReadIs
  <2>2. shown' = shown
    BY <1>4 DEF Read
  <2>3. QED
    BY <1>1, <2>1, <2>2, SeensQuiet
<1>5. ASSUME NEW j \in Slots, FailWrite(j) \/ FailRead(j) PROVE Seens' \subseteq Seens \cup {Unread, Snapshot}
  <2>1. jobs' = [jobs EXCEPT ![j] = Idle] /\ shown' = shown /\ jobs \in [Slots -> {Idle} \cup JobT]
    BY <1>5 DEF FailWrite, FailRead, Render, TypeHyp, ProgressTyped
  <2>2. \A i \in Slots : jobs'[i] # Idle => jobs'[i].seen \in Seens
    BY <1>1, <2>1
  <2>3. QED
    BY <1>1, <2>1, <2>2, SeensQuiet
<1>6. ASSUME NEW j \in Slots, Lands(j) PROVE Seens' \subseteq Seens \cup {Unread, Snapshot}
  <2>1. jobs[j] # Idle /\ shown' = jobs[j].seen
    BY <1>6, IdleKind DEF Lands, Land, Render
  <2>2. \A i \in Slots : jobs'[i] # Idle => jobs'[i].seen \in Seens \cup {Unread}
    BY <1>6, SeensGoOn DEF Lands, Started
  <2>3. QED
    BY <1>1, <2>1, <2>2, SeensQuiet
<1>7. CASE Quiet(Kinds)
  <2>1. shown' = shown /\ \A j \in Slots : GoesOn(j, Kinds)
    BY <1>7 DEF Quiet
  <2>2. \A i \in Slots : jobs'[i] # Idle => jobs'[i].seen \in Seens \cup {Unread}
    BY <2>1, SeensGoOn
  <2>3. QED
    BY <1>1, <2>1, <2>2, SeensQuiet
<1>8. CASE Midnight \/ \E g \in Goals : ChooseGoal(g)
  <2>1. UNCHANGED <<shown, jobs>>
    BY <1>8 DEF Midnight, ChooseGoal
  <2>2. QED
    BY <1>1, <2>1, SeensQuiet
<1>9. QED
  BY <1>2, <1>3, <1>4, <1>5, <1>6, <1>7, <1>8 DEF StepIs, ProgressStep

\* Nor does the store hold days to come.
LEMMA SnapshotDays ==
  ASSUME TypeHyp, CountInv
  PROVE  \A d \in Snapshot.days : d <= Snapshot.date
<1>1. Snapshot.days = PracticeDays /\ PracticeDays = Practised(store) /\ Snapshot.date = day /\ day \in Nat
  BY SnapshotIs, DaysNat DEF TypeHyp, ProgressTyped, Snapshot
<1>2. \A d \in store.past : d \in Int /\ d <= 0
  BY ProgressAssumption DEF TypeHyp, ProgressTyped, StoreT
<1>3. \A d \in Days : d \in Nat /\ store.actions[d] \in Nat /\ (d > day => store.actions[d] = 0)
  BY SeensTyped, DaysNat DEF CountInv
<1>4. \A d \in Practised(store) : d <= day
  BY <1>1, <1>2, <1>3 DEF Practised
<1>5. QED
  BY <1>1, <1>4

\* It stays so: the store has no practice of days to come.
LEMMA DaysKeep ==
  ASSUME TypeHyp, CountInv, DaysInv, StepIs
  PROVE  DaysInv'
<1>1. Unread.days = {}
  BY DEF Unread
<1>2. QED
  BY <1>1, SeensOnly, SnapshotDays DEF DaysInv

\* So no day on screen is to come.
LEMMA DaysAlways == Spec => [](AppInv /\ DaysInv)
<1>1. Init => DaysInv
  <2> SUFFICES ASSUME Init PROVE DaysInv
    OBVIOUS
  <2>1. AppInv
    BY InitApp
  <2>2. shown = Snapshot /\ \A j \in Slots : jobs[j] = Idle
    BY DEF Init, ProgressInit
  <2>3. Seens = {Snapshot}
    BY <2>2 DEF Seens, Free
  <2>4. QED
    BY <2>1, <2>3, SnapshotDays DEF DaysInv, AppInv
<1>2. AppInv /\ DaysInv /\ SceneTyped /\ LibraryInv' /\ [Next]_vars => DaysInv'
  <2> SUFFICES ASSUME AppInv, DaysInv, SceneTyped, LibraryInv', [Next]_vars PROVE DaysInv'
    OBVIOUS
  <2>1. TypeHyp /\ CountInv /\ StepIs
    BY NextSteps DEF AppInv, RatingHyp, DeckHyp
  <2>2. QED
    BY <2>1, DaysKeep
<1>3. QED
  BY <1>1, <1>2, AppAlways, LibraryAlways, PTL DEF Spec

\* What an action that renders does to the streak.
StreakStep ==
  LET practised == at' = at /\ at \notin shown.days /\ shown'.days = shown.days \cup {at}
      passed    == at' = at + 1 /\ shown'.days = shown.days
      earned    == IF (Streak.streak + 1) % 7 = 0 THEN Min({MAX_FREEZES, Streak.freezes + 1}) ELSE Streak.freezes
  IN /\ practised => Streak' = [streak |-> Streak.streak + 1, freezes |-> earned]
     /\ passed => CASE at \in shown.days -> Streak' = Streak
                    [] at \notin shown.days /\ at - 1 \in shown.days /\ Streak.freezes > 0 ->
                         Streak' = [Streak EXCEPT !.freezes = @ - 1]
                    [] OTHER -> Streak'.streak = 0 /\ Streak'.freezes >= Streak.freezes

\* What is on screen is a finite set of days up to that of the last render.
LEMMA StreakableShown ==
  ASSUME TypeHyp, DaysInv
  PROVE  Streakable(shown.days, at) /\ at \in Nat
<1>1. shown \in Seens /\ shown.date \in Nat /\ shown.date <= at /\ at \in Nat /\ shown.days \subseteq Practised(store)
  BY SeensTyped, DaysNat DEF Seens, TypeHyp, ProgressTyped, Past
<1>2. store.past \subseteq Int /\ IsFiniteSet(store.past)
  BY ProgressAssumption DEF TypeHyp, ProgressTyped, StoreT
<1>3. Days \subseteq Nat /\ IsFiniteSet(Days)
  <2>1. 1 \in Int /\ LastDay \in Int
    BY ProgressAssumption
  <2>2. QED
    BY <2>1, DaysNat, FS_Interval DEF Days
<1>4. IsFiniteSet(Practised(store)) /\ Practised(store) \subseteq Int
  <2>1. {d \in Days : store.actions[d] > 0} \subseteq Days
    OBVIOUS
  <2>2. IsFiniteSet({d \in Days : store.actions[d] > 0})
    BY <1>3, <2>1, FS_Subset
  <2>3. QED
    <3> DEFINE D == {d \in Days : store.actions[d] > 0}
    <3>1. IsFiniteSet(store.past \cup D)
      BY <1>2, <2>2, FS_Union
    <3>2. D \subseteq Int
      <4>1. \A d \in Days : d \in Int
        BY <1>3
      <4>2. QED
        BY <4>1
    <3>3. Practised(store) = store.past \cup D
      BY DEF Practised
    <3>4. QED
      BY <1>2, <3>1, <3>2, <3>3
<1>5. IsFiniteSet(shown.days) /\ shown.days \subseteq Int
  BY <1>1, <1>4, FS_Subset
<1>6. \A d \in shown.days : d <= shown.date
  BY <1>1 DEF DaysInv
<1>7. \A d \in shown.days : d <= at
  BY <1>1, <1>5, <1>6
<1>8. QED
  BY <1>1, <1>5, <1>7 DEF Streakable

\* The first practice of a day.
LEMMA StreakPractised ==
  ASSUME NEW days, NEW today, Streakable(days, today), today \notin days
  PROVE  LET s == StreakState(days, today) IN
         StreakState(days \cup {today}, today) =
           [streak  |-> s.streak + 1,
            freezes |-> IF (s.streak + 1) % 7 = 0 THEN Min({MAX_FREEZES, s.freezes + 1}) ELSE s.freezes]
<1> DEFINE w == Walked(days, today)
           s == StreakState(days, today)
           more == days \cup {today}
           v == Walked(more, today)
           t == StreakState(more, today)
           spends == w.last = today - 2 /\ w.freezes > 0
           run    == IF w.last = today - 1 \/ spends THEN w.streak + 1 ELSE 1
           held   == IF spends THEN w.freezes - 1 ELSE w.freezes
<1>0. Streakable(more, today)
  BY FS_AddElement DEF Streakable
<1>1. v = WalkDay(w, today)
  BY WalkedMore
<1>2. v = [streak |-> run, last |-> today, freezes |-> IF run % 7 = 0 THEN Min({MAX_FREEZES, held + 1}) ELSE held]
  BY <1>1 DEF WalkDay
<1>3. /\ w \in StateT /\ today \in Int /\ w.last <= today /\ w.last # today
      /\ w.last >= today - 1 => s.streak = w.streak /\ s.freezes = w.freezes
      /\ w.last = today - 2 /\ w.freezes > 0 => s.streak = w.streak /\ s.freezes = w.freezes - 1
      /\ w.last = today - 2 /\ w.freezes = 0 => s.streak = 0 /\ s.freezes = w.freezes
      /\ w.last < today - 2 => s.streak = 0 /\ s.freezes = w.freezes
  BY StreakIs
<1>4. t = [streak |-> t.streak, freezes |-> t.freezes] /\ (v.last >= today - 1 => t.streak = v.streak /\ t.freezes = v.freezes)
  <2> HIDE DEF more, t, v
  <2>1. t = StreakState(more, today) /\ v = Walked(more, today)
    BY DEF t, v
  <2>2. QED
    BY <1>0, <2>1, StreakIs
<1>5. w.last \in Int /\ w.freezes \in Nat /\ w.streak \in Nat
  BY <1>3 DEF StateT
<1> HIDE DEF w, s, v, t
<1>6. run = s.streak + 1 /\ held = s.freezes
  BY <1>3, <1>5
<1>7. v.last = today /\ today >= today - 1
  BY <1>2, <1>3
<1> HIDE DEF run, held
<1>8. v.streak = s.streak + 1 /\ v.freezes = IF (s.streak + 1) % 7 = 0 THEN Min({MAX_FREEZES, s.freezes + 1}) ELSE s.freezes
  BY <1>2, <1>6
<1>9. QED
  BY <1>4, <1>7, <1>8 DEF s, t

\* A day that passes without one.
LEMMA StreakPassed ==
  ASSUME NEW days, NEW today, Streakable(days, today)
  PROVE  LET s == StreakState(days, today)
             t == StreakState(days, today + 1) IN
         /\ today \in days => t = s
         /\ today \notin days /\ today - 1 \in days /\ s.freezes > 0 => t = [s EXCEPT !.freezes = @ - 1]
         /\ today \notin days /\ ~(today - 1 \in days /\ s.freezes > 0) => t.streak = 0 /\ t.freezes >= s.freezes
<1> DEFINE w == Walked(days, today)
           s == StreakState(days, today)
           v == Walked(days, today + 1)
           t == StreakState(days, today + 1)
<1>0. Streakable(days, today + 1) /\ today \in Int /\ \A d \in days : d \in Int /\ d <= today
  BY DEF Streakable
<1>1. /\ w \in StateT /\ w.last <= today
      /\ (w.last = today <=> today \in days) /\ (today \notin days => (w.last = today - 1 <=> today - 1 \in days))
      /\ days = {} => w.last = today - 3 /\ w.streak = 0 /\ w.freezes = 0
      /\ s = [streak |-> s.streak, freezes |-> s.freezes]
      /\ w.last >= today - 1 => s.streak = w.streak /\ s.freezes = w.freezes
      /\ w.last = today - 2 /\ w.freezes > 0 => s.streak = w.streak /\ s.freezes = w.freezes - 1
      /\ w.last = today - 2 /\ w.freezes = 0 => s.streak = 0 /\ s.freezes = w.freezes
      /\ w.last < today - 2 => s.streak = 0 /\ s.freezes = w.freezes
  <2>1. /\ w \in StateT /\ w.last <= today /\ \A d \in {today, today - 1} : w.last = d <=> d \in days /\ \A e \in days : e <= d
        /\ days = {} => w.last = today - 3 /\ w.streak = 0 /\ w.freezes = 0
        /\ s = [streak |-> s.streak, freezes |-> s.freezes]
        /\ w.last >= today - 1 => s.streak = w.streak /\ s.freezes = w.freezes
        /\ w.last = today - 2 /\ w.freezes > 0 => s.streak = w.streak /\ s.freezes = w.freezes - 1
        /\ w.last = today - 2 /\ w.freezes = 0 => s.streak = 0 /\ s.freezes = w.freezes
        /\ w.last < today - 2 => s.streak = 0 /\ s.freezes = w.freezes
    BY StreakIs
  <2>2. today \notin days => \A e \in days : e <= today - 1
    BY <1>0
  <2>3. \A e \in days : e <= today
    BY <1>0
  <2>4. (w.last = today <=> today \in days) /\ (today \notin days => (w.last = today - 1 <=> today - 1 \in days))
    BY <2>1, <2>2, <2>3
  <2>5. QED
    BY <2>1, <2>4
<1>2. /\ days = {} => v.last = (today + 1) - 3 /\ v.streak = 0 /\ v.freezes = 0
      /\ t = [streak |-> t.streak, freezes |-> t.freezes]
      /\ v.last >= (today + 1) - 1 => t.streak = v.streak /\ t.freezes = v.freezes
      /\ v.last = (today + 1) - 2 /\ v.freezes > 0 => t.streak = v.streak /\ t.freezes = v.freezes - 1
      /\ v.last = (today + 1) - 2 /\ v.freezes = 0 => t.streak = 0 /\ t.freezes = v.freezes
      /\ v.last < (today + 1) - 2 => t.streak = 0 /\ t.freezes = v.freezes
  BY <1>0, StreakIs
<1>3. w.last \in Int /\ w.freezes \in Nat /\ w.streak \in Nat
  BY <1>1 DEF StateT
<1>4. days # {} => v = w
  BY WalkedLater
<1> HIDE DEF w, s, v, t
<1>5. CASE days = {}
  <2>1. t.streak = 0 /\ t.freezes = 0 /\ s.freezes = 0
    BY <1>0, <1>1, <1>2, <1>5
  <2>2. QED
    BY <1>5, <2>1 DEF s, t
<1>6. CASE days # {}
  <2>1. today \in days => t.streak = s.streak /\ t.freezes = s.freezes
    BY <1>0, <1>1, <1>2, <1>3, <1>4, <1>6
  <2>2. today \notin days /\ today - 1 \in days /\ s.freezes > 0 => t.streak = s.streak /\ t.freezes = s.freezes - 1
    BY <1>0, <1>1, <1>2, <1>3, <1>4, <1>6
  <2>3. today \notin days /\ ~(today - 1 \in days /\ s.freezes > 0) => t.streak = 0 /\ t.freezes >= s.freezes
    BY <1>0, <1>1, <1>2, <1>3, <1>4, <1>6
  <2>4. t.streak = s.streak /\ t.freezes = s.freezes => t = s
    BY <1>1, <1>2
  <2>5. [s EXCEPT !.freezes = @ - 1] = [streak |-> s.streak, freezes |-> s.freezes - 1]
    <3>1. \A a, b : [[streak |-> a, freezes |-> b] EXCEPT !.freezes = @ - 1] = [streak |-> a, freezes |-> b - 1]
      OBVIOUS
    <3>2. QED
      BY <1>1, <3>1
  <2>6. t.streak = s.streak /\ t.freezes = s.freezes - 1 => t = [s EXCEPT !.freezes = @ - 1]
    BY <1>2, <2>5
  <2>7. QED
    BY <2>1, <2>2, <2>3, <2>4, <2>6 DEF s, t
<1>7. QED
  BY <1>5, <1>6

\* Every 7th consecutive day earns a freeze, a single missed day spends one
\* (streakState): from one render to the next the streak of the Today card moves as
\* promised, however many days were practised before and whatever refreshes landed.
THEOREM StreakAlwaysMoves == Spec => StreakMoves
<1>1. ASSUME AppInv, DaysInv PROVE StreakStep
  <2>1. Streakable(shown.days, at) /\ at \in Nat
    BY <1>1, StreakableShown DEF AppInv
  <2>2. ASSUME at' = at, at \notin shown.days, shown'.days = shown.days \cup {at}
        PROVE  Streak' = [streak |-> Streak.streak + 1,
                          freezes |-> IF (Streak.streak + 1) % 7 = 0 THEN Min({MAX_FREEZES, Streak.freezes + 1}) ELSE Streak.freezes]
    <3>1. Streak' = StreakState(shown.days \cup {at}, at)
      BY <2>2 DEF Streak
    <3>2. QED
      BY <2>1, <2>2, <3>1, StreakPractised DEF Streak
  <2>3. ASSUME at' = at + 1, shown'.days = shown.days
        PROVE  /\ at \in shown.days => Streak' = Streak
               /\ at \notin shown.days /\ at - 1 \in shown.days /\ Streak.freezes > 0 => Streak' = [Streak EXCEPT !.freezes = @ - 1]
               /\ at \notin shown.days /\ ~(at - 1 \in shown.days /\ Streak.freezes > 0) =>
                    Streak'.streak = 0 /\ Streak'.freezes >= Streak.freezes
    <3>1. Streak' = StreakState(shown.days, at + 1)
      BY <2>3 DEF Streak
    <3>2. QED
      BY <2>1, <3>1, StreakPassed DEF Streak
  <2>4. QED
    BY <2>2, <2>3 DEF StreakStep
<1>2. QED
  BY <1>1, DaysAlways, PTL DEF StreakMoves, StreakStep

-----------------------------------------------------------------------------
(* The missed words.                                                       *)

\* MissedIsListed, and what a visit's quizzes are.
ListedOnce(v) ==
  /\ v.missed \in Seq(WordT) /\ Distinct(v.missed)
  /\ \A entry \in ToSet(v.missed) : entry.word \in ToSet(Text[entry.sentence]) /\ entry.sentence \in Attempted(v)
AtMostOne(S) == \E x : S \subseteq {x}
ResultsListed(v) ==
  \A s \in Sentences : \A answer \in v.checked[s] \ {<<>>} :
    Marked(v.view, s, answer) \cap CardWords \subseteq WordsOf(v.missed)
QuizInv == /\ ListedOnce(visit) /\ ResultsListed(visit)
           /\ AtMostOne(visit.selected) /\ \A s \in Sentences : AtMostOne(visit.checked[s])

\* A step, as the quizzes see it: w is v after it.
Untouched(v, w) == w.missed = v.missed /\ w.selected = v.selected /\ v.practised \subseteq w.practised
SameQuiz(v, w) == Untouched(v, w) /\ w.checked = v.checked /\ w.view = v.view
Checked(v, w, s, answer, words) ==
  /\ w.checked = [v.checked EXCEPT ![s] = {answer}] /\ w.view = v.view /\ w.selected = v.selected
  /\ v.practised \subseteq w.practised
  /\ words \subseteq ToSet(Text[s])
  /\ \/ answer = <<>> /\ w.missed = v.missed
     \/ s \in Attempted(w) /\ Extends(w.missed, v.missed, words, s)
  /\ answer # <<>> => words = Marked(v.view, s, answer)
Selects(v, w, entry) == w.missed = v.missed /\ w.practised = v.practised /\ w.checked = v.checked /\ w.view = v.view
                        /\ w.selected = {entry}
QuizStep ==
  \/ SameQuiz(visit, visit') \/ Unvisited(visit')
  \/ \E s \in Sentences : \E answer, words : Checked(visit, visit', s, answer, words)
  \/ \E entry : Selects(visit, visit', entry)
  \/ Untouched(visit, visit') /\ \E s \in Sentences : visit'.view = visit.view /\ visit'.checked = [visit.checked EXCEPT ![s] = {}]
  \/ Untouched(visit, visit') /\ visit'.checked = NoneChecked

\* A list that only grew still shows what it showed.
LEMMA ListedKept ==
  ASSUME NEW v, NEW w, ListedOnce(v), w.missed = v.missed, v.practised \subseteq w.practised
  PROVE  ListedOnce(w)
<1>1. Attempted(v) \subseteq Attempted(w)
  BY DEF Attempted
<1>2. QED
  BY <1>1 DEF ListedOnce

\* The abstract step of the quizzes keeps their invariant.
LEMMA QuizKeeps ==
  ASSUME VisitTyped, QuizInv, QuizStep
  PROVE  QuizInv'
<1> DEFINE v == visit
           w == visit'
<1>1. /\ ListedOnce(v) /\ ResultsListed(v) /\ AtMostOne(v.selected) /\ \A s \in Sentences : AtMostOne(v.checked[s])
      /\ DOMAIN v.checked = Sentences
  BY DEF QuizInv, VisitTyped, VisitT
<1>2. SUFFICES ListedOnce(w) /\ ResultsListed(w) /\ AtMostOne(w.selected) /\ \A s \in Sentences : AtMostOne(w.checked[s])
  BY DEF QuizInv, ListedOnce, ResultsListed, AtMostOne, Attempted
<1> HIDE DEF v, w
<1>3. QuizStep => \/ SameQuiz(v, w) \/ Unvisited(w)
                  \/ \E s \in Sentences : \E answer, words : Checked(v, w, s, answer, words)
                  \/ \E entry : Selects(v, w, entry)
                  \/ Untouched(v, w) /\ \E s \in Sentences : w.view = v.view /\ w.checked = [v.checked EXCEPT ![s] = {}]
                  \/ Untouched(v, w) /\ w.checked = NoneChecked
  BY DEF QuizStep, v, w
<1>4. CASE SameQuiz(v, w)
  <2>1. ListedOnce(w)
    BY <1>1, <1>4, ListedKept DEF SameQuiz, Untouched
  <2>2. QED
    BY <1>1, <1>4, <2>1 DEF SameQuiz, Untouched, ResultsListed
<1>5. CASE Unvisited(w)
  <2>1. w.missed = <<>> /\ w.selected = {} /\ w.view = "shadow" /\ w.checked = NoneChecked
    BY <1>5 DEF Unvisited
  <2>2. <<>> \in Seq(WordT) /\ ToSet(<<>>) = {} /\ DOMAIN <<>> = {}
    BY DEF ToSet
  <2>3. ListedOnce(w)
    BY <2>1, <2>2 DEF ListedOnce, Distinct
  <2>4. \A s \in Sentences : w.checked[s] = {}
    BY <2>1 DEF NoneChecked
  <2>5. QED
    BY <2>1, <2>3, <2>4 DEF ResultsListed, AtMostOne
<1>6. ASSUME NEW s \in Sentences, NEW answer, NEW words, Checked(v, w, s, answer, words)
      PROVE  ListedOnce(w) /\ ResultsListed(w) /\ AtMostOne(w.selected) /\ \A t \in Sentences : AtMostOne(w.checked[t])
  <2>1. /\ \A t \in Sentences : w.checked[t] = IF t = s THEN {answer} ELSE v.checked[t]
        /\ w.view = v.view /\ w.selected = v.selected /\ v.practised \subseteq w.practised /\ words \subseteq ToSet(Text[s])
    BY <1>1, <1>6 DEF Checked
  <2>2. (\A t \in Sentences : AtMostOne(w.checked[t])) /\ AtMostOne(w.selected)
    BY <1>1, <2>1 DEF AtMostOne
  <2>3. ListedOnce(w)
    <3>1. CASE w.missed = v.missed
      BY <1>1, <2>1, <3>1, ListedKept
    <3>2. CASE s \in Attempted(w) /\ Extends(w.missed, v.missed, words, s)
      <4>1. Attempted(v) \subseteq Attempted(w)
        BY <2>1 DEF Attempted
      <4>2. QED
        BY <1>1, <2>1, <3>2, <4>1 DEF ListedOnce, Extends
    <3>3. QED
      BY <1>6, <3>1, <3>2 DEF Checked
  <2>4. WordsOf(v.missed) \subseteq WordsOf(w.missed)
    BY <1>6 DEF Checked, Extends
  <2>5. ResultsListed(w)
    <3>1. ASSUME NEW t \in Sentences, NEW a \in w.checked[t], a # <<>>
          PROVE  Marked(w.view, t, a) \cap CardWords \subseteq WordsOf(w.missed)
      <4>1. CASE t = s
        <5>1. a = answer /\ words = Marked(w.view, s, answer) /\ Extends(w.missed, v.missed, words, s)
          BY <1>6, <2>1, <3>1, <4>1 DEF Checked
        <5>2. QED
          BY <4>1, <5>1 DEF Extends
      <4>2. CASE t # s
        <5>1. a \in v.checked[t] \ {<<>>} /\ v.view = w.view
          BY <2>1, <3>1, <4>2
        <5>2. Marked(w.view, t, a) \cap CardWords \subseteq WordsOf(v.missed)
          BY <1>1, <5>1 DEF ResultsListed
        <5>3. QED
          BY <2>4, <5>2
      <4>3. QED
        BY <4>1, <4>2
    <3>2. QED
      BY <3>1 DEF ResultsListed
  <2>6. QED
    BY <2>2, <2>3, <2>5
<1>7. ASSUME NEW entry, Selects(v, w, entry)
      PROVE  ListedOnce(w) /\ ResultsListed(w) /\ AtMostOne(w.selected) /\ \A t \in Sentences : AtMostOne(w.checked[t])
  <2>1. ListedOnce(w)
    BY <1>1, <1>7, ListedKept DEF Selects
  <2>2. AtMostOne(w.selected)
    BY <1>7 DEF Selects, AtMostOne
  <2>3. QED
    BY <1>1, <1>7, <2>1, <2>2 DEF Selects, ResultsListed
<1>8. ASSUME NEW s \in Sentences, Untouched(v, w), w.view = v.view, w.checked = [v.checked EXCEPT ![s] = {}]
      PROVE  ListedOnce(w) /\ ResultsListed(w) /\ AtMostOne(w.selected) /\ \A t \in Sentences : AtMostOne(w.checked[t])
  <2>1. ListedOnce(w) /\ AtMostOne(w.selected)
    BY <1>1, <1>8, ListedKept DEF Untouched
  <2>2. \A t \in Sentences : w.checked[t] \subseteq v.checked[t]
    BY <1>1, <1>8
  <2>3. \A t \in Sentences : AtMostOne(w.checked[t])
    BY <1>1, <2>2 DEF AtMostOne
  <2>4. ResultsListed(w)
    BY <1>1, <1>8, <2>2 DEF Untouched, ResultsListed
  <2>5. QED
    BY <2>1, <2>3, <2>4
<1>9. CASE Untouched(v, w) /\ w.checked = NoneChecked
  <2>1. ListedOnce(w) /\ AtMostOne(w.selected)
    BY <1>1, <1>9, ListedKept DEF Untouched
  <2>2. \A t \in Sentences : w.checked[t] = {}
    BY <1>9 DEF NoneChecked
  <2>3. QED
    BY <2>1, <2>2 DEF ResultsListed, AtMostOne
<1>10. QED
  BY <1>3, <1>4, <1>5, <1>6, <1>7, <1>8, <1>9

\* What leaves the quizzes alone is a step of them.
LEMMA SameIs == SameQuiz(visit, visit') => QuizStep
BY DEF QuizStep

\* So is what leaves the visit alone.
LEMMA UnchangedIs == visit' = visit => QuizStep
<1>1. visit' = visit => SameQuiz(visit, visit')
  BY DEF SameQuiz, Untouched
<1>2. QED
  BY <1>1, SameIs

\* Practice in a visit that v differs from in its missed words and checked answers.
LEMMA PracticeQuiz ==
  ASSUME NEW v, v \in VisitT(v.missed), NEW s \in Sentences, NEW mode, Practice(v, s, mode)
  PROVE  /\ visit'.missed = v.missed /\ visit'.selected = v.selected /\ visit'.checked = v.checked /\ visit'.view = v.view
         /\ v.practised \subseteq visit'.practised /\ s \in Attempted(visit')
<1> DEFINE w == [v EXCEPT !.practised = v.practised \cup {<<s, mode>>}]
           due == SaveDue(w, shown.done)
<1>1. /\ w.missed = v.missed /\ w.selected = v.selected /\ w.checked = v.checked /\ w.view = v.view
      /\ w.practised = v.practised \cup {<<s, mode>>} /\ DOMAIN w = DOMAIN v
      /\ DOMAIN v = {"lesson", "practised", "missed", "started", "failed", "view", "checked", "selected"}
  BY DEF VisitT
<1>2. \E js : WithSave([v EXCEPT !.practised = @ \cup {<<s, mode>>}], shown.done, js)
  BY DEF Practice
<1>3. PICK js : WithSave(w, shown.done, js)
  BY <1>2
<1> HIDE DEF w
<1>4. visit' = [w EXCEPT !.started = @ \/ due]
  BY <1>3 DEF WithSave
<1> HIDE DEF due
<1>5. /\ visit'.missed = w.missed /\ visit'.selected = w.selected /\ visit'.checked = w.checked /\ visit'.view = w.view
      /\ visit'.practised = w.practised
  BY <1>1, <1>4
<1>6. <<s, mode>> \in visit'.practised /\ <<s, mode>>[1] = s
  BY <1>1, <1>5
<1>7. s \in Attempted(visit')
  BY <1>6 DEF Attempted
<1>8. QED
  BY <1>1, <1>5, <1>7

\* A check is a step of the quizzes: its result is shown, its missed words are listed.
LEMMA CheckQuiz ==
  ASSUME VisitTyped, ListedOnce(visit), NEW s \in Sentences, NEW answer \in Answers, NEW missed \in Seq(ToSet(Text[s])),
         Check(s, answer, missed), answer # <<>> => ToSet(missed) = Marked(visit.view, s, answer)
  PROVE  QuizStep
<1> DEFINE v == [visit EXCEPT !.checked[s] = {answer}]
<1>1. /\ v.missed = visit.missed /\ v.selected = visit.selected /\ v.view = visit.view /\ v.practised = visit.practised
      /\ v.checked = [visit.checked EXCEPT ![s] = {answer}] /\ v \in VisitT(v.missed)
  BY DEF VisitTyped, VisitT
<1>2. IF answer = <<>> THEN visit' = v ELSE Practice(Miss(v, s, missed), s, visit.view)
  BY DEF Check
<1> HIDE DEF v
<1>3. ToSet(missed) \subseteq ToSet(Text[s])
  BY DEF ToSet
<1>4. SUFFICES Checked(visit, visit', s, answer, ToSet(missed))
  BY DEF QuizStep
<1>5. CASE answer = <<>>
  <2>1. visit' = v
    BY <1>2, <1>5
  <2>2. visit'.missed = visit.missed /\ visit'.selected = visit.selected /\ visit'.view = visit.view
        /\ visit.practised \subseteq visit'.practised /\ visit'.checked = [visit.checked EXCEPT ![s] = {answer}]
    BY <1>1, <2>1
  <2>3. QED
    BY <1>3, <1>5, <2>2 DEF Checked
<1>6. CASE answer # <<>>
  <2>1. v.missed \in Seq(WordT) /\ Distinct(v.missed)
    BY <1>1 DEF ListedOnce
  <2>2. PICK l : Miss(v, s, missed) = [v EXCEPT !.missed = l] /\ Extends(l, v.missed, ToSet(missed), s)
    BY <2>1, MissIs
  <2> DEFINE w == Miss(v, s, missed)
  <2>3. /\ w.missed = l /\ w \in VisitT(w.missed) /\ w.selected = v.selected /\ w.checked = v.checked /\ w.view = v.view
        /\ w.practised = v.practised
    BY <1>1, <2>2 DEF VisitT
  <2>4. Practice(w, s, visit.view)
    BY <1>2, <1>6
  <2> HIDE DEF w
  <2>5. /\ visit'.missed = w.missed /\ visit'.selected = w.selected /\ visit'.checked = w.checked /\ visit'.view = w.view
        /\ w.practised \subseteq visit'.practised /\ s \in Attempted(visit')
    BY <2>3, <2>4, PracticeQuiz
  <2>6. Extends(visit'.missed, visit.missed, ToSet(missed), s)
    BY <1>1, <2>2, <2>3, <2>5
  <2>7. QED
    BY <1>1, <1>3, <1>6, <2>3, <2>5, <2>6 DEF Checked
<1>7. QED
  BY <1>5, <1>6

\* Every handler of an open lesson is a step of the quizzes.
LEMMA LessonQuiz ==
  ASSUME TypeHyp, ListedOnce(visit), SceneTyped, Lesson
  PROVE  QuizStep
<1>1. scene.modes \subseteq Modes /\ scene.views \subseteq Views /\ scene.answers \subseteq Answers
  BY LearnerAssumption DEF SceneTyped, Modes
<1>2. VisitTyped /\ visit \in VisitT(visit.missed) /\ Answers \subseteq Seq(Words)
  BY QuizAssumption DEF TypeHyp, VisitTyped
<1>3. CASE RetrySave
  BY <1>3, UnchangedIs DEF RetrySave
<1>4. ASSUME NEW s \in Sentences, NEW mode \in scene.modes, Shadow(s, mode) PROVE QuizStep
  <2>1. Practice(visit, s, mode)
    BY <1>4 DEF Shadow
  <2>2. SameQuiz(visit, visit')
    BY <1>2, <2>1, PracticeQuiz DEF SameQuiz, Untouched
  <2>3. QED
    BY <2>2, SameIs
<1>5. ASSUME NEW s \in Sentences, NEW answer \in scene.answers, CheckDictation(s, answer) PROVE QuizStep
  <2>1. answer \in Answers /\ answer \in Seq(Words) /\ Text[s] \in Seq(Words)
    BY <1>1, <1>2, QuizAssumption
  <2>2. MissedWords(answer, Text[s]) \in Seq(ToSet(Text[s])) /\ Check(s, answer, MissedWords(answer, Text[s]))
    BY <1>5, <2>1, MissedWordsType DEF CheckDictation
  <2>3. ToSet(MissedWords(answer, Text[s])) = Marked(visit.view, s, answer)
    BY <1>5 DEF CheckDictation, Marked
  <2>4. QED
    BY <1>2, <2>1, <2>2, <2>3, CheckQuiz
<1>6. ASSUME NEW s \in Sentences, NEW answer \in scene.answers, CheckBlank(s, answer) PROVE QuizStep
  <2> DEFINE missed == IF answer = <<Blank(s)>> THEN <<>> ELSE <<Blank(s)>>
  <2>1. visit.view = "blank" /\ BlankFor(Text[s]) # 0 /\ Check(s, answer, missed)
    BY <1>6 DEF CheckBlank
  <2>2. Blank(s) \in ToSet(Text[s])
    BY <2>1, BlankIs
  <2>3. missed \in Seq(ToSet(Text[s]))
    <3>1. ASSUME NEW X, NEW b \in X PROVE <<>> \in Seq(X) /\ <<b>> \in Seq(X)
      OBVIOUS
    <3>2. QED
      BY <2>2, <3>1
  <2>4. ToSet(missed) = Marked(visit.view, s, answer)
    <3>1. ASSUME NEW b PROVE ToSet(<<b>>) = {b} /\ ToSet(<<>>) = {}
      BY DEF ToSet
    <3>2. Marked(visit.view, s, answer) = IF answer = <<Blank(s)>> THEN {} ELSE {Blank(s)}
      BY <2>1 DEF Marked
    <3>3. QED
      BY <3>1, <3>2
  <2> HIDE DEF missed
  <2>5. QED
    BY <1>1, <1>2, <2>1, <2>3, <2>4, CheckQuiz
<1>7. ASSUME NEW s \in Sentences, NEW word \in CardWords, SelectWord(s, word) PROVE QuizStep
  <2>1. visit' = [visit EXCEPT !.selected = {WordOf(word, s)}]
    BY <1>7 DEF SelectWord
  <2>2. Selects(visit, visit', WordOf(word, s))
    BY <1>2, <2>1 DEF Selects, VisitT
  <2>3. QED
    BY <2>2 DEF QuizStep
<1>8. ASSUME NEW s \in Sentences, TryAgain(s) PROVE QuizStep
  <2>1. visit' = [visit EXCEPT !.checked[s] = {}]
    BY <1>8 DEF TryAgain
  <2>2. Untouched(visit, visit') /\ visit'.view = visit.view /\ visit'.checked = [visit.checked EXCEPT ![s] = {}]
    BY <1>2, <2>1 DEF Untouched, VisitT
  <2>3. QED
    BY <2>2 DEF QuizStep
<1>9. ASSUME NEW view \in Views, ChooseView(view) PROVE QuizStep
  <2>1. visit' = [visit EXCEPT !.view = view, !.checked = NoneChecked]
    BY <1>9 DEF ChooseView
  <2>2. Untouched(visit, visit') /\ visit'.checked = NoneChecked
    BY <1>2, <2>1 DEF Untouched, VisitT
  <2>3. QED
    BY <2>2 DEF QuizStep
<1>10. QED
  BY <1>1, <1>3, <1>4, <1>5, <1>6, <1>7, <1>8, <1>9 DEF Lesson

\* The answer of a save says nothing of the quizzes.
LEMMA AnswerQuiz ==
  ASSUME VisitTyped, NEW j, NEW failed \in BOOLEAN
  PROVE  LET v == Answered(j, failed) IN
         /\ v.missed = visit.missed /\ v.selected = visit.selected /\ v.checked = visit.checked /\ v.view = visit.view
         /\ v.practised = visit.practised /\ v \in VisitT(v.missed)
BY DEF VisitTyped, VisitT, Answered

\* So is every commit and answer of a save of progress.
LEMMA SaveQuiz ==
  ASSUME VisitTyped, NEW j, NEW done, NEW js, WithSave(Answered(j, FALSE), done, js)
  PROVE  SameQuiz(visit, visit')
<1> DEFINE v == Answered(j, FALSE)
           due == SaveDue(v, done)
<1>1. /\ v.missed = visit.missed /\ v.selected = visit.selected /\ v.checked = visit.checked /\ v.view = visit.view
      /\ v.practised = visit.practised /\ v \in VisitT(v.missed)
  BY AnswerQuiz
<1>2. visit' = [v EXCEPT !.started = @ \/ due]
  BY DEF WithSave
<1> HIDE DEF v, due
<1>3. /\ visit'.missed = v.missed /\ visit'.selected = v.selected /\ visit'.checked = v.checked /\ visit'.view = v.view
      /\ visit'.practised = v.practised
  BY <1>1, <1>2 DEF VisitT
<1>4. QED
  BY <1>1, <1>3 DEF SameQuiz, Untouched

\* So is every step of the App.
LEMMA NextQuiz ==
  ASSUME TypeHyp, ListedOnce(visit), SceneTyped, [Next]_vars
  PROVE  QuizStep
<1>0. VisitTyped
  BY DEF TypeHyp
<1>1. CASE ProgressCalls
  <2>1. PICK j \in Slots : Commit(j) \/ ReadProgress(j) \/ LandProgress(j) \/ WriteFails(j) \/ ReadFails(j)
    BY <1>1 DEF ProgressCalls
  <2>2. CASE Commit(j) \/ ReadProgress(j)
    BY <2>2, UnchangedIs DEF Commit, ReadProgress
  <2>3. CASE WriteFails(j) \/ ReadFails(j)
    <3>1. visit' = Answered(j, TRUE) \/ visit' = Answered(j, FALSE)
      BY <2>3 DEF WriteFails, ReadFails, VisitFailWrite, VisitFailRead
    <3>2. SameQuiz(visit, visit')
      BY <1>0, <3>1, AnswerQuiz DEF SameQuiz, Untouched
    <3>3. QED
      BY <3>2, SameIs
  <2>4. CASE LandProgress(j)
    <3>1. WithSave(Answered(j, FALSE), jobs[j].seen.done, [jobs EXCEPT ![j] = Idle])
      BY <2>4 DEF LandProgress, VisitLand
    <3>2. SameQuiz(visit, visit')
      BY <1>0, <3>1, SaveQuiz
    <3>3. QED
      BY <3>2, SameIs
  <2>5. QED
    BY <2>1, <2>2, <2>3, <2>4
<1>2. CASE AppStep \/ ListStep
  <2>1. visit' = visit \/ \E lesson : visit' = [NoVisit EXCEPT !.lesson = lesson]
    BY <1>2 DEF AppStep, ListStep, PagesFollow, VisitFollows
  <2>2. ASSUME NEW lesson, visit' = [NoVisit EXCEPT !.lesson = lesson] PROVE Unvisited(visit')
    BY <2>2 DEF NoVisit, Unvisited
  <2>3. QED
    BY <2>1, <2>2, UnchangedIs DEF QuizStep
<1>3. CASE Lesson
  BY <1>3, LessonQuiz
<1>4. CASE Elsewhere \/ UNCHANGED vars \/ ReviewPage \/ DeckRefreshes \/ DeckLands \/ Ratings \/ SaveButtons \/ Background
  <2>1. visit' = visit
    BY <1>4 DEF Elsewhere, vars, pageVars, ReviewPage, DeckRefreshes, DeckLands, Ratings, SaveButtons, Background
  <2>2. QED
    BY <2>1, UnchangedIs
<1>5. QED
  BY <1>1, <1>2, <1>3, <1>4 DEF Next

\* The quizzes start with nothing listed and nothing shown.
LEMMA InitQuiz == Init => QuizInv
<1> SUFFICES ASSUME visit = NoVisit PROVE QuizInv
  BY DEF Init, VisitInit
<1>1. <<>> \in Seq(WordT) /\ ToSet(<<>>) = {} /\ DOMAIN <<>> = {}
  BY DEF ToSet
<1>2. visit.missed = <<>> /\ visit.selected = {} /\ visit.view = "shadow" /\ \A s \in Sentences : visit.checked[s] = {}
  BY DEF NoVisit, NoneChecked
<1>3. QED
  BY <1>1, <1>2 DEF QuizInv, ListedOnce, ResultsListed, AtMostOne, Distinct

\* The App's invariant and that of the quizzes hold of every reachable state.
LEMMA QuizAlways == Spec => [](AppInv /\ QuizInv)
<1>1. AppInv /\ QuizInv /\ SceneTyped /\ [Next]_vars => QuizInv'
  <2>1. ASSUME AppInv, QuizInv, SceneTyped, [Next]_vars PROVE QuizInv'
    <3>1. TypeHyp /\ VisitTyped /\ ListedOnce(visit)
      BY <2>1 DEF AppInv, TypeHyp, QuizInv
    <3>2. QuizStep
      BY <2>1, <3>1, NextQuiz
    <3>3. QED
      BY <2>1, <3>1, <3>2, QuizKeeps
  <2>2. QED
    BY <2>1
<1>2. QED
  BY <1>1, InitQuiz, AppAlways, LibraryAlways, PTL DEF Spec

\* "Card words missed in a typed answer this visit, in first-occurrence order,
\* each under the sentence where it was first missed" (useLessonProgress): for
\* every text and every answer, a word is listed once, under a practised sentence
\* that has it, and a card word that a result on screen, of a dictation or of a
\* blank, marks as missed in what was typed is listed.
THEOREM MissedAlwaysListed == Spec => []MissedIsListed
<1>1. ASSUME QuizInv PROVE MissedIsListed
  <2>1. ListedOnce(visit) /\ ResultsListed(visit)
    BY <1>1 DEF QuizInv
  <2>2. WordsOf(visit.missed) = {entry.word : entry \in ToSet(visit.missed)}
    BY DEF WordsOf
  <2>3. QED
    BY <2>1, <2>2 DEF ListedOnce, Distinct, ResultsListed, MissedIsListed
<1>2. QED
  BY <1>1, QuizAlways, PTL

-----------------------------------------------------------------------------
(* Types.                                                                  *)

\* The days practised are those of the progress and of before.
LEMMA PracticeDaysIs ==
  ASSUME store \in StoreT
  PROVE  PracticeDays = Practised(store)
BY DEF PracticeDays, Practised, StoreT

\* What a call reads of the store is of the type of what was read.
LEMMA SnapIs ==
  ASSUME ProgressTyped, NEW s \in SnapT, Past(s, day, store)
  PROVE  s \in [date : 1..day, actions : Nat, new : Nat, days : SUBSET PracticeDays, done : SUBSET store.done]
<1>1. s.date \in 1..day /\ s.days \subseteq PracticeDays /\ s.done \subseteq store.done
  <2>1. s.date \in Nat /\ s.date >= 1 /\ day \in Nat /\ s.date <= day
    BY DaysNat DEF SnapT, Past, ProgressTyped, Days
  <2>2. QED
    BY <2>1, PracticeDaysIs DEF Past, ProgressTyped
<1>2. QED
  BY <1>1 DEF SnapT

\* The type of progress, from what its proofs keep of it.
LEMMA ProgressType == ProgressTyped => ProgressTypeOK
<1> SUFFICES ASSUME ProgressTyped PROVE ProgressTypeOK
  OBVIOUS
<1> DEFINE Seen == [date : 1..day, actions : Nat, new : Nat, days : SUBSET PracticeDays, done : SUBSET store.done]
<1>1. day \in Days /\ at \in 1..day /\ day \in Nat
  BY DaysNat DEF ProgressTyped, Days
<1>2. store \in [actions : [Days -> Nat], new : [Days -> Nat], past : Pasts, done : SUBSET Lessons]
  BY DEF ProgressTyped, StoreT
<1>3. shown \in Seen
  BY SnapIs DEF ProgressTyped
<1>4. ASSUME NEW j \in Slots, jobs[j] # Idle
      PROVE  jobs[j] \in [kind : {"practice", "rating", "complete", "reload"}, new : BOOLEAN,
                          pc : {"saving", "reading", "landing"}, lesson : Lessons \cup {NoLesson},
                          date : 1..day, got : Nat, seen : Seen, owned : BOOLEAN]
  <2>1. jobs[j] \in JobT /\ jobs[j].date <= day /\ Past(jobs[j].seen, day, store)
    BY <1>4 DEF ProgressTyped
  <2>2. jobs[j].seen \in Seen
    BY <2>1, SnapIs DEF JobT
  <2>3. jobs[j].date \in 1..day
    BY <1>1, <2>1, DaysNat DEF JobT, Days
  <2> HIDE DEF Seen
  <2>4. QED
    BY <2>1, <2>2, <2>3 DEF JobT, Kinds
<1>5. goal \in Goals /\ announced \in BOOLEAN /\ lapsed \in BOOLEAN
  BY DEF ProgressTyped
<1>6. QED
  BY <1>1, <1>2, <1>3, <1>4, <1>5 DEF ProgressTypeOK

\* At most one, counted.
LEMMA AtMostOneIs ==
  ASSUME NEW S, AtMostOne(S)
  PROVE  Cardinality(S) <= 1
<1>1. PICK x : S = {} \/ S = {x}
  BY DEF AtMostOne
<1>2. CASE S = {}
  <2>1. Cardinality(S) = 0
    BY <1>2, FS_EmptySet
  <2>2. QED
    BY <2>1
<1>3. CASE S = {x}
  <2>1. Cardinality(S) = 1
    BY <1>3, FS_Singleton
  <2>2. QED
    BY <2>1
<1>4. QED
  BY <1>1, <1>2, <1>3

\* The type of a visit and its quizzes.
LEMMA QuizType == VisitTyped /\ QuizInv => QuizTypeOK
<1> SUFFICES ASSUME VisitTyped, QuizInv PROVE QuizTypeOK
  OBVIOUS
<1>1. visit \in VisitT(visit.missed) /\ (visit.lesson = NoLesson => Unvisited(visit))
  BY DEF VisitTyped
<1>2. visit.lesson = NoLesson => visit = NoVisit
  <2>1. visit = [lesson |-> visit.lesson, practised |-> visit.practised, missed |-> visit.missed, started |-> visit.started,
                 failed |-> visit.failed, view |-> visit.view, checked |-> visit.checked, selected |-> visit.selected]
    BY <1>1 DEF VisitT
  <2>2. Unvisited(visit) => visit.started = FALSE /\ visit.failed = FALSE
    BY <1>1 DEF VisitT, Unvisited
  <2>3. QED
    BY <1>1, <2>1, <2>2 DEF Unvisited, NoVisit
<1>3. VisitTypeOK
  BY <1>1, <1>2 DEF VisitT, VisitTypeOK, Modes
<1>4. visit.missed \in Seq([word : CardWords, sentence : Sentences])
  BY DEF QuizInv, ListedOnce, WordT
<1>5. visit.selected \subseteq [word : CardWords, sentence : Sentences] /\ Cardinality(visit.selected) <= 1
  BY <1>1, AtMostOneIs DEF QuizInv, VisitT, WordT
<1>6. \A s \in Sentences : visit.checked[s] \subseteq Answers /\ Cardinality(visit.checked[s]) <= 1
  BY <1>1, AtMostOneIs DEF QuizInv, VisitT
<1>7. QED
  BY <1>3, <1>4, <1>5, <1>6 DEF QuizTypeOK

\* The type of the saves of cards.
LEMMA SavesType == SavesTyped => SavesTypeOK
<1> SUFFICES ASSUME SavesTyped PROVE SavesTypeOK
  OBVIOUS
<1>1. \A i \in Savers : saves[i] # NoSave => saves[i] \in SaveT /\ (saves[i].pc = "refreshing" <=> saves[i].fetch \in Fetches)
  BY DEF SavesTyped
<1>2. toasts \subseteq [card : DOMAIN cards, version : 0..MaxVersion + 1]
  BY DEF SavesTyped
<1>3. QED
  BY <1>1, <1>2 DEF SavesTypeOK, SaveT

\* The type of the library.
LEMMA LibraryType == LibraryInv => LibraryTypeOK
BY DEF LibraryInv, LibraryTyped, Ordered, NavT, Routes, Mount, Waits, Listed, LibraryTypeOK

\* Of every state of the App: what the progress on screen and every call under
\* way have seen is of a day and of a progress that were; at most one word is
\* selected and one answer shown of a sentence; a removal is undone of a card
\* that is stored; a lesson on screen has its visit, and the review deck its
\* turn, and no other page has (App).
THEOREM TypesHold == Spec => []TypeOK
<1>1. AppInv /\ LibraryInv /\ QuizInv => TypeOK
  BY ProgressType, QuizType, SavesType, LibraryType DEF AppInv, TypeHyp, DeckHyp, PageInv, TypeOK
<1>2. QED
  BY <1>1, AppAlways, LibraryAlways, QuizAlways, PTL

\* "Word-level edit distance" (diffWords): for every text and every answer, the
\* result of a dictation shows every word of the sentence and every word typed,
\* in order, and no alignment of the two marks fewer words as wrong.
THEOREM ResultAlwaysBest == Spec => []ResultIsBestAlignment
<1>1. ASSUME AppInv PROVE ResultIsBestAlignment
  <2>1. visit.checked \in [Sentences -> SUBSET Answers]
    BY <1>1 DEF AppInv, TypeHyp, VisitTyped, VisitT
  <2>2. ASSUME NEW s \in Sentences, NEW answer \in visit.checked[s]
        PROVE  LET diff == DiffWords(answer, Text[s])
                   text == Entries(diff, {"correct", "replaced", "missed"})
                   typed == Entries(diff, {"correct", "replaced", "extra"}) IN
               /\ [i \in DOMAIN text |-> text[i].word] = Text[s]
               /\ [i \in DOMAIN typed |-> IF typed[i].kind = "correct" THEN typed[i].word ELSE typed[i].typed] = answer
               /\ Len(Entries(diff, {"replaced", "missed", "extra"})) = LeastWrong[s][answer]
    <3>1. Text[s] \in Seq(Words) /\ answer \in Answers /\ answer \in Seq(Words)
      BY <2>1, QuizAssumption
    <3>2. LeastWrong[s][answer] = Min({Wrong(pairs, Text[s], answer) : pairs \in Alignments(Len(Text[s]), Len(answer))})
      BY <3>1 DEF LeastWrong
    <3>3. LeastWrong[s][answer] = Cost(Text[s], answer)[<<1, 1>>]
      BY <3>1, <3>2, LeastIsCost
    <3>4. BestResult(Text[s], answer)
      BY <3>1, ResultIs
    <3>5. QED
      BY <3>3, <3>4 DEF BestResult, OfText, OfTyped, OfWrong, TypedOf
  <2>3. QED
    BY <2>2 DEF ResultIsBestAlignment
<1>2. QED
  BY <1>1, AppAlways, PTL
=============================================================================
