------------------------------ MODULE Library ------------------------------
(***************************************************************************)
(* The way through the App: the hash route and where the focus goes        *)
(* (useAppNavigation), the lists of the library and the lesson it opens    *)
(* (LessonList, useLessons, useLesson), and the learner's own lessons      *)
(* (useUserLessons, ImportTextForm, UserLessonList).                       *)
(*                                                                         *)
(* Every call on the own lessons is a write, if it has one, and then a     *)
(* reload that nothing orders with the others.  What a lesson or the       *)
(* review deck does while it is open is the subject of other modules.      *)
(***************************************************************************)
EXTENDS Integers, SequencesExt

CONSTANTS
  LibraryLessons, \* ids the server knows
  OwnLessons,     \* ids of lessons created here
  Order,          \* the order in which lists show lessons
  OwnCalls        \* bound: calls on the own lessons under way at once

ASSUME LibraryAssumption ==
  /\ LibraryLessons \cap OwnLessons = {}
  /\ Order \in Seq(LibraryLessons \cup OwnLessons) /\ IsInjective(Order)
  /\ IsFiniteSet(OwnCalls) /\ OwnCalls \subseteq Nat

VARIABLES
  nav,   \* the route shown and the URL's; pending focus: returnTo, heading; lastLesson
  lists, \* useLessons of the library's list, useLesson of the open lesson
  own,   \* the own lessons: stored, ever created, and on screen
  calls  \* loads, creations and deletions of own lessons under way

libraryVars == <<nav, lists, own, calls>>

NoId == "none"
Page(view) == [view |-> view, id |-> NoId]
LessonRoute(id) == [view |-> IF id \in OwnLessons THEN "my" ELSE "lesson", id |-> id]
Malformed == Page("malformed") \* a hash that parseRoute refuses
LessonRoutes == {LessonRoute(id) : id \in LibraryLessons \cup OwnLessons}
Pages == {Page(view) : view \in {"library", "review", "manage", "about"}}

\* What takes a pending return focus in the manage view.
ImportTitle == "import-title"
YourData == "your-data"

NoCall == [kind |-> "none"]
\* mounted: the form that awaits the call is; overtaken: a later read has landed;
\* after: the calls that had read before and not landed yet.
OwnCall(kind, id) ==
  [kind |-> kind, id |-> id, pc |-> IF kind = "load" THEN "reading" ELSE "writing", seen |-> {}, failed |-> FALSE,
   after |-> {}, overtaken |-> FALSE, mounted |-> TRUE]

Loaded(o) == o.state = "loaded"
Found(route, o) == route.view = "my" /\ Loaded(o) /\ route.id \in o.lessons

\* The lesson that is open on screen.
Shown(n, l, o) ==
  IF Found(n.route, o) \/ (n.route.view = "lesson" /\ l.lesson = "loaded") THEN n.route.id ELSE NoId
LessonOnScreen == Shown(nav, lists, own)

-----------------------------------------------------------------------------
(* What follows a change, until the next: redirection, mounts and focus. *)

\* "A user-lesson route whose lesson is unknown or deleted shows the library,
\* and the URL follows."
Redirected(n, o) ==
  IF n.route.view = "my" /\ o.state # "loading" /\ ~Found(n.route, o)
  THEN [n EXCEPT !.route = Page("library"), !.url = Page("library")] ELSE n

\* The library's list and the lesson load when they mount; l.instant: at once.
Mounted(n, l) ==
  LET new == IF l.instant THEN "loaded" ELSE "loading" IN
  [l EXCEPT !.library = IF n.route.view # "library" THEN "none" ELSE IF @ = "none" THEN new ELSE @,
            !.lesson  = IF n.route.view # "lesson" THEN "none" ELSE IF n.route = nav.route /\ @ # "none" THEN @ ELSE new]

\* The rows and headings on screen that take a focus that names them.
LibraryRows(l) == IF l.library = "loaded" THEN LibraryLessons ELSE {}
OwnRows(o) == IF Loaded(o) THEN o.lessons ELSE {}
Rows(n, l, o) ==
  CASE n.route.view = "library" -> LibraryRows(l) \cup OwnRows(o)
    [] n.route.view = "manage"  -> {ImportTitle, YourData}
    [] OTHER -> {}

\* ViewHeading is on screen: not while a lesson loads.
HasHeading(n, l, o) ==
  CASE n.route.view = "lesson" -> l.lesson # "loading"
    [] n.route.view = "my"     -> Found(n.route, o)
    [] OTHER -> TRUE

Settled(l, o) == l.library \in {"loaded", "failed"} /\ o.state # "loading"

\* A row takes the focus as it renders, before settleReturnFocus, which gives a
\* focus that no row took to the heading; settling: one of the lists has settled.
Focused(n, l, o, settling) ==
  LET taken == n.returnTo \in Rows(n, l, o)
      fell  == n.returnTo # NoId /\ ~taken /\ settling /\ Settled(l, o)
  IN [n EXCEPT !.returnTo = IF taken \/ fell THEN NoId ELSE @,
               !.heading  = (@ \/ fell) /\ ~HasHeading(n, l, o)]

\* mutant of Rendered: the own lessons do not settle a return focus
RenderedUnsettled(n, l, o, landed) ==
  LET to == Redirected(n, o)
      m  == Mounted(to, l)
      f  == Focused(to, m, o, m.library # lists.library)
  IN /\ nav' = [f EXCEPT !.last = IF f.route.view = "lesson" \/ Found(f.route, o) THEN f.route ELSE @]
     /\ lists' = m /\ own' = o

\* The change made n of the navigation, l of the lists and o of the own lessons;
\* landed: setLessons was called.
Rendered(n, l, o, landed) ==
  LET to == Redirected(n, o)
      m  == Mounted(to, l)
      f  == Focused(to, m, o, landed \/ m.library # lists.library)
  IN /\ nav' = [f EXCEPT !.last = IF f.route.view = "lesson" \/ Found(f.route, o) THEN f.route ELSE @]
     /\ lists' = m /\ own' = o

\* The form is unmounted with its view.
CallsIn(cs) == [i \in OwnCalls |-> IF cs[i].kind = "create" /\ nav'.route.view # "manage"
                                   THEN [cs[i] EXCEPT !.mounted = FALSE] ELSE cs[i]]

-----------------------------------------------------------------------------
(* Navigation. *)

\* show: a user view change focuses its heading, or the row that it returns to.
ShowRoute(next, returnTo) == [nav EXCEPT !.route = next, !.returnTo = returnTo, !.heading = returnTo = NoId]

To(next, returnTo) == [ShowRoute(next, returnTo) EXCEPT !.url = next]
Navigate(next, returnTo) == Rendered(To(next, returnTo), lists, own, FALSE) /\ calls' = CallsIn(calls)

\* The header, the footer, and buttons of several views.
GoTo(page) == Navigate(page, NoId)
GoToRow(row) == Navigate(Page("manage"), row)

OpenLesson(id) ==
  /\ nav.route.view = "library" /\ id \in Rows(nav, lists, own)
  /\ Navigate(LessonRoute(id), NoId)

\* Next lesson, of the summary: the one after this in the list it is from.
NextLesson ==
  LET list  == IF nav.route.view = "my" THEN own.lessons ELSE LibraryLessons
      after == {j \in DOMAIN Order : Order[j] \in list /\ \E i \in 1..(j - 1) : Order[i] = LessonOnScreen}
  IN /\ LessonOnScreen \in list /\ after # {}
     /\ Navigate(LessonRoute(Order[Min(after)]), NoId)

\* Continue practising.
Continued ==
  /\ nav.last # Page("none") /\ nav.last # nav.route
  /\ Navigate(nav.last, NoId)

Back ==
  /\ nav.route.view \in {"lesson", "my"} /\ HasHeading(nav, lists, own)
  /\ Navigate(Page("library"), nav.route.id)

\* Back, Forward or an edit of the hash; the event comes later.
ChangeUrl(url) ==
  /\ url # nav.url
  /\ nav' = [nav EXCEPT !.url = url]
  /\ UNCHANGED <<lists, own, calls>>

\* follow: a repeat, or what a navigation has overtaken, is ignored.
Follow ==
  LET next == IF nav.url = Malformed THEN Page("library") ELSE nav.url IN
  /\ nav.url # nav.route
  /\ IF next = nav.route THEN nav' = [nav EXCEPT !.url = next] /\ UNCHANGED <<lists, own, calls>>
     ELSE Navigate(next, IF next.view = "library" THEN nav.route.id ELSE NoId)

-----------------------------------------------------------------------------
(* The lists and the lesson. *)

LibraryLoads(state) ==
  /\ lists.library = "loading"
  /\ Rendered(nav, [lists EXCEPT !.library = state], own, FALSE)
  /\ UNCHANGED calls

\* Retry moves the focus to the heading.
RetryLibrary ==
  /\ lists.library = "failed"
  /\ Rendered([nav EXCEPT !.heading = TRUE], [lists EXCEPT !.library = "loading"], own, FALSE)
  /\ UNCHANGED calls

LessonLoads(state) ==
  /\ lists.lesson = "loading"
  /\ Rendered(nav, [lists EXCEPT !.lesson = state], own, FALSE)
  /\ UNCHANGED calls

-----------------------------------------------------------------------------
(* The own lessons. *)

FreeCalls == {i \in OwnCalls : calls[i] = NoCall}
StartCall(call) == FreeCalls # {} /\ calls' = [calls EXCEPT ![Min(FreeCalls)] = call]

\* submit, of a text that createUserLesson accepts; isCreatingRef lets one
\* through at a time.
Create(id) ==
  /\ nav.route.view = "manage" /\ \A i \in OwnCalls : ~(calls[i].kind = "create" /\ calls[i].mounted)
  /\ id \notin own.created
  /\ StartCall(OwnCall("create", id))
  /\ own' = [own EXCEPT !.created = @ \cup {id}]
  /\ UNCHANGED <<nav, lists>>

\* Delete, confirmed: nothing keeps a second one from starting.
Delete(id) ==
  /\ nav.route.view = "library" /\ Loaded(own) /\ id \in own.lessons
  /\ StartCall(OwnCall("delete", id))
  /\ UNCHANGED <<nav, lists, own>>

\* mutant of CommitWrite: the list on screen goes while it is reloaded
CommitWriteLoading(i) ==
  /\ calls[i] # NoCall /\ calls[i].pc = "writing"
  /\ Rendered(nav, lists, [own EXCEPT !.stored = IF calls[i].kind = "create" THEN @ \cup {calls[i].id} ELSE @ \ {calls[i].id},
                                      !.state = "loading", !.lessons = {}], TRUE)
  /\ calls' = [calls EXCEPT ![i].pc = "reading"]

CommitWrite(i) ==
  /\ calls[i] # NoCall /\ calls[i].pc = "writing"
  /\ own' = [own EXCEPT !.stored = IF calls[i].kind = "create" THEN @ \cup {calls[i].id} ELSE @ \ {calls[i].id}]
  /\ calls' = [calls EXCEPT ![i].pc = "reading"]
  /\ UNCHANGED <<nav, lists>>

\* "Unable to create lesson", or "Couldn't delete": no reload.
FailOwnWrite(i) ==
  /\ calls[i] # NoCall /\ calls[i].pc = "writing"
  /\ calls' = [calls EXCEPT ![i] = NoCall]
  /\ UNCHANGED <<nav, lists, own>>

Landing == {i \in OwnCalls : calls[i] # NoCall /\ calls[i].pc = "landing"}

ReadOwn(i) ==
  /\ calls[i] # NoCall /\ calls[i].pc = "reading"
  /\ \E failed \in BOOLEAN :
       calls' = [calls EXCEPT ![i].pc = "landing", ![i].seen = IF failed THEN {} ELSE own.stored,
                              ![i].failed = failed, ![i].after = Landing]
  /\ UNCHANGED <<nav, lists, own>>

\* setLessons, and then the caller: a created lesson is opened, wherever the
\* learner is by now.
LandOwn(i) ==
  /\ i \in Landing
  /\ LET o == [own EXCEPT !.state = IF calls[i].failed THEN "failed" ELSE "loaded", !.lessons = calls[i].seen]
         n == IF calls[i].kind = "create" THEN To(LessonRoute(calls[i].id), NoId) ELSE nav
         rest == [j \in OwnCalls |-> IF j = i THEN NoCall
                    ELSE IF calls[j] = NoCall THEN NoCall
                    ELSE [calls[j] EXCEPT !.overtaken = @ \/ j \in calls[i].after, !.after = @ \ {i}]]
     IN Rendered(n, lists, o, TRUE) /\ calls' = CallsIn(rest)

-----------------------------------------------------------------------------

\* routes: where the App may be opened; stored: the own lessons kept from before;
\* instant: bound, lists load at once.
LibraryInit(routes, stored, instant) ==
  /\ own = [stored |-> stored, created |-> stored, state |-> IF instant THEN "loaded" ELSE "loading",
            lessons |-> IF instant THEN stored ELSE {}]
  /\ \E route \in routes :
       LET new == IF instant THEN "loaded" ELSE "loading" IN
       /\ nav = [route |-> route, url |-> route, returnTo |-> NoId, heading |-> FALSE,
                 last |-> IF route.view = "lesson" THEN route ELSE Page("none")]
       /\ lists = [library |-> IF route.view = "library" THEN new ELSE "none",
                   lesson |-> IF route.view = "lesson" THEN new ELSE "none", instant |-> instant]
  /\ calls = [i \in OwnCalls |-> IF ~instant /\ i = Min(OwnCalls) THEN OwnCall("load", NoId) ELSE NoCall]

LibraryTypeOK ==
  /\ nav.route \in Pages \cup LessonRoutes /\ nav.url \in Pages \cup LessonRoutes \cup {Malformed}
  /\ nav.returnTo \in LibraryLessons \cup OwnLessons \cup {NoId, ImportTitle, YourData}
  /\ nav.returnTo # NoId => ~nav.heading
  /\ nav.last \in LessonRoutes \cup {Page("none")}
  /\ (lists.library = "none") <=> (nav.route.view # "library")
  /\ (lists.lesson = "none") <=> (nav.route.view # "lesson")
  /\ own.stored \subseteq own.created /\ own.lessons \subseteq own.created
  /\ own.state # "loaded" => own.lessons = {}

\* "Once both lesson lists have settled, a return focus no row took goes to the
\* view's h1 instead of dropping to <body>.  Either list may settle last", and
\* "a pending return focus is dropped once the user moves on" (useAppNavigation):
\* a return focus waits only in the library, for a list that loads.
FocusTaken == nav.returnTo # NoId => nav.route.view = "library" /\ ~Settled(lists, own)

\* A lesson of the learner's own that is open and stored is not closed under
\* them by a reload, unless the reload failed, was overtaken by a later one
\* (useUserLessons has no guard), or ends the creation of another lesson.
LessonStaysOpen ==
  [][\A id \in OwnLessons :
       LessonOnScreen = id /\ LessonOnScreen' # id /\ own' # own /\ id \in own.stored' =>
         \E i \in Landing : calls'[i] = NoCall /\ (calls[i].kind = "create" \/ calls[i].failed \/ calls[i].overtaken)]_libraryVars
=============================================================================
