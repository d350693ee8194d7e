----------------------------- MODULE MCLearner -----------------------------
(* Small instances of Learner. *)
EXTENDS Learner

Scene(parts, lessons, views, answers, goals) ==
  [parts |-> parts, lessons |-> lessons, views |-> views, answers |-> answers, goals |-> goals,
   modes |-> ShadowModes, cards |-> {}, version |-> 0, offers |-> {}, days |-> 1, pasts |-> {{}}]

FourAnswers == {<<>>, <<"at">>, <<"tea", "time">>, <<"time", "tea">>}

\* Lessons over a midnight; a streak over several; the quizzes of lessons; saving
\* what they missed, a word of the transcript, a sentence; a deck of several
\* cards; one card with speech; the library and own lessons, that load and fail to.
Practising == [Scene({"lapses", "reloads"}, {"lesson"}, {"shadow"}, {}, Goals) EXCEPT !.days = 2]
Streaks    == [Scene({}, {"lesson"}, {"shadow"}, {}, {2}) EXCEPT !.days = 3, !.pasts = Pasts]
Quizzing   == Scene({}, {"lesson", "lesson2"}, Quizzes, FourAnswers, {2})
Saving     == [Scene({"saves", "review"}, {"lesson"}, {"dictation"}, {<<"tea", "at", "7:00">>}, {2}) EXCEPT !.offers = {4}]
Selecting  == [Scene({"saves"}, {"lesson"}, {"shadow", "dictation"}, {}, {2}) EXCEPT !.offers = {4}, !.modes = {}]
Keeping    == [Selecting EXCEPT !.offers = {6}]
Reviewing  == [Scene({"review", "refreshes", "lapses"}, {}, {}, {}, {1}) EXCEPT !.cards = {1, 2}, !.version = 1]
Reopening  == [Scene({"review", "reopens", "lapses"}, {}, {}, {}, {1}) EXCEPT !.cards = {1, 2}, !.version = 1]
Speaking   == [Scene({"review", "refreshes", "speech"}, {}, {}, {}, {1}) EXCEPT !.cards = {1}, !.version = 1]
Browsing   == Scene({"lists"}, {"lesson", "own"}, {}, {}, {2})
AllScenes  == {Practising, Streaks, Quizzing, Saving, Selecting, Keeping, Reviewing, Reopening, Speaking, Browsing}

\* Six and twenty days until now: the next one earns a freeze.
TwoPasts == {{}} \cup {1 - n .. 0 : n \in {6, 20}}
ListOrder == <<"lesson", "lesson2", "own", "own2">>

TwoSentences == <<<<"tea", "at", "7:00">>, <<"tea", "time">>>>
FiveAnswers  == FourAnswers \cup {<<"tea", "at", "7:00">>}
FourWords    == {"tea", "at", "7:00", "time"}
ThreeCardWords == {"tea", "at", "time"}
Alike(v, w) == IF v = w THEN 100 ELSE 25
Letters(w) == IF w = "at" THEN 2 ELSE IF w = "tea" THEN 3 ELSE 4
SentenceCard(s) == 4 + s
Card(s, w) == IF s = 1 THEN IF w = "tea" THEN 1 ELSE 2 ELSE IF w = "tea" THEN 3 ELSE 4
=============================================================================
