---------------------------- MODULE MCLessonPage ----------------------------
(* Small instances of LessonPage. *)
EXTENDS LessonPage

TwoSentences == <<<<"good">>, <<"good", "day">>>>
ThreeAnswers == {<<>>, <<"good">>, <<"good", "day">>}
TwoWords == {"good", "day"}
Alike(v, w) == IF v = w THEN 100 ELSE 25
=============================================================================
