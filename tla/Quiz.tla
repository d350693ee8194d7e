-------------------------------- MODULE Quiz --------------------------------
(***************************************************************************)
(* The quizzes of a lesson: a dictation or a blank to fill for every       *)
(* sentence (SentenceQuiz), and the words they missed, which the summary   *)
(* lists (useLessonProgress, LessonSummary).  Typing is part of the check: *)
(* until then nothing reads it.                                            *)
(***************************************************************************)
EXTENDS LessonVisit, Dictation

CONSTANTS
  Text,      \* the words of every sentence
  Answers,   \* bound: what is typed; <<>> is blank
  CardWords, \* isCardWord: a time or a decimal ("7:00") is none
  Length(_), \* letters of a card word
  CardOf(_, _), \* cardId: of a word of a sentence
  CardOfSentence(_)

ASSUME QuizAssumption ==
  /\ Text \in [Sentences -> Seq(Words)] /\ Answers \subseteq Seq(Words)
  /\ CardWords \subseteq Words /\ \A word \in CardWords : Length(word) \in Nat

WordOf(word, s) == [word |-> word, sentence |-> s]

\* mutant of Miss: a word is listed once for each of its sentences
MissPerSentence(v, s, words) ==
  LET add(word, list) == IF word \in CardWords /\ WordOf(word, s) \notin ToSet(list)
                         THEN Append(list, WordOf(word, s)) ELSE list
  IN [v EXCEPT !.missed = FoldLeft(LAMBDA list, word : add(word, list), @, words)]

\* miss: in order of first occurrence, each word under the sentence where it
\* was first missed.
Miss(v, s, words) ==
  LET listed(list) == {entry.word : entry \in ToSet(list)}
      add(word, list) == IF word \in CardWords \ listed(list) THEN Append(list, WordOf(word, s)) ELSE list
  IN [v EXCEPT !.missed = FoldLeft(LAMBDA list, word : add(word, list), @, words)]

\* The missed words that the summary offers to save.
Summary == IF AllAttempted(visit) THEN {CardOf(entry.sentence, entry.word) : entry \in ToSet(visit.missed)} ELSE {}

\* The word whose panel is open, under its sentence; the other views have none.
Panel == IF visit.view = "shadow" THEN {CardOf(entry.sentence, entry.word) : entry \in visit.selected} ELSE {}

\* A card word of the transcript is a button.
SelectWord(s, word) ==
  /\ visit.lesson # NoLesson /\ visit.view = "shadow"
  /\ word \in CardWords /\ word \in ToSet(Text[s])
  /\ visit' = [visit EXCEPT !.selected = {WordOf(word, s)}]
  /\ UNCHANGED progressVars

\* checkAnswer, of either quiz: a blank answer shows its result and no more.
Check(s, answer, missedWords) ==
  LET v == [visit EXCEPT !.checked[s] = {answer}] IN
  IF answer = <<>> THEN visit' = v /\ UNCHANGED progressVars
  ELSE Practice(Miss(v, s, missedWords), s, visit.view)

CheckDictation(s, answer) ==
  /\ visit.view = "dictation"
  /\ Check(s, answer, MissedWords(answer, Text[s]))

\* blankFor: the first of the longest card words; 0 when the sentence has none.
BlankFor(ref) ==
  LET candidates == {i \in DOMAIN ref : ref[i] \in CardWords}
      longest    == {i \in candidates : \A k \in candidates : Length(ref[k]) <= Length(ref[i])}
  IN IF candidates = {} THEN 0 ELSE Min(longest)

Blank(s) == Text[s][BlankFor(Text[s])]

CheckBlank(s, answer) ==
  /\ visit.view = "blank" /\ BlankFor(Text[s]) # 0
  /\ Check(s, answer, IF answer = <<Blank(s)>> THEN <<>> ELSE <<Blank(s)>>)

TryAgain(s) ==
  /\ visit.checked[s] # {}
  /\ visit' = [visit EXCEPT !.checked[s] = {}]
  /\ UNCHANGED progressVars

\* The lesson mode: another view mounts other cards.
ChooseView(view) ==
  /\ visit.lesson # NoLesson /\ view # visit.view
  /\ visit' = [visit EXCEPT !.view = view, !.checked = NoneChecked]
  /\ UNCHANGED progressVars

QuizTypeOK ==
  /\ VisitTypeOK
  /\ visit.missed \in Seq([word : CardWords, sentence : Sentences])
  /\ visit.selected \subseteq [word : CardWords, sentence : Sentences] /\ Cardinality(visit.selected) <= 1
  /\ \A s \in Sentences : visit.checked[s] \subseteq Answers /\ Cardinality(visit.checked[s]) <= 1

\* The words that the result of an answer marks as missed, in a view.
Marked(view, s, answer) ==
  IF view = "dictation" THEN ToSet(MissedWords(answer, Text[s])) ELSE IF answer = <<Blank(s)>> THEN {} ELSE {Blank(s)}

\* "Card words missed in a typed answer this visit, in first-occurrence order,
\* each under the sentence where it was first missed" (useLessonProgress): a
\* word is listed once, under a practised sentence that has it, and a card word
\* that a result on screen, of a dictation or of a blank, marks as missed in what
\* was typed is listed.
MissedIsListed ==
  /\ \A i, j \in DOMAIN visit.missed : visit.missed[i].word = visit.missed[j].word => i = j
  /\ \A entry \in ToSet(visit.missed) :
       entry.word \in ToSet(Text[entry.sentence]) /\ entry.sentence \in Attempted(visit)
  /\ \A s \in Sentences : \A answer \in visit.checked[s] \ {<<>>} :
       Marked(visit.view, s, answer) \cap CardWords \subseteq {entry.word : entry \in ToSet(visit.missed)}

\* The pairs of positions that an alignment of a text with an answer keeps
\* together, and the words that it then gets wrong.
Alignments(m, n) ==
  {pairs \in SUBSET ((1..m) \X (1..n)) :
     \A p, q \in pairs : p = q \/ (p[1] < q[1] /\ p[2] < q[2]) \/ (q[1] < p[1] /\ q[2] < p[2])}
Wrong(pairs, ref, got) ==
  Len(ref) + Len(got) - 2 * Cardinality(pairs) + Cardinality({p \in pairs : ref[p[1]] # got[p[2]]})
LeastWrong ==
  [s \in Sentences |-> [answer \in Answers |->
     Min({Wrong(pairs, Text[s], answer) : pairs \in Alignments(Len(Text[s]), Len(answer))})]]

\* "Word-level edit distance" (diffWords): the result of a dictation shows every
\* word of the sentence and every word typed, in order, and no alignment of the
\* two marks fewer words as wrong.
ResultIsBestAlignment ==
  visit.view = "dictation" =>
    \A s \in Sentences : \A answer \in visit.checked[s] :
      LET diff == DiffWords(answer, Text[s])
          words(kinds, field(_)) == [i \in DOMAIN Entries(diff, kinds) |-> field(Entries(diff, kinds)[i])]
      IN /\ words({"correct", "replaced", "missed"}, LAMBDA entry : entry.word) = Text[s]
         /\ words({"correct", "replaced", "extra"},
                  LAMBDA entry : IF entry.kind = "correct" THEN entry.word ELSE entry.typed) = answer
         /\ Len(Entries(diff, {"replaced", "missed", "extra"})) = LeastWrong[s][answer]
=============================================================================
