----------------------------- MODULE Dictation -----------------------------
(***************************************************************************)
(* The word arithmetic of the quizzes and of Shadow Gate: the alignment of *)
(* what was typed or heard with the sentence (diffWords), its score        *)
(* (scoreShadow).  Texts are sequences of tokens: splitting a text,        *)
(* spelling numbers out and lower-casing are left out, and of its letters  *)
(* a word keeps how alike it is to another (similarity, in hundredths).    *)
(***************************************************************************)
EXTENDS Integers, Sequences, SequencesExt, FiniteSetsExt

CONSTANTS
  Words,         \* tokens
  Similarity(_, _) \* of a typed and a reference word: 0..100

ASSUME SimilarityAssumption == \A v, w \in Words : Similarity(v, w) \in 0..100

PASS_SCORE == 70
GOOD_SCORE == 80

(***************************************************************************)
(* cost[i][j]: the edits that turn typed from j on into reference from i   *)
(* on, a table filled from the end.                                        *)
(***************************************************************************)
Cost(ref, got) ==
  LET cost[at \in (1..Len(ref) + 1) \X (1..Len(got) + 1)] ==
        LET i == at[1]
            j == at[2] IN
        IF i > Len(ref) THEN Len(got) + 1 - j
        ELSE IF j > Len(got) THEN Len(ref) + 1 - i
        ELSE Min({cost[<<i + 1, j + 1>>] + (IF ref[i] = got[j] THEN 0 ELSE 1),
                  cost[<<i + 1, j>>] + 1, cost[<<i, j + 1>>] + 1})
  IN cost

\* mutant of DiffWords: words are compared in step, not by the table
DiffInStep(got, ref) ==
  LET walk[at \in (1..Len(ref) + 1) \X (1..Len(got) + 1)] ==
        LET i == at[1]
            j == at[2] IN
        IF i > Len(ref) /\ j > Len(got) THEN <<>>
        ELSE IF i > Len(ref) THEN <<[kind |-> "extra", typed |-> got[j]]>> \o walk[<<i, j + 1>>]
        ELSE IF j > Len(got) THEN <<[kind |-> "missed", word |-> ref[i]]>> \o walk[<<i + 1, j>>]
        ELSE <<IF ref[i] = got[j] THEN [kind |-> "correct", word |-> ref[i]]
               ELSE [kind |-> "replaced", word |-> ref[i], typed |-> got[j]]>> \o walk[<<i + 1, j + 1>>]
  IN walk[<<1, 1>>]

\* diffWords: the table walked from the front; a match or a replacement is
\* preferred to a missed word, and that to an extra one.
DiffWords(got, ref) ==
  LET cost == Cost(ref, got)
      walk[at \in (1..Len(ref) + 1) \X (1..Len(got) + 1)] ==
        LET i == at[1]
            j == at[2]
            both == i <= Len(ref) /\ j <= Len(got) IN
        IF i > Len(ref) /\ j > Len(got) THEN <<>>
        ELSE IF both /\ ref[i] = got[j] /\ cost[at] = cost[<<i + 1, j + 1>>]
        THEN <<[kind |-> "correct", word |-> ref[i]]>> \o walk[<<i + 1, j + 1>>]
        ELSE IF both /\ ref[i] # got[j] /\ cost[at] = cost[<<i + 1, j + 1>>] + 1
        THEN <<[kind |-> "replaced", word |-> ref[i], typed |-> got[j]]>> \o walk[<<i + 1, j + 1>>]
        ELSE IF i <= Len(ref) /\ cost[at] = cost[<<i + 1, j>>] + 1
        THEN <<[kind |-> "missed", word |-> ref[i]]>> \o walk[<<i + 1, j>>]
        ELSE <<[kind |-> "extra", typed |-> got[j]]>> \o walk[<<i, j + 1>>]
  IN walk[<<1, 1>>]

\* The entries of some kinds, in order.
Entries(diff, kinds) ==
  FoldLeft(LAMBDA list, entry : IF entry.kind \in kinds THEN Append(list, entry) ELSE list, <<>>, diff)

\* Whole words a checked dictation missed, in order: what miss() is told.
MissedWords(got, ref) ==
  [i \in DOMAIN Entries(DiffWords(got, ref), {"missed", "replaced"}) |->
     Entries(DiffWords(got, ref), {"missed", "replaced"})[i].word]

AllCorrect(got, ref) == \A i \in DOMAIN DiffWords(got, ref) : DiffWords(got, ref)[i].kind = "correct"

\* A near miss is never "good", however alike it is spelled.
WordScore(entry) ==
  CASE entry.kind = "correct"  -> 100
    [] entry.kind = "replaced" -> Min({GOOD_SCORE - 1, Similarity(entry.typed, entry.word)})
    [] entry.kind = "missed"   -> 0

\* Math.round of a mean of naturals.
Rounded(sum, n) == (2 * sum + n) \div (2 * n)

\* scoreShadow: the mean over the reference's words; extra words count nothing.
ScoreShadow(heard, ref) ==
  LET words == Entries(DiffWords(heard, ref), {"correct", "replaced", "missed"})
      sum   == FoldSeq(LAMBDA entry, total : total + WordScore(entry), 0, words)
  IN IF words = <<>> THEN 0 ELSE Rounded(sum, Len(words))

Passed(heard, ref) == ScoreShadow(heard, ref) >= PASS_SCORE
=============================================================================
