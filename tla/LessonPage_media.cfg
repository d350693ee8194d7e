SPECIFICATION Spec
CONSTANTS
  Words <- TwoWords
  Similarity <- Alike
  Text <- TwoSentences
  Answers <- ThreeAnswers
  HasVideo = TRUE
INVARIANTS TypeOK MediaBelongToView
PROPERTY OneMediumAtATime
