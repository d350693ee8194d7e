SPECIFICATION Spec
CONSTANTS
  Lessons = {"lesson", "lesson2", "own", "own2"}
  LibraryLessons = {"lesson", "lesson2"}
  OwnLessons = {"own", "own2"}
  Order <- ListOrder
  OwnCalls = {1, 2}
  Goals = {1, 2}
  Slots = {1, 2}
  MaxActions = 2
  LastDay = 3
  Pasts <- TwoPasts
  Sentences = {1, 2}
  ShadowModes = {"check"}
  Words <- FourWords
  Similarity <- Alike
  Length <- Letters
  Text <- TwoSentences
  Answers <- FiveAnswers
  CardWords <- ThreeCardWords
  CardOf <- Card
  CardOfSentence <- SentenceCard
  Cards = {1, 2, 3, 4, 5, 6}
  NEW_CARDS_PER_DAY = 1
  Raters = {1, 2}
  Fetches = {1, 2}
  MaxVersion = 2
  Savers = {1, 2}
  Scenes <- AllScenes
INVARIANTS TypeOK AnnouncedIffMet CompletionNotForgotten CapHolds VoiceFollowsTurn RatingIsAnswered
  MissedIsListed ResultIsBestAlignment DeckShowsOwnWrites FocusTaken
PROPERTIES LessonStaysOpen StreakMoves
