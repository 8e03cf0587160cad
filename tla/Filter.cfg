CONSTANTS
  Lower <- MCLower
  Upper <- MCUpper
  ToLower <- MCToLower
  Rows <- MCRows
  MaxBuffer = 3
SPECIFICATION Spec
INVARIANTS AnswersAreCurrent BeginningsScoreHighest
PROPERTY TypingNarrows
