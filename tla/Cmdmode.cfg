CONSTANTS
  Letters <- MCLetters
  Commands <- MCCommands
  Schema <- MCSchema
  Candidates <- MCCandidates
  MaxTyped = 6
SPECIFICATION LineSpec
INVARIANTS QuotingIsInvertible HeadKeepsTheRest CompletesPlainWord
