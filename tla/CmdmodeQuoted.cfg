CONSTANTS
  Letters <- MCLetters
  Commands <- MCCommands
  Schema <- MCSchema
  Candidates <- MCCandidates
  MaxTyped = 5
SPECIFICATION LineSpec
INVARIANT CompletesAnyWord
