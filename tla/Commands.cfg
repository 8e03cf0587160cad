CONSTANTS
  Texts <- MCTexts
  WindowNames <- MCWindowNames
  Paths <- MCPaths
  Servers <- MCServers
  Elsewhere <- MCElsewhere
  Tty <- MCTty
  Characters <- MCCharacters
  MaxIds = 4
  MaxCalls = 2
  MaxOthers = 2
SPECIFICATION Spec
INVARIANTS ListingIsTrue AnswersAreTrue
PROPERTIES ActsOnTheListed ExactNameWins
CHECK_DEADLOCK FALSE
