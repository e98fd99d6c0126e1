SPECIFICATION Spec
CONSTANTS
  Name <- MCName
  Typed <- MCTyped
  Stored <- MCStored
  PrefixOf <- MCPrefixOf
  First <- MCFirst
  Query <- MCQuery
  Matches <- MCMatches
  NoQuery = "all"
  Layouts = TRUE
  Dir = {"web", "a_1"}
  MaxOutside = 2
  None = "none"
INVARIANTS TypeOK LatestChoice ClientFollows
PROPERTIES ChosenIsShown
CHECK_DEADLOCK FALSE
