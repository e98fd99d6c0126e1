SPECIFICATION RenderSpec
CONSTANTS
  Unit <- MCUnit
  RichTableMaxColumns = 2
  MaxNestingDepth = 2
  MaxTreeDepth = 3
  MaxLines = 4
  MaxNodes = 2
  PlainMaxPartChars = 5
  Node <- MCNode
  Revised <- MCRevised
  LimitPairs <- MCLimitPairs
INVARIANTS QuotesSpelledOut NothingLost WithinBudgets PairsWhole
PROPERTIES EarlierPartsStand
CHECK_DEADLOCK FALSE
