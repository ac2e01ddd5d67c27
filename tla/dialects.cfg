SPECIFICATION Spec
CONSTANTS
  Pairs <- AllPairs
  Asks <- SmallAsks
  Cuts = {"character", "newline"}
  MaxPieces = 4
  MaxCalls = 2
INVARIANTS ClientIsNotMisled WholeAnswer PlainRequestsSurvive
