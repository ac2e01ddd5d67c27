SPECIFICATION BooksSpec
CONSTANTS
  Requests <- SmallCalls
  ListPrice <- Prices
  Catalog = {"incumbent"}
  MaxRows = 3
  MaxMonth = 2
  Percents = {10}
  Floors = {5}
  Estimate = 7
  MaxActs = 2
INVARIANT UnknownCostIsNotZero
CHECK_DEADLOCK FALSE
