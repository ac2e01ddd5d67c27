SPECIFICATION BooksSpec
CONSTANTS
  Requests <- Calls
  ListPrice <- Prices
  Catalog = {"incumbent", "candidate"}
  MaxRows = 3
  MaxMonth = 2
  Percents = {10}
  Floors = {5}
  Estimate = 7
  MaxActs = 2
INVARIANTS BooksBalance
CHECK_DEADLOCK FALSE
