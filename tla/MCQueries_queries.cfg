SPECIFICATION Spec
CONSTANTS
  Base = 4
  AddressLen = 2
  TimeLen = 2
  TimeDigits = 2
  Addresses <- TwoAddresses
  Blocks <- SomeBlocks
  Shapes <- SomeShapes
  NumMaxTransaction = 3
  DefaultRows = 3
  RowsParams <- SomeRows
  QueryTimes <- SomeTimes
INVARIANTS TypeOK PageCorrect TotalsAgree PagesComplete
PROPERTY ReorgByRecord
CHECK_DEADLOCK FALSE
