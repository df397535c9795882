SPECIFICATION FairSpec
CONSTANTS
  a1 = a1
  a2 = a2
  Addresses <- OneAddress
  Shapes <- OneRow
  SeqModulus = 2
  MaxDepth = 1
  SharedTimes = FALSE
  BlockTTL = 9
  MaxLag = 3
  MaxMined = 4
  MaxReruns = 0
  MaxCrashes = 0
PROPERTY Settles
CHECK_DEADLOCK FALSE
