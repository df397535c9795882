SPECIFICATION FairSpec
CONSTANTS
  a1 = a1
  a2 = a2
  Addresses <- TwoAddresses
  Shapes <- MixedRows
  SeqModulus = 4
  MaxDepth = 2
  SharedTimes = FALSE
  BlockTTL = 5
  MaxLag = 3
  MaxMined = 9
  MaxReruns = 0
  MaxCrashes = 0
INVARIANTS TypeOK NoStaleRow NoLostRow RowsNamed
PROPERTY Settles
CHECK_DEADLOCK FALSE
