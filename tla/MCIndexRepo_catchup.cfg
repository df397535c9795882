SPECIFICATION Spec
CONSTANTS
  a1 = a1
  a2 = a2
  Addresses <- TwoAddresses
  Shapes <- MixedRows
  SeqModulus = 4
  MaxDepth = 1
  SharedTimes = FALSE
  BlockTTL = 2
  MaxLag = 3
  MaxMined = 5
  MaxReruns = 1
  MaxCrashes = 2
INVARIANT NoLostRow
CHECK_DEADLOCK FALSE
