SPECIFICATION FairSpec
CONSTANTS
  TxDly = 6
  InDly = 2
  MaxWork = 2
  DataLimit = 3
INVARIANTS TypeOK NoTornSend CountMatchesBuffer FreshSend
PROPERTY KeepsSending
