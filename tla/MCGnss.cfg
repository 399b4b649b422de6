SPECIFICATION FairSpec
CONSTANTS
  Base = 8
  Sync <- MCSync
  NavPvt <- MCNavPvt
  PayLen = 2
  Solutions = {2, 3}
  Foreign <- MCForeign
  Noise = {5}
INVARIANTS TypeOK SolutionWhole
PROPERTIES GoodPacketDelivered FixOnceClean
