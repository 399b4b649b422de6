SPECIFICATION Spec
CONSTANTS
  Base = 8
  Sync <- MCSync
  NavPvt <- MCNavPvt
  PayLen = 2
  Solutions = {2}
  Foreign <- MCForeign
  Noise = {5}
INVARIANT UnlockedWhenIdle
