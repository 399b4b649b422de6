SPECIFICATION FairSpec
CONSTANTS
  BufLength = 2
  MaxReq = 1
  MaxId = 2
  MaxDispatch = 2
  BodyLengths = {0, 2, 3}
  MaxCuts = 2
PROPERTIES TimedReturns ResponseEndsWait
\* The model makes MaxReq requests and stops.
CHECK_DEADLOCK FALSE
