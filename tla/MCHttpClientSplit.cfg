SPECIFICATION Spec
CONSTANTS
  BufLength = 2
  MaxReq = 1
  MaxId = 2
  MaxDispatch = 2
  BodyLengths = {2}
  MaxCuts = 1
INVARIANT DoneMeansComplete
\* The model makes MaxReq requests and stops.
CHECK_DEADLOCK FALSE
