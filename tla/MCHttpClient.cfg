SPECIFICATION Spec
CONSTANTS
  BufLength = 2
  MaxReq = 2
  MaxId = 3
  MaxDispatch = 2
  BodyLengths = {0, 2}
  MaxCuts = 1
INVARIANTS TypeOK SendMeansDelivered DoneMeansWhole OkMeansAnswered
\* The model makes MaxReq requests and stops.
CHECK_DEADLOCK FALSE
