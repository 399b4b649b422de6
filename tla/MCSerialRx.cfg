SPECIFICATION FairSpec
CONSTANTS
  Size = 8
  UpperBound = 4
  MaxRead = 5
  Overshoot = 1
  Numbers = 9
INVARIANT TypeOK
PROPERTIES RxIsQueue Resumes
