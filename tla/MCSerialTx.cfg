SPECIFICATION Spec
CONSTANTS
  Size = 8
  Frames <- MCFrames
  Numbers = 9
INVARIANTS TypeOK InOrderUntilAstray WholeFrames NoneStuck
