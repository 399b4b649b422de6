SPECIFICATION Spec
CONSTANTS
  Frames <- MCFrames
  Handled = {136}
  MaxLength = 2
  MaxDispatch = 2
  MaxRx = 6
  MaxFaults = 1
  BuffSize = 9
  Names <- MCNames
INVARIANTS TypeOK HandlersSeeFrame ConfiguredMeansSaved
PROPERTIES StartSeenDelivered FramesArrive
\* initXBee that failed stops the task.
CHECK_DEADLOCK FALSE
