CONSTANTS
  Bytes <- MCBytes
  FrameLength <- MCFrameLength
  Valid <- MCValid
  MaxLength = 4
  MaxRead = 8
SPECIFICATION Spec
INVARIANTS IInv NoFrameSkipped NoFrameDelayed
CHECK_DEADLOCK FALSE
