SPECIFICATION FairSpec
CONSTANTS
  Frames <- MCFrames
  MaxFrames = 2
  MaxWire = 2
  MaxBuf = 3
INVARIANTS
  IInv
  RunsWholeFrame
PROPERTY
  HeldOnlyByAck
