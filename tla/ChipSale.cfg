SPECIFICATION FairSpec
CONSTANTS
  TokenSizes = {2, 3, 5}
  ByteRange = 4
INVARIANTS
  IInv
  LatchStops
  OnlineOnlyOnRequest
  NoApprovalAgainstHost
  LengthNeverOverstates
PROPERTIES
  Completed
  FlowEnds
