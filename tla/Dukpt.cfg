SPECIFICATION Spec
CONSTANTS
  W = 3
  MaxOnes = 2
  Ipks = {k1, k2}
  NoIpk = NoIpk
  Unreadable = Unreadable
  Nothing = Nothing
  MaxLost = 1
INVARIANTS
  HostAgreement
  KsnIncreasing
  ForwardSecrecy
  SearchNeverWraps
  ReuseOnlyAfterLostSave
PROPERTIES
  ImplementsKeySource
  KeySwitchedOn
  CallReturns
CHECK_DEADLOCK FALSE
