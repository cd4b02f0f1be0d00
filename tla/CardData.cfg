CONSTANTS
  plain = plain
  ranged = ranged
  Cards = {plain, ranged}
  Merchants = {}
  Ranges = {ranged}
  NoCard = NoCard
  Digits = 2
  MaxIssue = 2
SPECIFICATION Spec
INVARIANTS
  TokenOfItsCard
  ClearOnlyIfExcepted
  Deliverable
  KeyErrorsReported
PROPERTY SerialOnce
