SPECIFICATION Spec
CONSTANTS
  NoCard = NoCard
  None = None
  Absent = Absent
  Empty = Empty
  Data <- MCData
  Amounts <- MCAmounts
  Requests <- MCRequests
  Messages <- MCMessages
  ScriptLimit = 5
  MaxSales = 2
  MaxMessages = 3
  MaxEvents = 5
INVARIANTS
  TypeOK
  OwnData
  ScriptsWhole
PROPERTY
  CvmAgrees
