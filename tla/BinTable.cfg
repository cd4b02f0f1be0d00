CONSTANTS
  CardLens = {2, 3}
  ExcLen = 3
  Versions = {1, 2}
  NoVersion = 0
SPECIFICATION Spec
INVARIANTS
  
  RefusedKeepsTable
  
  GoodTokenLoads
  ExceptsThrees
