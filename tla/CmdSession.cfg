CONSTANTS
  chip = chip
  plain = plain
  Cards = {chip, plain}
  ChipCards = {chip}
  NoCard = NoCard
SPECIFICATION LiveSpec
INVARIANTS
  FallbackEarned
  CompletionTechnology
  SaleAnswered
  IInv
PROPERTIES
  NeverSpins
