CONSTANTS
  chip = chip
  plain = plain
  Cards = {chip, plain}
  ChipCards = {chip}
  NoCard = NoCard
SPECIFICATION Spec
INVARIANT StripeOfThisSale
