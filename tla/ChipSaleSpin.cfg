SPECIFICATION FairSpec
CONSTANTS
  TokenSizes = {2}
  ByteRange = 4
PROPERTY
  RemovalEndsSale
