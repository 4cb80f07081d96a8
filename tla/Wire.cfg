\* Bodies of 16 bytes, one short read at most.
SPECIFICATION FairSpec
CONSTANTS
  BODY_SIZE = 16
  Ids <- MCIds
  MaxShort = 1
  Samples <- MCSamples
INVARIANTS SizeMatches WholeReadsIntact BoundaryNeverCompletes OneFrameNeverWrong NulFreeParsed
PROPERTY OffBoundaryCompletes
CHECK_DEADLOCK FALSE
