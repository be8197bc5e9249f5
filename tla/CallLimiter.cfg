SPECIFICATION FairSpec
CONSTANTS
  Limit = 2
  MaxSends = 5
INVARIANTS TypeOK WithinLimit BooksMatch SendOrder
PROPERTIES PacingSpec EveryCallEnds
