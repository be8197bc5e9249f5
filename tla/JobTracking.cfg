SPECIFICATION FairSpec
CONSTANTS
  Final = 3
  MaxReads = 5
INVARIANTS TypeOK NeverStranded
PROPERTIES StreamSpec TrackingEnds
