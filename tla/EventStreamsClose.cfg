SPECIFICATION Spec
CONSTANTS
  c1 = c1
  c2 = c2
  Consumers <- MCConsumers
  MaxRuns = 3
  MaxRequests = 3
  ActsInOrder = TRUE
SYMMETRY ConsumerSymmetry
INVARIANT CloseEndsStreams
