SPECIFICATION Spec
CONSTANTS
  Final = 2
  MaxReads = 3
INVARIANT NeverSilent
