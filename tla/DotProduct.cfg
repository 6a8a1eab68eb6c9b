SPECIFICATION FairSpec
CONSTANTS
  NProcs = 4
  NELMS = 9
  Ns = {0, 3, 8, 9, 10}
INVARIANTS OwnSlices SumIsExact NoMessageLeft
PROPERTIES ImplementsPartialSums Termination
