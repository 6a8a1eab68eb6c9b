SPECIFICATION FairSpec
CONSTANTS
  NProcs = 4
  NELMS = 9
  NLst = 5
  Ns = {0, 3, 8, 9, 10}
INVARIANTS GatheredBeforeSummed SumIsExact
PROPERTIES ImplementsPartialSums Termination
