SPECIFICATION FairSpec
CONSTANTS
  Sizes = {1, 3, 5, 6}
INVARIANT MessageIsSubtree
PROPERTIES KeepsPromises Termination
