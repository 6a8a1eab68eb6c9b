SPECIFICATION FairSpec
CONSTANTS
  Shapes <- AllShapes
  Orders = {"breadth", "depth"}
  Failures = 3
INVARIANTS TreeComplete EndsWhereCalled
PROPERTIES ImplementsTreeBuild MadeInOrder Termination
