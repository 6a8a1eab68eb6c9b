SPECIFICATION Spec
CONSTANTS
  Sizes = {0, 1, 2, 3}
  Errors = {0, 1, 1001, 2001}
  MaxIter = 6
  Mixed = Mixed
INVARIANTS ConsecutiveIterates StopsAtFirstSuccess
