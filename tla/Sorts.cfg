SPECIFICATION Spec
CONSTANTS
  Tests = 2
  MaxLen = 5
  Values = {0, 1, 2}
  MaxRadixLen = 4
  W = 4
  group = 2
  MAXBITS = 8
  Words = {"-1", "2", "010", "08", "w", "1||7", "0,j=2"}
  Integer = {"-1", "2", "010", "08"}
  Refused = {"08"}
  Decimal <- Numbers
  Pasted <- Tested
INVARIANTS SortedSoFar AllOrNothing
PROPERTY ImplementsSorting
