SPECIFICATION FairSpec
CONSTANTS
  N = 4
  Starts <- NearBoards
  Strategies = {"astar"}
  MaxPath = 1000
  MaxClosed = 12
  Radius = 8
  NULL = NULL
PROPERTIES AStarExpandsLeastF 
