SPECIFICATION FairSpec
CONSTANTS
  N = 4
  Starts <- NearBoards
  Strategies = {"dfs", "bfs", "best", "bb", "astar", "unknown"}
  MaxPath = 4
  MaxClosed = 12
  NULL = NULL
INVARIANTS NothingDangles ListsAreWhole
PROPERTIES ImplementsFifteen WalksEnd
