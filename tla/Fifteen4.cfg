SPECIFICATION Spec
CONSTANTS
  N = 4
  Starts <- NearBoards
  Strategies = {"dfs", "bfs", "best", "bb", "astar", "unknown"}
  MaxPath = 4
  MaxClosed = 10
  Radius = 5
  NULL = NULL
INVARIANTS TypeOK MergedInOrder ParityKept PrintedPathLeadsToLeaf
  RefusedIsUnreachable
