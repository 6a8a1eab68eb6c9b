SPECIFICATION FairSpec
CONSTANTS
  N = 2
  Starts <- AllBoards
  Strategies = {"dfs", "bfs", "best", "bb", "astar", "unknown"}
  MaxPath = 1000
  MaxClosed = 24
  Radius = 12
  NULL = NULL
INVARIANTS NoBoardTwice ParentClosedBefore WalkIsSafe NothingLost SearchFindsGoal BfsPathIsShortest
PROPERTIES ImplementsGraphSearch GoalInSuccIsFound Termination
