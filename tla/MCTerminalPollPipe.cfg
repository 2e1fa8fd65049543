SPECIFICATION FairSpec
CONSTANTS
  Keys = {"esc", "paren"}
  Sessions <- MCPipeSessions
  Chunk = 1
  Shared = FALSE
PROPERTY SideClosedEnds
