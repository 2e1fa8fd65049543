SPECIFICATION FairSpec
CONSTANTS
  Keys = {"esc", "paren"}
  Sessions <- MCSessions
  Chunk = 2
  Shared = TRUE
INVARIANTS TypeOK ForwardsInOrder EscapeEndsSession EndsForAReason TerminalRestored
PROPERTIES  TerminalSideClosedEnds WindowFollows
