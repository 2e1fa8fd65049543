SPECIFICATION FairSpec
CONSTANTS
  Texts = {"a", "b"}
  Capacity = 2
  RingSize = 2
  MaxLines = 4
CHECK_DEADLOCK FALSE
INVARIANT ReportIsTail
PROPERTIES PipeDrained InvokeReturns
