SPECIFICATION FairSpec
CONSTANTS
  Callers = {c1, c2}
  Ops = {"create", "boot", "resume", "restore", "add"}
INVARIANTS NilMeansServed SentinelWasTrue CloseWaits
PROPERTY CancelledCallReturns
