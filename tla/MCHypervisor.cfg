SPECIFICATION FairSpec
CONSTANTS
  Backends = {"passt", "tap"}
  Leftovers = {TRUE, FALSE}
  HostTHP = {"on"}
  PingLimit = 2
  ReportFirst = {"passt"}
  TimersLast = {"passt"}
INVARIANTS TypeOK NoLeakAtReturn GuestKeepsHelpers NilMeansCleanEnd
PROPERTIES LivePidFileKept LivesOnce CancelReturns LossReturns
