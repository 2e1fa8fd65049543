SPECIFICATION Spec
CONSTANTS
  Backends = {"passt"}
  Leftovers = {TRUE, FALSE}
  HostTHP = {"on", "off"}
  PingLimit = 2
  ReportFirst = {}
  TimersLast = {"passt"}
INVARIANT NoLeakAtReturn
