SPECIFICATION Spec
CONSTANTS
  Macs <- MCMacs
  KvmMacs <- MCKvmMacs
  IfNames <- MCIfNames
  Bases = {"data", "home"}
  MaxShares = 2
INVARIANTS VmmReachesNetwork NetworkHonoured SharesServed THPNeverFatal
