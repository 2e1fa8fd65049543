SPECIFICATION Spec
CONSTANTS
  Shares = {s1}
  Window = 6
  Patience = 10
INVARIANT RepeatedFailureTrips
