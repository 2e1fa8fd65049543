SPECIFICATION FairSpec
CONSTANTS
  Shares = {s1}
  Window = 6
  Patience = 0
INVARIANTS TypeOK HalfOpenAdmits
PROPERTIES KeepsShares ShareIsRetried CancelCloses
