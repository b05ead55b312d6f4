CONSTANTS
  Providers = {"builtin", "plugin"}
  Results <- MCResults
  MaxFetches = 3
  MaxTimers = 2
SPECIFICATION FairSpec
INVARIANTS TuiInv SelectionsInRange LoadingHasAFetch
PROPERTIES FlashEnds
CHECK_DEADLOCK FALSE
