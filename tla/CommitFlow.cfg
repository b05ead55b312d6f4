CONSTANTS
  Configs = {c0, c1}
  Providers = {"opnsense", "other"}
  Initial = c0
  Timeout = 60
SPECIFICATION FairSpec
PROPERTY LockedOutOperatorIsRescued
