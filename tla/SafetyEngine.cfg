CONSTANTS
  Ids = {a, b, c}
  ReusableIds = {a}
  MaxStarts = 3
  NoId = NoId
SPECIFICATION FairSpec
INVARIANTS PendingHasTimer RollbacksUseUpSessions
PROPERTIES ConfirmIsFinal UnconfirmedIsRolledBack
