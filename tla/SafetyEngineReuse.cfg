CONSTANTS
  Ids = {a}
  ReusableIds = {a}
  MaxStarts = 2
  NoId = NoId
SPECIFICATION FairSpec
PROPERTY ConfirmIsFinalForEveryId
