CONSTANTS
  r = r
  a = a
  b = b
  c = c
  Dirs = {r, a, b, c}
  Root = r
  Parent <- Tree
  Depths = {1, 2}
  Runtime = {c}
  NoList = NoList
  NoEdit = NoEdit
  MaxEdits = 2
  MaxOthers = 1
SPECIFICATION FairSpec
INVARIANT SavedStaysListed
INVARIANT ListedIsBackedUp
INVARIANT AnswerIsComplete
PROPERTY WalksEnd
CHECK_DEADLOCK FALSE
