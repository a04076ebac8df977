SPECIFICATION SessionSpec
CONSTANTS
  a = a
  x = x
  Media <- Both
  NoMedia = NoMedia
  Children <- MCChildren
  Lists <- MCLists
  MaxLen = 3
  MaxPrevious = 2
  RepeatChoices = {"none", "one", "all"}
  MaxExpansions = 1
VIEW Unsaved
CHECK_DEADLOCK FALSE
INVARIANT ExpandsCurrentMedia
