SPECIFICATION Spec
CONSTANTS
  a = a
  x = x
  Media <- OnlyContainers
  NoMedia = NoMedia
  Children <- MCChildren
  Lists <- MCLists
  MaxLen = 2
  MaxPrevious = 1
  RepeatChoices = {"none", "all"}
  MaxExpansions = 1
CHECK_DEADLOCK FALSE
INVARIANTS
  NeighboursValid
  SavedListIsPlayed
