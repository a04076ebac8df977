SPECIFICATION Spec
CONSTANTS
  FrameWidth = 8
  FrameHeight = 5
  MinWidth = 2
  MaxWidth = 9
  MinHeight = 2
  MaxHeight = 10
  VideoWidths = {0, 1, 2, 3, 4, 5, 7, 8, 9, 12}
  VideoHeights = {0, 1, 2, 3, 4, 5, 6, 10, 11}
CHECK_DEADLOCK FALSE
INVARIANTS TypeOK CopyStaysInFrame NoLostWakeup ResultIsWhole NoUseAfterFree
PROPERTIES ThumbnailEnds
