SPECIFICATION Spec
CONSTANTS
  AudioDuckLevel = 1
  MaxVolume = 2
  MaxCommands = 1
  MaxEvents = 2
  MaxNotices = 1
PROPERTY AlertPauses
