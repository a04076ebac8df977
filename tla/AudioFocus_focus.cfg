SPECIFICATION Spec
CONSTANTS
  AudioDuckLevel = 1
  MaxVolume = 2
  MaxCommands = 2
  MaxEvents = 2
  MaxNotices = 2
INVARIANTS TypeOK FocusAgrees NoSoundWithoutFocus RendererFreesFocus VolumeGivenBack
