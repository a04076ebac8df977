SPECIFICATION FairSpec
CONSTANTS
  Refs = {r1, r2, r3}
  Main = main
  Loopers = {main, browser}
  Threads = {main, browser}
  Listeners = {a, b}
  Events = {e1, e2}
  EventThread = libvlc
  None = None
  MaxQueue = 2
CHECK_DEADLOCK FALSE
INVARIANTS
  TypeOK
  CountIsHeld
  SingleTeardown
  NoUseAfterFree
  QueueMatchesListener
PROPERTY ReleaseCompletes
PROPERTY ImplementsLifetime
