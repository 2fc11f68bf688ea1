SPECIFICATION Spec
CONSTANTS
  MaxMessages = 4
  Window = 2
  KeepRecent = 1
  Auto = auto
  Manual = manual
  Unlocked = unlocked
  MaxMemoryFaults = 0
  MaxMemoryRestarts = 0
  MaxExpiries = 1
INVARIANTS ArrivalsKept
CHECK_DEADLOCK FALSE
