CONSTANTS
  Sleeper = {t1, t2}
  LEN = 2
  Delays = {1, 4}
  Swtmr = {s1, s2}
  Intervals = {1, 2}
  QUEUE_SIZE = 1
  NEVER = 100
  CPT = 3
  MAX_SLEEP = 3
  WORD = 32
  WakeAt = {0, 2}
  Races = FALSE
SPECIFICATION TicklessSpec
INVARIANTS TimersTypeOK NextExpiryExact NeverOversleeps SleepCounted
PROPERTIES CountsDown SwtmrCountsDown
SYMMETRY TimerSymmetry
