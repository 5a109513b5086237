CONSTANTS
  Sleeper = {t1, t2}
  LEN = 2
  Delays = {1, 4}
  Swtmr = {s1}
  Intervals = {1, 2}
  QUEUE_SIZE = 1
  NEVER = 100
  CPT = 3
  MAX_SLEEP = 3
  WORD = 16
  WakeAt = {0, 1, 2}
  Races = TRUE
SPECIFICATION TicklessSpec
INVARIANTS SleepCounted
SYMMETRY TimerSymmetry
