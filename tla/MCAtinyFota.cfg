CONSTANTS
  Packages = {p, q}
  HEAD = 1
  TOTAL = 6
  BLOCK = 2
  WRITES = 2
  Uris = {u, v}
  PIECE = 4
  Faults = {"flash", "active", "start", "failure", "init", "read", "clear", "verdict"}
  CrashPoints = {"boot", "copy", "jump", "rollback", "init", "consume", "clear", "drop",
                 "run", "activate", "record", "off"}
  TornPoints = {"boot", "copy", "jump", "init", "consume", "clear", "drop", "activate", "record"}
  MAX_RESETS = 2
SPECIFICATION FotaSpec
INVARIANTS OnlyWholeImages UpdatingArmed ResultTrue BusyEnds
SYMMETRY FotaSymmetry
CHECK_DEADLOCK FALSE
