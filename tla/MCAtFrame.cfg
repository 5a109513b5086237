CONSTANTS
  Users = {a, b}
  MAX_CMDS = 2
  QUEUE_LEN = 2
  SEM_MAX = 1
  MAX_CALLBACKS = 2
  NoMemory = FALSE
SPECIFICATION AtSpec
INVARIANTS ListenersProtected OwnAnswer
PROPERTIES CommandEnds
CHECK_DEADLOCK FALSE
