SPECIFICATION FairLoopSpec
CONSTANTS
  NumFds = 5
  MAX_BUFS = 2
  MaxConns = 2
  MaxOthers = 1
  MaxCalls = 3
  MaxRefresh = 2
  MaxIdle = 2
  SchedulesIn = {"frame"}
INVARIANTS
  NoSelfDeadlock
  FrameFlagIsQueued
  SlotIsItsDmabuf
  NoForeignClose
  ShutdownClosesAll
PROPERTIES
  PendingEnds
CHECK_DEADLOCK FALSE
