SPECIFICATION Spec
CONSTANTS
  NumFds = 6
  MAX_BUFS = 2
  MaxConns = 2
  MaxOthers = 0
INVARIANTS
  WrapsDmabuf
CHECK_DEADLOCK FALSE
