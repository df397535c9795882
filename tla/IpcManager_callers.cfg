SPECIFICATION Spec
CONSTANTS
  Callers = {c1, c2, c3}
  NumIPC = 3
INVARIANTS TypeOK OneSwitchPerEpoch IndexOnCurrentIPC
CHECK_DEADLOCK FALSE
