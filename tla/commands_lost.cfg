SPECIFICATION Spec
CONSTANTS
  d1 = d1
  m1 = m1
  m2 = m2
  Ctrl = Ctrl
  None = None
  Devices = {d1}
  Cmds <- TwoCmds
  Target <- Targets
  Conns = {c1, c2, c3}
  MaxFaults = 0
CHECK_DEADLOCK FALSE
INVARIANTS SuccessIsKept
