SPECIFICATION Spec
CONSTANTS
  c1 = c1
  c2 = c2
  m1 = m1
  None = None
  Ctrl = Ctrl
  Conns <- TwoConns
  Cmds <- OneCmd
  ACTIVE_TEST = 1
  MaxFaults = 1
  MaxSendMsgs = 1
PROPERTIES ClosedByServer
