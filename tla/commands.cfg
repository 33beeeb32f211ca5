SPECIFICATION FairSpec
CONSTANTS
  d1 = d1
  m1 = m1
  m2 = m2
  Ctrl = Ctrl
  None = None
  Devices = {d1}
  Cmds <- TwoCmds
  Target <- Targets
  Conns = {c1, c2, c3}
  MaxFaults = 1
CHECK_DEADLOCK FALSE
INVARIANTS TypeOK NoneStranded OvertakenOnlyByReconnect
PROPERTIES ImplementsOutbox LostOnlyWhenDisconnected ImplementsCourier EveryCommandSettles DeliveredWhenConnected
