SPECIFICATION Spec
CONSTANTS
  k1 = k1
  k2 = k2
  c1 = c1
  c2 = c2
  c3 = c3
  None = None
  Keys <- OneKey
  Conns <- TwoConns
  ACTIVE_TEST_START = 1
  ACTIVE_TEST_END = 1
  OfflineNotice = FALSE
  DbMayFail = FALSE
  MaxRecvMsgs = 1
  MaxSendMsgs = 1
PROPERTIES ClosedOnlyByOwnThread
