SPECIFICATION Spec
CONSTANTS
  gw = gw
  dev = dev
  attr = attr
  ann = ann
  bob = bob
  AUTO = AUTO
  None = None
  Gateways <- OneGateway
  Devices <- NoKeys
  Attrs <- OneAttr
  Operators <- TwoOperators
  Faults <- AllFaults
  MaxInbox = 1
  MaxAlerts = 2
SYMMETRY Symmetry
INVARIANTS TypeOK StoreFollowsReports AnsweredIsHandled
PROPERTIES ImplementsAlertBook
