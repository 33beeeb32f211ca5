SPECIFICATION Spec
CONSTANTS
  gw = gw
  dev = dev
  attr = attr
  ann = ann
  bob = bob
  AUTO = AUTO
  None = None
  Gateways <- NoKeys
  Devices <- OneDevice
  Attrs <- NoKeys
  Operators <- OneOperator
  Faults <- NoFaults
  MaxInbox = 1
  MaxAlerts = 2
PROPERTIES OnlySeenHandled
