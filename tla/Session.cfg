CONSTANTS
  MaxRoles = 1
  MaxReconnectCount = 1
  QuietReconnects = 1
  MaxWire = 1
  LoginErrors = {"BUSY", "OTHER"}
  Patient = FALSE
  PromptClose = FALSE
  Late = {"disconnection"}
SPECIFICATION Spec
INVARIANTS WatchdogArmed NoWatchdogWhenClosed RetryWithinLimit
PROPERTIES DisconnectionDlgHonest
CHECK_DEADLOCK FALSE
