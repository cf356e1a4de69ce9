CONSTANTS
  MaxRoles = 2
  MaxReconnectCount = 1
  QuietReconnects = 1
  MaxWire = 2
  LoginErrors = {"BUSY"}
  Patient = TRUE
  PromptClose = TRUE
  Late = {"dlgchooseplayer"}
SPECIFICATION FairSpec
INVARIANTS RoleAgrees RoleMatchesServer LoggedOutStaysOff
PROPERTIES DeadLinkDropped RetryTerminates
CHECK_DEADLOCK FALSE
