CONSTANTS
  Targets = {t1, t2}
  NoTarget = nil
  MaxId = 3
  MaxDepth = 2
SPECIFICATION Spec
INVARIANTS MapsAgree
PROPERTIES NoCallAfterRemove CleanTriggerComplete
