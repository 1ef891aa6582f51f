CONSTANTS
  Rules = {"health"}
  Grace = 1
  Recovery = 2
  Reminder = 2
  Span = 3
  Thresholds = {2, 5}
  Amounts = {0, 4}
  MaxTime = 15
  MaxTrouble = 3
SPECIFICATION Spec
INVARIANT RecoveryContinuous
CHECK_DEADLOCK FALSE
