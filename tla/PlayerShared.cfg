CONSTANTS
  Callers = {c1, c2}
  MaxLoop = 2
  MaxCall = 0
  MaxSwitch = 0
  AudioOnlys = {FALSE}
  StartOnPrepareds = {TRUE}
SPECIFICATION Spec
INVARIANTS RefsAccounted NoUseAfterFree
CHECK_DEADLOCK FALSE
