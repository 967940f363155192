CONSTANTS
  Callers = {c1}
  MaxLoop = 1
  MaxCall = 2
  MaxSwitch = 1
  AudioOnlys = {FALSE, TRUE}
  StartOnPrepareds = {FALSE, TRUE}
SPECIFICATION FairSpec
INVARIANTS TypeOK PausedIsPaused VoutEnded
PROPERTIES Released StartHonoured
CHECK_DEADLOCK FALSE
