CONSTANTS
  Callers = {c1}
  MaxLoop = 1
  MaxCall = 3
  MaxSwitch = 0
  AudioOnlys = {FALSE}
  StartOnPrepareds = {TRUE}
SPECIFICATION FramesFairSpec
PROPERTIES StartAlwaysStarts
CHECK_DEADLOCK FALSE
