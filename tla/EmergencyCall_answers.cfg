SPECIFICATION Spec

CONSTANTS
  RequestedStates = {"NAD_EMERGENCY", "NAD_EMERGENCY_LAW", "NAD_SLEEP"}
  Timeouts = {halfhour, hour}
  WireBound = 2
  NoRequest = none

SYMMETRY MCTimeouts

CHECK_DEADLOCK TRUE

INVARIANTS
  TypeOK
  OkMeansAccepted
  OkStands
  TimerStands
