SPECIFICATION Spec

CONSTANTS
  Notifications <- MCPowerOff
  SocketReasons = {}
  CanStatuses = {}
  QueueBound = 1
  InitialStates = {"NAD_LISTEN_3"}
  InitialInfos <- MCInfos
  Unassigned = stack
  NoEvent = silence

CHECK_DEADLOCK TRUE

PROPERTIES
  WakeupFollowsTable
