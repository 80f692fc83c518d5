SPECIFICATION FairSpec

CONSTANTS
  Notifications <- MCWindows
  SocketReasons = {"SOCKET_RTC"}
  CanStatuses = {"LC_CAN_STS_ON"}
  QueueBound = 1
  InitialStates = {"NAD_ON"}
  InitialInfos <- MCInfos
  Unassigned = stack
  NoEvent = silence

CHECK_DEADLOCK TRUE

PROPERTIES
  ModeTakesEffect
  ModeIsAnnounced
  PowerModeIsAtomic
