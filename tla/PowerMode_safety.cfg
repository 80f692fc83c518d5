SPECIFICATION Spec

CONSTANTS
  Notifications <- MCNotifications
  SocketReasons = {}
  CanStatuses = {}
  QueueBound = 1
  InitialStates = {"NAD_INIT"}
  InitialInfos <- MCInfos
  Unassigned = stack
  NoEvent = silence

CHECK_DEADLOCK TRUE

INVARIANTS
  TypeOK
  NoUnassignedBroadcast
  AppliesWhatWasReported
  EventCurrent
  WindowMeetsServices

PROPERTIES
  SettleIsBlind
  PowerModeIsAtomic
