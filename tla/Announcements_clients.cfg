SPECIFICATION DaemonSpec

CONSTANTS
  Notifications <- MCModes
  SocketReasons = {}
  CanStatuses = {}
  QueueBound = 1
  InitialStates = {"NAD_LISTEN_1"}
  InitialInfos <- MCInfos
  Unassigned = stack
  NoEvent = silence
  Handlers = {handler1}
  DefaultState = "NAD_INIT"
  EventBound = 2

CHECK_DEADLOCK TRUE

INVARIANTS
  ClientsAgree
  LegatoHearsLastMode
PROPERTIES
  LegatoIsServed
