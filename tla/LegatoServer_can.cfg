SPECIFICATION Spec

CONSTANTS
  Writers = {rcv, dispatcher}
  Handlers = {h1}
  Conditions <- MCCanConditions
  DefaultState = "NAD_INIT"
  EventBound = 2

CHECK_DEADLOCK TRUE

PROPERTIES
  SameCanStatus
