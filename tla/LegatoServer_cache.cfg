SPECIFICATION FairSpec

CONSTANTS
  Writers = {rcv, dispatcher}
  Handlers = {h1}
  Conditions <- MCConditions
  DefaultState = "NAD_LISTEN_1"
  EventBound = 2

CHECK_DEADLOCK TRUE

INVARIANTS
  TypeOK
  HandlersUpToDate
  CacheCurrent

PROPERTIES
  StateIsTold
