SPECIFICATION Spec

CONSTANTS
  DBusThreads = {dispatcher}
  LegatoThreads = {legato}
  NoThread = nobody
  Names = {"app", " app", ""}
  Blank = ""
  Trim <- MCTrim
  DefaultStatus = "LC_STS_NOT_OK"
  Conditions <- MCTwoConditions
  LateBound = 0

CHECK_DEADLOCK TRUE

INVARIANTS
  ActiveMeansLocked
