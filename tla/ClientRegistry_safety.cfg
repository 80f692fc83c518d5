SPECIFICATION Spec

CONSTANTS
  DBusThreads = {dispatcher}
  LegatoThreads = {legato}
  NoThread = nobody
  Names = {"app", " app", ""}
  Blank = ""
  Trim <- MCTrim
  DefaultStatus = "LC_STS_NOT_OK"
  Conditions <- MCConditions
  LateBound = 1

CHECK_DEADLOCK TRUE

INVARIANTS
  TypeOK
  MutexOwned
  IteratorsValid
  UniqueNames
  McuHeardLastDecision
  VerdictMatchesWindow
  Strengthening
