SPECIFICATION FairSpec

CONSTANTS
  LpmThreads = {lpm1, lpm2}
  Texts <- MCTexts
  Garbage = {stack}
  QueueBound = 2
  Nobody = nobody

CHECK_DEADLOCK TRUE

INVARIANTS
  TypeOK
  OneReader

PROPERTIES
  ServedInOrder
  HeadIsServed
