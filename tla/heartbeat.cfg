SPECIFICATION Spec
CONSTANTS
  Interval = 4
  RetryInterval = 2
  MinWait = 1
  MaxRequest = 2
  RetryAfter = {0, 1, 3, 9}
  MaxFailures = 3
INVARIANTS
  TypeOK
  IdleBounded
PROPERTIES
  EmbargoKept
  RejectionReported
