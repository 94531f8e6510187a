SPECIFICATION RequestsSpec
CONSTANTS
  heartbeat = heartbeat
  Caller <- Callers
  Heartbeat <- Heartbeats
  Meter <- Meters
  View <- Views
  Nobody = Nobody
  Chunk <- Chunks
  HistoryLimit = 1
INVARIANTS
  RequestsTypeOK
  LockHeldBySender
  QuietAfterRejection
  HeartbeatWaitBounded
PROPERTIES
  RejectionIsFinal
  ImplementsGate
  RejectedRefreshNotStored
  HeartbeatReturns
  RefreshEnds
CHECK_DEADLOCK FALSE
