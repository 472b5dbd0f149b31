SPECIFICATION FairSpec
CONSTANTS
  None = None
  Human = Human
  Robot = Robot
  add = add
  count = count
  Models = {Human, Robot}
  Own = Human
  Inbound <- Methods
  Outbound = {count}
  ModelOf <- MethodModels
  Notified = {}
  MaxFaults = 2
INVARIANTS
  TypeOK
  CallsKeepWalking
  WatchedOrWalking
  OwnEventsUntilLoss
PROPERTIES
  SentWhenAnswerable
  EventuallySent
CHECK_DEADLOCK FALSE
