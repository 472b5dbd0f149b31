SPECIFICATION Spec
CONSTANTS
  None = None
  Human = Human
  Robot = Robot
  add = add
  count = count
  Models = {Human, Robot}
  Own = Human
  Inbound <- Methods
  Outbound = {count}
  ModelOf <- MethodModels
  Notified = {}
  MaxFaults = 2
INVARIANT OwnEvents
CHECK_DEADLOCK FALSE
