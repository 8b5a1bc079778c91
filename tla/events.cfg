CONSTANTS
  Emitters = {e1, e2}
  Clients = {c1, c2}
  MaxLen = 2
  QueueSize = 1
  MaxSubscribers = 1
  MaxEvents = 3
SPECIFICATION Spec
CHECK_DEADLOCK FALSE
INVARIANTS TypeOK AtMostOnce Accounted EmitOrder
PROPERTIES EmitEnds
