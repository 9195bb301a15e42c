SPECIFICATION Spec
CONSTANTS
  p1 = p1
  p2 = p2
  c1 = c1
  c2 = c2
  x1 = x1
  x2 = x2
  Items <- MCItems
  Producers <- TwoProducers
  Consumers <- TwoConsumers
  SoleProducer = p1
  SoleConsumer = c1
  Cap = 4
  Modulus = 8
  Reserve = 1
INVARIANTS
  RoomHonoured
PROPERTY
  IsFifo
