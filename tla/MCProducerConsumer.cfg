SPECIFICATION ProgramSpec
CONSTANTS
  p1 = p1
  p2 = p2
  c1 = c1
  c2 = c2
  Nobody = Nobody
  EventWaiter = EventWaiter
  Producers <- TwoProducers
  Consumers <- TwoConsumers
  MaxItems = 3
INVARIANTS ExactlyOnce InOrder NoMissedNotify
PROPERTIES EverythingPrinted EventSeen
