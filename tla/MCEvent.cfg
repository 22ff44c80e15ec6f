SPECIFICATION Spec
CONSTANTS
  t1 = t1
  t2 = t2
  t3 = t3
  None = None
  Threads <- MCThreads
  MaxCalls = 5
INVARIANTS NoLostWakeup FreshCode
PROPERTIES ImplementsEvent
CHECK_DEADLOCK FALSE
