SPECIFICATION Spec
CONSTANTS
  Threads = {t1, t2, t3, t4}
  Configured = 0
  WaiterCap = 2
INVARIANTS TypeOK SlotsAccounted WaitersAccounted NoLostWakeup
PROPERTIES WaitEnds ImplementsSemaphore
