SPECIFICATION SpecBusy
CONSTANTS
  Workers = {w1}
  NumKeys = 2
  Limits <- OneSlotEach
  WaiterCap = 1
  MaxAttempts = 2
  AffinityOn = TRUE
  Ids = {}
  NoId = none
  Answers <- OnlyOk
  OverQuotas <- NeverDemoted
  AffinityCap = 1
  Cooldown429 = 1
  RetryAfterCap = 1
  StrikesToCool = 2
PROPERTIES KeysTakeTurns
