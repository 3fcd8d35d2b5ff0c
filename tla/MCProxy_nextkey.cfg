SPECIFICATION Spec
CONSTANTS
  Workers = {w1}
  NumKeys = 2
  Limits <- OneSlotEach
  WaiterCap = 1
  MaxAttempts = 2
  AffinityOn = TRUE
  Ids = {}
  NoId = none
  Answers <- OnlyBroken
  OverQuotas <- NeverDemoted
  AffinityCap = 1
  Cooldown429 = 1
  RetryAfterCap = 1
  StrikesToCool = 3
PROPERTIES FailoverChangesKey
