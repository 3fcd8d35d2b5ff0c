SPECIFICATION Spec
CONSTANTS
  Workers = {w1, w2, w3}
  NumKeys = 1
  Limits <- OneSlot
  WaiterCap = 1
  MaxAttempts = 2
  AffinityOn = TRUE
  Ids = {}
  NoId = none
  Answers <- AllAnswers
  OverQuotas <- NeverDemoted
  AffinityCap = 1
  Cooldown429 = 1
  RetryAfterCap = 1
  StrikesToCool = 2
PROPERTIES EveryRequestEnds EachKeyASemaphore
