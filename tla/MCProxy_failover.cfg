SPECIFICATION Spec
CONSTANTS
  Workers = {w1, w2}
  NumKeys = 2
  Limits <- UnevenSlots
  WaiterCap = 1
  MaxAttempts = 2
  AffinityOn = TRUE
  Ids = {c1, c2}
  NoId = none
  Answers <- FailureAnswers
  OverQuotas <- OneDemotion
  AffinityCap = 1
  Cooldown429 = 1
  RetryAfterCap = 1
  StrikesToCool = 2
SYMMETRY Symmetry
INVARIANTS TypeOK SlotsReturned
PROPERTIES StrikesKept PinLossJustified EachKeyAsKeyHealth
