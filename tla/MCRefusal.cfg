SPECIFICATION Spec
CONSTANTS
  NumKeys = 3
  Second = 2
  RetryAfters <- SomeRetryAfters
  Cooldown429 = 6
  RetryAfterCap = 9
  StrikesToCool = 1
INVARIANTS NoFalseRefusal RetryAfterHonest
