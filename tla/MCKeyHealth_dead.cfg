SPECIFICATION Spec
CONSTANTS
  Requests = {r1, r2}
  Cooldown429 = 2
  RetryAfterCap = 4
  StrikesToCool = 3
  RetryAfters <- SomeRetryAfters
PROPERTIES DeadUntilRestart
