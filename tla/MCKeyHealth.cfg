SPECIFICATION Spec
CONSTANTS
  Requests = {r1, r2, r3, r4, r5}
  Cooldown429 = 2
  RetryAfterCap = 4
  StrikesToCool = 3
  RetryAfters <- SomeRetryAfters
INVARIANTS TypeOK StrikesBounded
PROPERTIES DeadWhenQuiet CooldownHolds CooldownEnds
