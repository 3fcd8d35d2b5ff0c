SPECIFICATION Spec
CONSTANTS
  Callers = {u1}
  Poller = poller
  NumKeys = 2
  Concurrencies <- FreeAndPro
  Threshold = 800
  MaskBits = 1
  Ttl = 2
  MinRefresh = 1
  DefaultBackoff = 2
  MaxBackoff = 2
  Responses <- AllResponses
  AgeCap = 2
INVARIANTS TypeOK MaskInStep AgesHonest AggregateHonest
PROPERTIES RoundsSpaced MaskKept CallsReturn NoKeyShelved
