SPECIFICATION Spec
CONSTANTS
  Reliable = {r1}
  Plain <- NoGoroutine
  Consumers = {c1}
  Nobody = Nobody
  Conns = {g1, g2, g3, g4}
  MaxRetries = 2
  MaxFailures = 1
  MaxTimeouts = 0
PROPERTIES PublishReturns
CHECK_DEADLOCK FALSE
