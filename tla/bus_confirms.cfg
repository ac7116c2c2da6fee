SPECIFICATION Spec
CONSTANTS
  Reliable = {r1}
  Plain = {m1}
  Consumers = {c1}
  Nobody = Nobody
  Conns = {g1, g2, g3, g4, g5}
  MaxRetries = 2
  MaxFailures = 2
  MaxTimeouts = 1
INVARIANTS TypeOK OkMeansStored ConfirmOutstanding
PROPERTIES ConsumptionResumes
CHECK_DEADLOCK FALSE
