SPECIFICATION Spec
CONSTANTS
  Requests = {r1, r2, r3, r4}
  r1 = r1
  r2 = r2
  r3 = r3
  r4 = r4
  Secrets = {s1, s2}
  s1 = s1
  s2 = s2
  None = None
  MaxFailures = 2
  Window = 0
  PruneAfter = 1
  MaxDelay = 1
  MaxClock = 2
SYMMETRY Symmetry
CHECK_DEADLOCK FALSE
INVARIANTS SecretInUseProven
