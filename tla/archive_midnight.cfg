SPECIFICATION Spec
CONSTANTS
  Docs = {d1}
  MaxDay = 2
  Archivers = {a1}
  Sealers = {s1}
  Readers = {}
INVARIANTS SealedDayClosed
CHECK_DEADLOCK FALSE
