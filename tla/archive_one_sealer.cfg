SPECIFICATION Spec
CONSTANTS
  Docs = {d1, d2}
  MaxDay = 3
  Archivers = {a1, a2}
  Sealers = {s1}
  Readers = {}
INVARIANTS ChainVerifies
PROPERTIES ImplementsLedger
CHECK_DEADLOCK FALSE
