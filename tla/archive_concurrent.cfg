SPECIFICATION MCSpec
CONSTANTS
  Docs = {d1, d2}
  MaxDay = 2
  Archivers = {a1, a2}
  Sealers = {s1, s2}
  Readers = {r1}
  MaxLeaves = 7
SYMMETRY Symmetry
INVARIANTS RootsHoldTheirDay LinksAreOrdered ServedProofsHold ProofsConvince
CHECK_DEADLOCK FALSE
