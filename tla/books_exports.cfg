CONSTANTS
  Docs <- MCDocs
  Row <- MCRow
  Collation <- MCCollation
  Requests <- MCRequests
  Jobs <- MCJobs
  Late = {2, 4}
  Fragile = {1, 3}
  YearLength = 10
  TextLimit = 4
  MaxEntries = 4
  MinIban = 5
  MaxIban = 6
  MaxAmount = 10000
  MaxTransfers = 3
  MaxPayload = 40
SPECIFICATION Spec
INVARIANTS
  NothingGoesMissing
  EntriesHaveTheirOwnNames
  ReadAsWritten
PROPERTIES
  OnlyOriginalsAreHandedOver
