SPECIFICATION MCSpec
CONSTANTS
  Clients = {TRUE, FALSE}
  Releases <- MCReleases
INVARIANTS
  VerdictsAreEarned
  ContentErrorIsShown
  AbstainsRatherThanGuesses
  FindingsAreExplained
PROPERTIES
  RecordedWithoutSidecar
CHECK_DEADLOCK FALSE
