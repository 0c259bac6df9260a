SPECIFICATION Spec
CONSTANTS
  r1 = r1
  r2 = r2
  Requests = {r1, r2}
  Unlucky <- MCUnlucky
  Tenant <- MCTenant
  Inbox <- MCInbox
  Ruleset <- MCRuleset
  Storage <- MCStorage
  Migrations <- MCMigrations
  Users <- MCUsers
  Configs = {1}
  MaxDocuments = 1
  MaxDays = 1
INVARIANTS
  FassungenAreOneHistory
  AnswersAreTrue
  HandedOverAsWhatItIs
  ChangedHashesShow
PROPERTIES
  EveryRequestIsAnswered
CHECK_DEADLOCK FALSE
