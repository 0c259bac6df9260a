SPECIFICATION EngineSpec
CONSTANTS
  payable = payable  lineCount = lineCount  reference = reference  vatId = vatId
  net = net  rate = rate  text = text  reason = reason  share = share  twice = twice
  milk = milk  cola = cola  soup = soup
  drinks = drinks  dairy = dairy  nowhere = nowhere  nested = nested
  DocFields <- MCDocFields
  LineFields <- MCLineFields
  TaxFields <- MCTaxFields
  VarFields <- MCVarFields
  NumberFields <- MCNumberFields
  Builtin <- MCBuiltin
  BadPatterns <- MCBadPatterns
  Nodes <- MCNodes
  Height <- MCHeight
  Drafts <- MCDrafts
  Invoices <- MCInvoices
  MaxDocuments = 2
INVARIANTS ReportIsPerDocument ExactlyOneVersion OnlyAnswersFlag
CHECK_DEADLOCK FALSE
