\* Up to two pending transactions in up to two blocks, or three movements or holdings.
SPECIFICATION Spec
CONSTANTS
  Words <- MCWords
  Isin = {"share", "bond"}
  Ref = {"r1"}
  Amount = {0, 125000}
  Blocks = {0, 1}
  MaxTransactions <- MCMaxTransactions
  Errors = {1, 2}
  MaxReported = 2
CHECK_DEADLOCK FALSE
INVARIANTS
  EventsKeepApart
  ReconciliationIsTrue
