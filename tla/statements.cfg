\* Files of up to three messages and six lines, of which those of up to four are stored.
SPECIFICATION Spec
CONSTANTS
  EntryValues <- MCEntryValues
  BalanceValues <- MCBalanceValues
  MaxMessages <- MCMaxMessages
  MaxLines <- MCMaxLines
  StoredLines <- MCStoredLines
CHECK_DEADLOCK FALSE
INVARIANTS
  LoadIsExact
  StatementsAreTrue
  AnswersShowTheStore
