\* Three inbound rows, batches of two, every command interrupted anywhere.
SPECIFICATION Spec
CONSTANTS
  Kind = {"MT540", "MT999"}
  Described = {"MT540"}
  File <- Files
  Contents <- Messages
  StemOf <- Stems
  OutputStem <- Safe
  BatchSize = 2
  MaxRows = 3
  MaxWrites = 2
CHECK_DEADLOCK FALSE
INVARIANTS
  TablesAgree
  NothingIsSkipped
  WrittenOncePerInterruption
PROPERTIES
  FilesShowTheTables
