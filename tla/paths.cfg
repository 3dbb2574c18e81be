\* Every text of at most six fields; two levels of sequences.
SPECIFICATION Spec
CONSTANTS
  Name = {"A", "B"}
  Tag = {"20", "61", "62", "86"}
  Anchored <- StatementLines
  MaxDepth = 2
  MaxFields = 6
CHECK_DEADLOCK FALSE
INVARIANTS
  TypeOK
  PathsAreRight
  GroupsAreDistinct
  PathsNameOpenedGroups
  DiagnosticsAreExact
