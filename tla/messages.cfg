\* Two schemas with texts of up to seven and five fields, four bad ones up to five.
SPECIFICATION Spec
CONSTANTS
  Name = {"A", "F", "L"}
  Tag <- MCTags
  Parts <- MCParts
  FieldType <- MCFieldType
  Schemas <- MCSchemas
  Anchored <- MCAnchored
  RawValues <- MCRawValues
  EditedValues <- MCEditedValues
  MaxDepth = 2
  MaxLength <- MCMaxLength
CHECK_DEADLOCK FALSE
INVARIANTS
  ReportsAreExact
  
  RenderingIsFaithful
