\* The tags file, from its bytes to the rows of the table.
SPECIFICATION Spec
CONSTANTS
  Files <- MCFiles
  FirstSize = 4
  FirstFields = 2
  FieldsModulus = 12
  MaxPath = 3
  Null = Null
INVARIANTS
  TypeOK
  RowsAreLines
  FieldsFit
  PatternFindsLine
PROPERTIES
  ReadingEnds
CHECK_DEADLOCK FALSE
