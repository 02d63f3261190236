SPECIFICATION Spec
CONSTANTS
  Instances = {p1}
  a = a
  b = b
  noSearch = noSearch
  broken = broken
  Tags = {a, b, noSearch, broken}
  NoTags = NoTags
  TagFiles <- FourTagFiles
  Skipped = {noSearch}
  Malformed = {broken}
  Faults <- AllFaults
  OverwriteTags = TRUE
  DeleteTags = TRUE
INVARIANTS
  TypeOK
  LeakNeedsFailure
PROPERTIES
  ImportIsWhole
  TagsFileOutlivesImport
  OldOutlivesCtags
