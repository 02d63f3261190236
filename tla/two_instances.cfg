SPECIFICATION FairSpec
CONSTANTS
  Instances = {p1, p2}
  a = a
  b = b
  noSearch = noSearch
  broken = broken
  Tags = {a}
  NoTags = NoTags
  TagFiles <- OneTagFile
  Skipped = {}
  Malformed = {}
  Faults <- DatabaseFaults
  OverwriteTags = FALSE
  DeleteTags = FALSE
INVARIANTS
  VersionImpliesSchema
PROPERTIES
  ScanSeesOneState
  FileKeepsPromises
  ReadersKeepRows
  OperationsEnd
