SPECIFICATION Spec
CONSTANTS
  Instances = {p1, p2}
  a = a
  b = b
  noSearch = noSearch
  broken = broken
  Tags = {a}
  NoTags = NoTags
  TagFiles <- OneTagFile
  Skipped = {}
  Malformed = {}
  Faults = {}
  OverwriteTags = TRUE
  DeleteTags = TRUE
INVARIANTS
  ImportStartsEmpty
