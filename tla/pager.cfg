CONSTANTS
  Procs = {p1, p2}
  LastPage = 2
  Values = {a, b}
  MaxVersion = 2
  None = None
  Torn = Torn
SPECIFICATION Spec
SYMMETRY Alike
INVARIANTS
  TypeOK
  MemoryIsCommitted
  LiveJournalStays
PROPERTIES
  FileIsAtomic
  WritesAreAlone
CHECK_DEADLOCK FALSE
