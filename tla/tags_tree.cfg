SPECIFICATION Spec
CONSTANTS
  r = r
  s = s
  t = t
  fr = fr
  fs = fs
  ft = ft
  new = new
  NoDir = NoDir
  Sick = Sick
  Dirs = {r, s, t}
  Parent <- ThreeLevels
  Files = {fr, ft, new}
  DirOf <- DirsOfThree
  Depths <- UpToTwo
  Found <- AnyKind
  Faults = TRUE
INVARIANTS
  TypeOK
  SearchIsNearest
  TreeFromDatabase
  ScreenIsKnown
  JumpStaysAlive
PROPERTIES
  DatabaseChosen
