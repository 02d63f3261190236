SPECIFICATION Spec
CONSTANTS
  r = r
  s = s
  t = t
  fr = fr
  fs = fs
  ft = ft
  new = new
  NoDir = NoDir
  Sick = Sick
  Dirs = {r, s}
  Parent <- TwoLevels
  Files = {fr, fs}
  DirOf <- DirsOfTwo
  Depths <- UpToOne
  Found <- SomeKinds
  Faults = FALSE
INVARIANTS
  TagInUseAlive
