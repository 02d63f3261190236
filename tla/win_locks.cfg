SPECIFICATION Spec
CONSTANTS
  h1 = h1
  h2 = h2
  h3 = h3
  Handles = {h1, h2, h3}
  Tries = 2
  Outsiders = {"PENDING", "RESERVED"}
INVARIANTS
  TypeOK
  OneWritesAlone
  LockTypeTrue
  ReadLockComesBack
PROPERTIES
  LocksKeepPromises
