SPECIFICATION Spec
CONSTANTS
  f = f
  g = g
  None = None
  Files = {f, g}
  LastLine <- LastLineOf
  Plain = {f}
  Removable = {f}
  IniLimits <- SomeIniLimits
  DialogLimits <- SomeDialogLimits
  MaxTrail = 4
INVARIANTS
  TypeOK
  StackIsTrail
  StackBounded
PROPERTIES
  BackReturns
