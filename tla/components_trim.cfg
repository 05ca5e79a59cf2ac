SPECIFICATION Spec
CONSTANTS
  R = R
  A = A
  B = B
  C = C
  x = x
  y = y
  Names = {R, A, B, C}
  Comps = {x, y}
  Versions <- MCVersions
  None = None
  Self = Self
  Default = Default
  LoadError = LoadError
  LoadThrow = LoadThrow
  Graphs <- MCGraphs
INVARIANT NeededKept
CHECK_DEADLOCK FALSE
