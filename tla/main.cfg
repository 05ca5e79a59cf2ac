SPECIFICATION MainSpec
CONSTANTS
  R = R
  A = A
  B = B
  Z = Z
  x = x
  y = y
  Names = {R, A, B, Z}
  Comps = {x, y}
  Versions <- MCVersions
  None = None
  Self = Self
  Default = Default
  LoadError = LoadError
  LoadThrow = LoadThrow
  Disks <- MCRunDisks
  Requests <- MCRequests
  StackLimit = 4
  NodeLimit = 5
  Invocations <- MCInvocations
INVARIANTS MergedOnce LinkOrder LocationErrors MergesOnlyNeeded MergesNeeded PrintsWhatIsAsked StatusTells
PROPERTY MainEnds
CHECK_DEADLOCK FALSE
