SPECIFICATION Spec
CONSTANTS
  A = A
  B = B
  C = C
  x = x
  Names = {A, B, C}
  Comps = {x}
  Versions <- MCVersions
  None = None
  Self = Self
  Default = Default
  LoadError = LoadError
  LoadThrow = LoadThrow
  Disks <- MCDisks
  Requests <- MCRequests
  StackLimit = 4
INVARIANTS TypeOK StackIsChain CacheHoldsChosen GraphIsBuilt NothingTooOld
PROPERTIES LinkedOnce ImplementsResolution Ends
CHECK_DEADLOCK FALSE
