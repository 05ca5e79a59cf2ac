SPECIFICATION LoadSpec
CONSTANTS
  Documents <- MCDocuments
  Elements <- MCElements
  Stem <- MCStem
  PrefixMark = "@prefix@"
  NoName = ""
  CpsPaths <- MCCpsPaths
  Directories <- MCDirectories
INVARIANTS LoadsExactlyValid FirstFaultDecides PrefixLeadsBack
PROPERTY LoadEnds
CHECK_DEADLOCK FALSE
