SPECIFICATION Spec
CONSTANTS
  Names <- MCNames
  Environments <- MCEnvironments
  Disks <- MCDisks
  Libdir <- MCLibdir
  Datadir <- MCDatadir
INVARIANTS EveryFileFound BetterSourceFirst
PROPERTY AnswersRepeat
