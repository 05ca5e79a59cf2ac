SPECIFICATION PcSpec
CONSTANTS
  a = a
  b = b
  t = t
  u = u
  Vars = {a, b}
  Texts = {t, u}
  Blank = Blank
  Colon = Colon
  Other = Other
  Files <- MCFiles
INVARIANTS ValuesAsWritten OneLineKills FlagsComplete
CHECK_DEADLOCK FALSE
