SPECIFICATION LiveSpec
CONSTANTS
  p = p
  q = q
  good = good
  fair = fair
  NoRecord = NoRecord
  None = None
  Unused = Unused
CHECK_DEADLOCK FALSE
PROPERTIES
  SearchesEnd
  ExperimentsEnd
