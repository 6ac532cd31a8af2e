SPECIFICATION MemorySpec
CONSTANTS
  parity = parity
  majority = majority
  here = here
  away = away
  negate = negate
  widen = widen
  source = source
  other = other
  target = target
  good = good
  fair = fair
  bad = bad
  u = u
  w = w
  None = None
  Unused = Unused
  Experiences <- MCExperiences
  Contexts <- MCContexts
  Tasks = {source, other, target}
  Configs <- MCConfigs
  Weights <- MCWeights
  Envelope = 1
  Denominator = 2
  Numerator = 1
  Scale = 1000
CHECK_DEADLOCK FALSE
INVARIANTS
  ExperienceIsRecorded
PROPERTIES
  PromotionIsEarned
  RetrievalIsBest
