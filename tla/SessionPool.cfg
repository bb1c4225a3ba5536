SPECIFICATION Spec
CONSTANTS
  s1 = s1
  s2 = s2
  s3 = s3
  model = model
  noPath = noPath
  t1 = t1
  t2 = t2
  Session = {s1, s2, s3}
  Model = model
  NoPath = noPath
  Ttls <- MCTtls
  DefaultTtl = 1
  Limits <- MCLimits
  DefaultLimit = 1
  Timer = {t1, t2}
  MaxConfigs = 2
  MaxLoads = 3
INVARIANTS
  TypeOK
  DecodesUseLiveContext
  SlotsBoundFlushDecodes
PROPERTY
  ModelGoesAfterSessions
