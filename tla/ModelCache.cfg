SPECIFICATION Spec
CONSTANTS
  c1 = c1
  c2 = c2
  c3 = c3
  p1 = p1
  p2 = p2
  t1 = t1
  t2 = t2
  t3 = t3
  noPath = noPath
  Client = {c1, c2, c3}
  Path = {p1, p2}
  NoPath = noPath
  Ttls <- MCTtls
  DefaultTtl = 2
  Timer = {t1, t2, t3}
  MaxLoads = 4
  MaxIdle = 2
INVARIANTS
  TypeOK
  HeldContextIsLive
  RefCountExact
  IdleModelHasTimer
PROPERTY
  ImplementsSharedContext
  IdleModelGoes
