SPECIFICATION Spec
CONSTANTS
  t1 = t1
  t2 = t2
  t3 = t3
  t4 = t4
  Thread <- MCThread
  Limits <- MCLimits
  DefaultLimit = 2
INVARIANTS
  TypeOK
  SlotAccounting
  NoLostWakeup
PROPERTIES
  FreeSlotIsTaken
  ImplementsSlotPool
