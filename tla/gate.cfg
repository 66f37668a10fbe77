SPECIFICATION FairSpec
CONSTANTS
  t5 = t5
  t4 = t4
  t3 = t3
  t2 = t2
  t1 = t1
  Tasks = {t1, t2, t3, t4, t5}
  G0Cap = 1
  G1Cap = 1
  MaxQs = {0, 1, 2}
  Policies = {"drop_oldest", "reject"}
  Overflows = {"block", "reject"}
  Dead = Dead
INVARIANTS
  SlotConservation
  WaitersTracked
  BlockedOnlyWhileFull
  NoStrandedWaiter
PROPERTIES
  ServedInTurn
  NoBarging
  ImplementsPool
  EventuallyAnswered
