SPECIFICATION Spec
CONSTANTS
  t1 = t1
  t2 = t2
  t3 = t3
  Tasks = {t1, t2, t3}
  G0Cap = 1
  G1Cap = 0
  MaxQs = {1}
  Policies = {"drop_oldest", "reject"}
  Overflows = {"reject", "block"}
  Dead = Dead
  RetryTries = 2
  StreamInChildTask = TRUE
INVARIANTS
  SlotComesBack
