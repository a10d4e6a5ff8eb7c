SPECIFICATION LimiterSpec
CONSTANTS
  Clients = {c1, c2}
  Slots = {s1, s2}
  Window = 2
  Limit <- MCLimit
  MaxClients = 1
  MaxTime = 3
  Free = Free
INVARIANTS NeverOverBudget NoneRefusedEarly
