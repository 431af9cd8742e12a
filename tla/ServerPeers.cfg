SPECIFICATION FairSpec
CONSTANTS
  fa = fa
  fb = fb
  a1 = a1
  a2 = a2
  b1 = b1
  Families = {fa, fb}
  Keys = {a1, a2, b1}
  FamilyOf <- MCFamilyOf
  NoLlgr <- MCNoLlgr
  Setups <- MCSetups
  Limit <- MCLimit
  OverLimit <- MCOverLimit
  AllowAutoStop = TRUE
  RefreshTtl = TRUE
  MaxOps = 2
INVARIANTS
  SessionIsSeen
  FreshIsLive
PROPERTY StaleIsCleared
CHECK_DEADLOCK FALSE
