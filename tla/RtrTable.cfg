SPECIFICATION ManagerFairSpec
CONSTANTS
  c1 = c1
  c2 = c2
  c3 = c3
  v1 = v1
  v2 = v2
  Caches = {c1, c2, c3}
  Payloads = {v1, v2}
  Preferences = {1, 2}
  Dead = {c1}
  MaxEvents = 1
  MaxUpdates = 2
INVARIANTS TableFollowsCaches SessionsAreConfigured
PROPERTIES UpdatesAreChanges LoneCacheFallsBack
