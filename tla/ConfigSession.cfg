SPECIFICATION Spec
CONSTANTS
  s1 = s1
  s2 = s2
  NoOne = none
  Shells = {s1, s2}
  Setups <- MCSetups
  SnapshotCount = 2
  Read <- EnterCandidate
  Show <- Text
  Accepts <- IsEdit
  AfterEdit <- EditedBody
  Load <- from_conf_str
  Store <- to_conf_str
  CanStart <- StartOk
  StartedFrom <- Started
  Apply <- apply_config
  Perform <- handle_mgmt_op
  IsUnlocked <- IsRouteRequest
  Idling <- PeersToMeet
  Met <- Meet
INVARIANTS
  ServerRunsItsConfig
  PoliciesUseCurrentSets
  PreviousVersionKept
  NoLostCommit
  EditsAreFaithful
SYMMETRY ShellSymmetry
CHECK_DEADLOCK FALSE
